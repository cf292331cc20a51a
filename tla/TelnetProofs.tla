---------------------------- MODULE TelnetProofs ----------------------------
(***************************************************************************)
(* Proofs about TelnetWire, for any bytes in any chunks, any input and any *)
(* widths: what parseTelnet shows is what RFC 854 reads, and what is sent  *)
(* reads as the low bytes of what was typed and the size of the window, up *)
(* to the first width sent that has a byte 255.                            *)
(*                                                                         *)
(* The recursive functions of the model are shown to satisfy their         *)
(* equations; what they compute is then proved by induction over indices,  *)
(* in the form of Climbs.                                                  *)
(***************************************************************************)
EXTENDS TelnetWire, SequenceTheorems, WellFoundedInduction, TLAPS

-----------------------------------------------------------------------------
(* Induction and recursion *)

(* A set that has 0 and the successor of each of its members has 0..n.      *)
LEMMA Climbs ==
  ASSUME NEW n \in Nat, NEW T, 0 \in T,
         \A k \in 0..(n - 1) : k \in T => k + 1 \in T
  PROVE  \A k \in 0..n : k \in T
<1> SUFFICES ASSUME NEW k \in 0..n, k \notin T PROVE FALSE
  OBVIOUS
<1> DEFINE M == {i \in Nat : i <= n /\ i \notin T}
<1>1. M \subseteq Nat /\ M # {}
  OBVIOUS
<1>2. PICK i \in M : \A j \in M : ~(<<j, i>> \in OpToRel(<, Nat))
  BY <1>1, WFMin, NatLessThanWellFounded, Zenon
<1>3. \A j \in M : ~(j < i)
  BY <1>1, <1>2, Zenon DEF OpToRel
<1>4. i - 1 \in 0..(n - 1) /\ i - 1 \notin M
  BY <1>3
<1> QED
  BY <1>4

(* The same from the end: a set that has an index when it has all those     *)
(* behind it has them all.                                                  *)
LEMMA Descends ==
  ASSUME NEW n \in Nat, NEW T,
         \A i \in 1..(n + 1) : (\A j \in (i + 1)..(n + 1) : j \in T) => i \in T
  PROVE  \A i \in 1..(n + 1) : i \in T
<1> DEFINE U == {k \in Nat : \A j \in 1..(n + 1) : j >= n + 1 - k => j \in T}
<1>1. 0 \in U
  OBVIOUS
<1>2. ASSUME NEW k \in 0..(n - 1), k \in U PROVE k + 1 \in U
  <2>1. ASSUME NEW j \in 1..(n + 1), j >= n + 1 - (k + 1) PROVE j \in T
    BY <1>2, <2>1
  <2> QED
    BY <2>1
<1>3. n \in U
  <2> HIDE DEF U
  <2> QED
    BY <1>1, <1>2, Climbs
<1> QED
  BY <1>3

(* A fold over a sequence, one element at a time.                           *)
IsFold(r, base, step, s) ==
  r = [i \in 0..Len(s) |-> IF i = 0 THEN base ELSE step[<<r[i - 1], s[i]>>]]

LEMMA FoldExists ==
  ASSUME NEW S, NEW B, NEW step \in [S \X B -> S], NEW base \in S, NEW s \in Seq(B)
  PROVE  \E r \in [0..Len(s) -> S] : IsFold(r, base, step, s)
<1> DEFINE n == Len(s)
           Up(r, k) == /\ r \in [0..n -> S] /\ r[0] = base
                       /\ \A i \in 1..k : r[i] = step[<<r[i - 1], s[i]>>]
           T == {k \in 0..n : \E r : Up(r, k)}
<1>1. n \in Nat /\ \A i \in 1..n : s[i] \in B
  BY LenProperties, ElementOfSeq
<1>2. 0 \in T
  <2>1. Up([i \in 0..n |-> base], 0)
    BY <1>1
  <2> HIDE DEF Up
  <2> QED
    BY <1>1, <2>1
<1>3. ASSUME NEW k \in 0..(n - 1), k \in T PROVE k + 1 \in T
  <2>1. PICK r : Up(r, k)
    BY <1>3
  <2> DEFINE q == [r EXCEPT ![k + 1] = step[<<r[k], s[k + 1]>>]]
  <2>2. k \in 0..n /\ k + 1 \in 1..n /\ k + 1 \in 0..n /\ k # k + 1
    BY <1>1
  <2>3. step[<<r[k], s[k + 1]>>] \in S
    BY <1>1, <2>1, <2>2
  <2>4. q \in [0..n -> S] /\ q[0] = base /\ q[k + 1] = step[<<r[k], s[k + 1]>>] /\ q[k] = r[k]
    BY <1>1, <2>1, <2>2, <2>3
  <2>5. \A i \in 1..k : q[i] = r[i] /\ q[i - 1] = r[i - 1]
    BY <1>1, <2>1, <2>2
  <2>6. \A i \in 1..(k + 1) : q[i] = step[<<q[i - 1], s[i]>>]
    <3> HIDE DEF q
    <3>1. \A i \in 1..(k + 1) : i \in 1..k \/ (i = k + 1 /\ i - 1 = k)
      BY <2>2
    <3>2. \A i \in 1..k : q[i] = step[<<q[i - 1], s[i]>>]
      BY <2>1, <2>5
    <3> QED
      BY <2>4, <3>1, <3>2
  <2>7. Up(q, k + 1)
    BY <2>4, <2>6
  <2> HIDE DEF Up, q
  <2> QED
    BY <2>2, <2>7
<1>4. n \in T
  <2> HIDE DEF T
  <2>1. n \in 0..n
    BY <1>1
  <2> QED
    BY <1>1, <1>2, <1>3, <2>1, Climbs
<1>5. PICK r : Up(r, n)
  BY <1>4
<1>6. IsFold(r, base, step, s)
  <2>1. r = [i \in 0..n |-> r[i]]
    BY <1>5
  <2>2. \A i \in 0..n : r[i] = IF i = 0 THEN base ELSE step[<<r[i - 1], s[i]>>]
    BY <1>1, <1>5
  <2> QED
    BY <2>1, <2>2 DEF IsFold
<1> QED
  BY <1>5, <1>6

-----------------------------------------------------------------------------
(* The reading of RFC 854 *)

Modes == {"data", "iac", "option", "sub", "subiac"}
State == [mode : Modes, sub : Seq(Octet), out : Seq(Octet), subs : Seq(Seq(Octet))]

LEMMA Octets ==
  /\ IAC \in Octet /\ SB \in Octet /\ SE \in Octet
  /\ WILL \in Octet /\ WONT \in Octet /\ DO \in Octet /\ DONT \in Octet
  /\ TTYPE \in Octet /\ NAWS \in Octet /\ IS \in Octet /\ 0 \in Octet /\ Rows \in Octet
BY DEF Octet, IAC, SB, SE, WILL, WONT, DO, DONT, TTYPE, NAWS, IS, Rows

LEMMA GroundType == Ground \in State /\ Ground.mode = "data" /\ Ground.out = <<>>
BY EmptySeq DEF Ground, State, Modes

\* A state, spelled out.
At(mode, sub, out, subs) == [mode |-> mode, sub |-> sub, out |-> out, subs |-> subs]

LEMMA AtState ==
  /\ \A s \in State : s = At(s.mode, s.sub, s.out, s.subs)
  /\ \A mode, sub, out, subs :
       /\ At(mode, sub, out, subs).mode = mode /\ At(mode, sub, out, subs).sub = sub
       /\ At(mode, sub, out, subs).out = out /\ At(mode, sub, out, subs).subs = subs
       /\ mode \in Modes /\ sub \in Seq(Octet) /\ out \in Seq(Octet) /\ subs \in Seq(Seq(Octet))
            => At(mode, sub, out, subs) \in State
BY DEF At, State

(* What one byte does, mode by mode.                                        *)
LEMMA ByteData ==
  ASSUME NEW s \in State, NEW b \in Octet, s.mode = "data"
  PROVE  Byte(s, b) = IF b = IAC THEN At("iac", s.sub, s.out, s.subs)
                      ELSE At("data", s.sub, Append(s.out, b), s.subs)
<1>1. Byte(s, b) = IF b = IAC THEN [s EXCEPT !.mode = "iac"] ELSE [s EXCEPT !.out = Append(s.out, b)]
  BY DEF Byte
<1> QED
  BY <1>1 DEF At, State

LEMMA ByteIac ==
  ASSUME NEW s \in State, NEW b \in Octet, s.mode = "iac"
  PROVE  /\ b = IAC => Byte(s, b) = At("data", s.sub, Append(s.out, IAC), s.subs)
         /\ b \in {WILL, WONT, DO, DONT} => Byte(s, b) = At("option", s.sub, s.out, s.subs)
         /\ b = SB => Byte(s, b) = At("sub", <<>>, s.out, s.subs)
         /\ b \notin {IAC, WILL, WONT, DO, DONT, SB} => Byte(s, b) = At("data", s.sub, s.out, s.subs)
<1>1. /\ b = IAC => Byte(s, b) = [s EXCEPT !.mode = "data", !.out = Append(s.out, IAC)]
      /\ b \in {WILL, WONT, DO, DONT} => Byte(s, b) = [s EXCEPT !.mode = "option"]
      /\ b = SB => Byte(s, b) = [s EXCEPT !.mode = "sub", !.sub = <<>>]
      /\ b \notin {IAC, WILL, WONT, DO, DONT, SB} => Byte(s, b) = [s EXCEPT !.mode = "data"]
  BY DEF Byte, IAC, WILL, WONT, DO, DONT, SB
<1> QED
  BY <1>1 DEF At, State

LEMMA ByteOption ==
  ASSUME NEW s \in State, NEW b \in Octet, s.mode = "option"
  PROVE  Byte(s, b) = At("data", s.sub, s.out, s.subs)
<1>1. Byte(s, b) = [s EXCEPT !.mode = "data"]
  BY DEF Byte
<1> QED
  BY <1>1 DEF At, State

LEMMA ByteSub ==
  ASSUME NEW s \in State, NEW b \in Octet, s.mode = "sub"
  PROVE  Byte(s, b) = IF b = IAC THEN At("subiac", s.sub, s.out, s.subs)
                      ELSE At("sub", Append(s.sub, b), s.out, s.subs)
<1>1. Byte(s, b) = IF b = IAC THEN [s EXCEPT !.mode = "subiac"] ELSE [s EXCEPT !.sub = Append(s.sub, b)]
  BY DEF Byte
<1> QED
  BY <1>1 DEF At, State

LEMMA ByteSubIac ==
  ASSUME NEW s \in State, NEW b \in Octet, s.mode = "subiac"
  PROVE  Byte(s, b) = IF b = SE THEN At("data", s.sub, s.out, Append(s.subs, s.sub))
                      ELSE At("sub", IF b = IAC THEN Append(s.sub, IAC) ELSE s.sub \o <<IAC, b>>,
                              s.out, s.subs)
<1>1. Byte(s, b) = IF b = SE THEN [s EXCEPT !.mode = "data", !.subs = Append(s.subs, s.sub)]
                   ELSE [s EXCEPT !.mode = "sub", !.sub = IF b = IAC THEN Append(s.sub, IAC)
                                                          ELSE s.sub \o <<IAC, b>>]
  BY DEF Byte
<1> QED
  BY <1>1 DEF At, State

LEMMA ByteType ==
  ASSUME NEW s \in State, NEW b \in Octet
  PROVE  Byte(s, b) \in State
<1>1. /\ Append(s.out, b) \in Seq(Octet) /\ Append(s.out, IAC) \in Seq(Octet)
      /\ Append(s.sub, b) \in Seq(Octet) /\ Append(s.sub, IAC) \in Seq(Octet)
      /\ Append(s.subs, s.sub) \in Seq(Seq(Octet)) /\ <<>> \in Seq(Octet)
  BY Octets, AppendProperties, EmptySeq DEF State
<1>2. s.sub \o <<IAC, b>> \in Seq(Octet)
  <2>1. <<IAC, b>> \in Seq(Octet)
    BY Octets
  <2> QED
    BY <2>1, ConcatProperties DEF State
<1> QED
  BY <1>1, <1>2 DEF Byte, State, Modes

(* The equation of Reads.                                                   *)
LEMMA ReadsDef ==
  ASSUME NEW s \in State, NEW bytes \in Seq(Octet)
  PROVE  Reads(s, bytes) = [i \in 0..Len(bytes) |->
           IF i = 0 THEN s ELSE Byte(Reads(s, bytes)[i - 1], bytes[i])]
<1> DEFINE Fits(r) == r = [i \in 0..Len(bytes) |-> IF i = 0 THEN s ELSE Byte(r[i - 1], bytes[i])]
           step == [x \in State \X Octet |-> Byte(x[1], x[2])]
<1>1. Reads(s, bytes) = CHOOSE r : Fits(r)
  BY DEF Reads
<1>2. step \in [State \X Octet -> State]
  BY ByteType
<1>3. PICK r \in [0..Len(bytes) -> State] : IsFold(r, s, step, bytes)
  BY <1>2, FoldExists
<1>4. Fits(r)
  <2>1. Len(bytes) \in Nat /\ \A i \in 1..Len(bytes) : bytes[i] \in Octet
    BY LenProperties, ElementOfSeq
  <2>2. \A i \in 0..Len(bytes) : i # 0 => i \in 1..Len(bytes) /\ i - 1 \in 0..Len(bytes)
    BY <2>1
  <2>3. \A i \in 0..Len(bytes) : i # 0 => step[<<r[i - 1], bytes[i]>>] = Byte(r[i - 1], bytes[i])
    BY <2>1, <2>2
  <2> QED
    BY <1>3, <2>3 DEF IsFold
<1> HIDE DEF Fits
<1>5. Fits(CHOOSE q : Fits(q))
  BY <1>4
<1>6. Fits(Reads(s, bytes))
  BY <1>1, <1>5
<1> QED
  BY <1>6 DEF Fits

LEMMA ReadsStep ==
  ASSUME NEW s \in State, NEW bytes \in Seq(Octet)
  PROVE  /\ Len(bytes) \in Nat
         /\ Reads(s, bytes)[0] = s
         /\ \A i \in 1..Len(bytes) :
              /\ i - 1 \in 0..Len(bytes) /\ bytes[i] \in Octet
              /\ Reads(s, bytes)[i] = Byte(Reads(s, bytes)[i - 1], bytes[i])
         /\ \A i \in 0..Len(bytes) : Reads(s, bytes)[i] \in State
         /\ After(s, bytes) \in State
<1>1. Len(bytes) \in Nat /\ \A i \in 1..Len(bytes) : bytes[i] \in Octet
  BY LenProperties, ElementOfSeq
<1>2. /\ Reads(s, bytes)[0] = s
      /\ \A i \in 1..Len(bytes) : Reads(s, bytes)[i] = Byte(Reads(s, bytes)[i - 1], bytes[i])
  BY <1>1, ReadsDef
<1> DEFINE T == {i \in Nat : Reads(s, bytes)[i] \in State}
<1>3. 0 \in T
  BY <1>2
<1>4. \A k \in 0..(Len(bytes) - 1) : k \in T => k + 1 \in T
  BY <1>1, <1>2, ByteType
<1>5. \A i \in 0..Len(bytes) : i \in T
  <2> HIDE DEF T
  <2> QED
    BY <1>1, <1>3, <1>4, Climbs
<1> QED
  BY <1>1, <1>2, <1>5 DEF After

LEMMA ReadsNext ==
  ASSUME NEW s \in State, NEW bytes \in Seq(Octet), NEW k \in Nat, k < Len(bytes)
  PROVE  /\ k + 1 \in 1..Len(bytes) /\ bytes[k + 1] \in Octet
         /\ Reads(s, bytes)[k] \in State
         /\ Reads(s, bytes)[k + 1] = Byte(Reads(s, bytes)[k], bytes[k + 1])
<1>1. Len(bytes) \in Nat
  BY ReadsStep
<1>2. k + 1 \in 1..Len(bytes) /\ k \in 0..Len(bytes) /\ (k + 1) - 1 = k
  BY <1>1
<1>3. \A i \in 1..Len(bytes) :
        bytes[i] \in Octet /\ Reads(s, bytes)[i] = Byte(Reads(s, bytes)[i - 1], bytes[i])
  BY ReadsStep
<1>4. Reads(s, bytes)[k + 1] = Byte(Reads(s, bytes)[(k + 1) - 1], bytes[k + 1])
  BY <1>2, <1>3, Zenon
<1> QED
  BY <1>2, <1>3, <1>4, ReadsStep

(* A sequence is read as its two halves are, one after the other.           *)
LEMMA ReadsConcat ==
  ASSUME NEW s \in State, NEW a \in Seq(Octet), NEW b \in Seq(Octet)
  PROVE  /\ a \o b \in Seq(Octet)
         /\ After(s, a \o b) = After(After(s, a), b)
<1> DEFINE c == a \o b
           m == Len(a)
           n == Len(b)
<1>1. c \in Seq(Octet) /\ Len(c) = m + n /\ m \in Nat /\ n \in Nat
  BY ConcatProperties, LenProperties
<1>2. (\A i \in 1..m : c[i] = a[i]) /\ (\A i \in 1..n : c[m + i] = b[i])
  BY <1>1, ConcatProperties
<1> HIDE DEF c
<1>3. \A i \in 0..m : Reads(s, c)[i] = Reads(s, a)[i]
  <2> DEFINE T == {i \in Nat : Reads(s, c)[i] = Reads(s, a)[i]}
  <2>1. 0 \in T
    BY <1>1, ReadsStep
  <2>2. ASSUME NEW k \in 0..(m - 1), k \in T PROVE k + 1 \in T
    <3>1. k \in Nat /\ k < m /\ k < Len(c) /\ k + 1 \in 1..m
      BY <1>1
    <3>2. Reads(s, c)[k + 1] = Byte(Reads(s, c)[k], c[k + 1])
      BY <1>1, <3>1, ReadsNext
    <3>3. Reads(s, a)[k + 1] = Byte(Reads(s, a)[k], a[k + 1])
      BY <1>1, <3>1, ReadsNext
    <3> QED
      BY <1>2, <2>2, <3>1, <3>2, <3>3
  <2> HIDE DEF T
  <2>3. \A i \in 0..m : i \in T
    BY <1>1, <2>1, <2>2, Climbs
  <2> QED
    BY <2>3 DEF T
<1>4. Reads(s, c)[m] = After(s, a) /\ After(s, a) \in State
  BY <1>1, <1>3, ReadsStep DEF After
<1>5. \A i \in 0..n : Reads(s, c)[m + i] = Reads(After(s, a), b)[i]
  <2> DEFINE T == {i \in Nat : Reads(s, c)[m + i] = Reads(After(s, a), b)[i]}
  <2>1. 0 \in T
    <3>1. Reads(After(s, a), b)[0] = After(s, a) /\ m + 0 = m
      BY <1>1, <1>4, ReadsStep
    <3> QED
      BY <1>4, <3>1
  <2>2. ASSUME NEW k \in 0..(n - 1), k \in T PROVE k + 1 \in T
    <3>1. /\ k \in Nat /\ k < n /\ k + 1 \in 1..n
          /\ m + k \in Nat /\ m + k < Len(c) /\ (m + k) + 1 = m + (k + 1)
      BY <1>1
    <3>2. Reads(s, c)[(m + k) + 1] = Byte(Reads(s, c)[m + k], c[(m + k) + 1])
      BY <1>1, <3>1, ReadsNext
    <3>3. Reads(After(s, a), b)[k + 1] = Byte(Reads(After(s, a), b)[k], b[k + 1])
      BY <1>4, <3>1, ReadsNext
    <3> QED
      BY <1>2, <2>2, <3>1, <3>2, <3>3
  <2> HIDE DEF T
  <2>3. \A i \in 0..n : i \in T
    BY <1>1, <2>1, <2>2, Climbs
  <2> QED
    BY <2>3 DEF T
<1> QED
  BY <1>1, <1>5 DEF After, c

LEMMA ReadNothing ==
  ASSUME NEW s \in State
  PROVE  After(s, <<>>) = s
<1>1. <<>> \in Seq(Octet) /\ Len(<<>>) = 0
  BY EmptySeq
<1> QED
  BY <1>1, ReadsStep DEF After

LEMMA ReadOne ==
  ASSUME NEW s \in State, NEW a \in Octet
  PROVE  <<a>> \in Seq(Octet) /\ After(s, <<a>>) = Byte(s, a)
<1> DEFINE u == <<a>>
<1>1. u \in Seq(Octet) /\ Len(u) = 1 /\ u[1] = a
  OBVIOUS
<1> HIDE DEF u
<1>2. Reads(s, u)[0] = s
  BY <1>1, ReadsStep
<1>3. Reads(s, u)[0 + 1] = Byte(Reads(s, u)[0], u[0 + 1])
  BY <1>1, ReadsNext
<1> QED
  BY <1>1, <1>2, <1>3 DEF After, u

LEMMA ReadTwo ==
  ASSUME NEW s \in State, NEW a \in Octet, NEW b \in Octet
  PROVE  <<a, b>> \in Seq(Octet) /\ After(s, <<a, b>>) = Byte(Byte(s, a), b)
<1>1. <<a>> \o <<b>> = <<a, b>>
  <2> DEFINE u == <<a>>
             v == <<b>>
             w == <<a, b>>
  <2>1. u \in Seq(Octet) /\ v \in Seq(Octet) /\ w \in Seq(Octet)
        /\ Len(u) = 1 /\ Len(v) = 1 /\ Len(w) = 2 /\ u[1] = a /\ v[1] = b /\ w[1] = a /\ w[2] = b
    OBVIOUS
  <2> HIDE DEF u, v, w
  <2>2. u \o v \in Seq(Octet) /\ Len(u \o v) = 2 /\ (u \o v)[1] = a /\ (u \o v)[2] = b
    BY <2>1, ConcatProperties
  <2>3. u \o v = w
    BY <2>1, <2>2, SeqEqual
  <2> QED
    BY <2>3 DEF u, v, w
<1>2. <<a>> \in Seq(Octet) /\ <<b>> \in Seq(Octet) /\ After(s, <<a>>) = Byte(s, a)
  BY ReadOne
<1>3. Byte(s, a) \in State
  BY ByteType
<1>4. After(Byte(s, a), <<b>>) = Byte(Byte(s, a), b)
  BY <1>3, ReadOne
<1>5. <<a>> \o <<b>> \in Seq(Octet) /\ After(s, <<a>> \o <<b>>) = After(After(s, <<a>>), <<b>>)
  BY <1>2, ReadsConcat
<1> QED
  BY <1>1, <1>2, <1>4, <1>5

LEMMA ReadThree ==
  ASSUME NEW s \in State, NEW a \in Octet, NEW b \in Octet, NEW c \in Octet
  PROVE  <<a, b, c>> \in Seq(Octet) /\ After(s, <<a, b, c>>) = Byte(Byte(Byte(s, a), b), c)
<1>1. <<a, b>> \o <<c>> = <<a, b, c>>
  <2> DEFINE u == <<a, b>>
             v == <<c>>
             w == <<a, b, c>>
  <2>1. /\ u \in Seq(Octet) /\ v \in Seq(Octet) /\ w \in Seq(Octet)
        /\ Len(u) = 2 /\ Len(v) = 1 /\ Len(w) = 3
        /\ u[1] = a /\ u[2] = b /\ v[1] = c /\ w[1] = a /\ w[2] = b /\ w[3] = c
    OBVIOUS
  <2> HIDE DEF u, v, w
  <2>2. /\ u \o v \in Seq(Octet) /\ Len(u \o v) = 3
        /\ (u \o v)[1] = a /\ (u \o v)[2] = b /\ (u \o v)[3] = c
    <3>0. /\ u \o v \in Seq(Octet) /\ Len(u \o v) = Len(u) + Len(v)
          /\ \A i \in 1..(Len(u) + Len(v)) :
               (u \o v)[i] = IF i <= Len(u) THEN u[i] ELSE v[i - Len(u)]
      BY <2>1, ConcatProperties
    <3>1. /\ u \o v \in Seq(Octet) /\ Len(u \o v) = 3
          /\ \A i \in 1..3 : (u \o v)[i] = IF i <= 2 THEN u[i] ELSE v[i - 2]
      BY <2>1, <3>0
    <3>2. (u \o v)[1] = u[1] /\ (u \o v)[2] = u[2] /\ (u \o v)[3] = v[1]
      BY <3>1
    <3> QED
      BY <2>1, <3>1, <3>2
  <2>3. u \o v = w
    BY <2>1, <2>2, SeqEqual
  <2> QED
    BY <2>3 DEF u, v, w
<1>2. <<a, b>> \in Seq(Octet) /\ After(s, <<a, b>>) = Byte(Byte(s, a), b)
  BY ReadTwo
<1>3. Byte(Byte(s, a), b) \in State
  BY ByteType
<1>4. <<c>> \in Seq(Octet) /\ After(Byte(Byte(s, a), b), <<c>>) = Byte(Byte(Byte(s, a), b), c)
  BY <1>3, ReadOne
<1>5. /\ <<a, b>> \o <<c>> \in Seq(Octet)
      /\ After(s, <<a, b>> \o <<c>>) = After(After(s, <<a, b>>), <<c>>)
  BY <1>2, <1>4, ReadsConcat
<1> QED
  BY <1>1, <1>2, <1>4, <1>5

(* A command with an option says nothing as text.                           *)
LEMMA ReadOption ==
  ASSUME NEW s \in State, s.mode = "data", NEW cmd \in {WILL, WONT, DO, DONT}, NEW opt \in Octet
  PROVE  <<IAC, cmd, opt>> \in Seq(Octet) /\ After(s, <<IAC, cmd, opt>>) = s
<1> DEFINE u == At("iac", s.sub, s.out, s.subs)
           v == At("option", s.sub, s.out, s.subs)
<1>1. cmd \in Octet
  BY Octets
<1>2. u \in State /\ v \in State /\ u.mode = "iac" /\ v.mode = "option"
      /\ v.sub = s.sub /\ v.out = s.out /\ v.subs = s.subs
      /\ u.sub = s.sub /\ u.out = s.out /\ u.subs = s.subs
  BY DEF At, State, Modes
<1> HIDE DEF u, v
<1>3. Byte(s, IAC) = u
  BY Octets, ByteData DEF u
<1>4. Byte(u, cmd) = v
  BY <1>1, <1>2, ByteIac DEF v
<1>5. Byte(v, opt) = s
  <2>1. Byte(v, opt) = At("data", s.sub, s.out, s.subs)
    BY <1>2, ByteOption
  <2> QED
    BY <2>1, AtState
<1> QED
  BY <1>1, <1>3, <1>4, <1>5, Octets, ReadThree

(* Bytes without a 255 are data of a subnegotiation.                        *)
LEMMA ReadSubData ==
  ASSUME NEW s \in State, s.mode = "sub", s.sub = <<>>,
         NEW x \in Seq(Octet), \A i \in 1..Len(x) : x[i] # IAC
  PROVE  After(s, x) = At("sub", x, s.out, s.subs)
<1> DEFINE st(i) == At("sub", SubSeq(x, 1, i), s.out, s.subs)
           T == {i \in Nat : Reads(s, x)[i] = st(i)}
<1>1. Len(x) \in Nat /\ \A i \in 1..Len(x) : x[i] \in Octet
  BY LenProperties, ElementOfSeq
<1>2. 0 \in T
  <2>1. SubSeq(x, 1, 0) = <<>>
    BY SubSeqEmpty
  <2>2. Reads(s, x)[0] = s
    BY ReadsStep
  <2> QED
    BY <2>1, <2>2, AtState
<1>3. ASSUME NEW k \in 0..(Len(x) - 1), k \in T PROVE k + 1 \in T
  <2>1. k \in Nat /\ k < Len(x) /\ k + 1 \in 1..Len(x) /\ k + 1 \in Nat
    BY <1>1
  <2>2. Reads(s, x)[k + 1] = Byte(st(k), x[k + 1]) /\ st(k) \in State
    BY <1>3, <2>1, ReadsNext
  <2>3. SubSeq(x, 1, k) \in Seq(Octet)
    BY <1>1, <2>1, SubSeqProperties
  <2>4. SubSeq(x, 1, k + 1) = Append(SubSeq(x, 1, k), x[k + 1])
    <3>1. 1 \in 1..Len(x) /\ k + 1 \in 1..Len(x) /\ (k + 1) - 1 = k
      BY <1>1
    <3>2. SubSeq(x, 1, k + 1) = SubSeq(x, 1, k) \o <<x[k + 1]>>
      BY <3>1, SubSeqRecursiveSecond
    <3> QED
      BY <1>1, <2>1, <2>3, <3>2, AppendIsConcat
  <2>5. Byte(st(k), x[k + 1]) = At("sub", Append(SubSeq(x, 1, k), x[k + 1]), s.out, s.subs)
    <3>1. /\ st(k).mode = "sub" /\ st(k).sub = SubSeq(x, 1, k)
          /\ st(k).out = s.out /\ st(k).subs = s.subs
      BY DEF At
    <3> HIDE DEF st
    <3> QED
      BY <1>1, <2>1, <2>2, <3>1, ByteSub
  <2> QED
    BY <2>1, <2>2, <2>4, <2>5
<1>4. Len(x) \in T
  <2> HIDE DEF T
  <2>1. Len(x) \in 0..Len(x)
    BY <1>1
  <2> QED
    BY <1>1, <1>2, <1>3, <2>1, Climbs
<1>5. SubSeq(x, 1, Len(x)) = x
  BY SubSeqFull
<1> QED
  BY <1>4, <1>5 DEF After

(* A subnegotiation, from the data around it.                               *)
LEMMA ReadSub ==
  ASSUME NEW s \in State, s.mode = "data",
         NEW x \in Seq(Octet), \A i \in 1..Len(x) : x[i] # IAC
  PROVE  /\ (<<IAC, SB>> \o x) \o <<IAC, SE>> \in Seq(Octet)
         /\ After(s, (<<IAC, SB>> \o x) \o <<IAC, SE>>)
              = At("data", x, s.out, Append(s.subs, x))
<1> DEFINE u == At("iac", s.sub, s.out, s.subs)
           v == At("sub", <<>>, s.out, s.subs)
           w == At("sub", x, s.out, s.subs)
           y == At("subiac", x, s.out, s.subs)
<1>1. /\ u \in State /\ u.mode = "iac" /\ u.out = s.out /\ u.subs = s.subs
      /\ v \in State /\ v.mode = "sub" /\ v.sub = <<>> /\ v.out = s.out /\ v.subs = s.subs
      /\ w \in State /\ w.mode = "sub" /\ w.sub = x /\ w.out = s.out /\ w.subs = s.subs
      /\ y \in State /\ y.mode = "subiac" /\ y.sub = x /\ y.out = s.out /\ y.subs = s.subs
  BY EmptySeq DEF At, State, Modes
<1>2. <<IAC, SB>> \in Seq(Octet) /\ After(s, <<IAC, SB>>) = v
  <2> HIDE DEF u
  <2>1. Byte(s, IAC) = u
    BY Octets, ByteData DEF u
  <2>2. Byte(u, SB) = v
    BY <1>1, Octets, ByteIac
  <2> QED
    BY <2>1, <2>2, Octets, ReadTwo
<1>3. After(v, x) = w
  <2> HIDE DEF v
  <2> QED
    BY <1>1, ReadSubData
<1>4. <<IAC, SE>> \in Seq(Octet) /\ After(w, <<IAC, SE>>) = At("data", x, s.out, Append(s.subs, x))
  <2> HIDE DEF w, y
  <2>1. Byte(w, IAC) = y
    BY <1>1, Octets, ByteSub DEF y
  <2>2. Byte(y, SE) = At("data", x, s.out, Append(s.subs, x))
    BY <1>1, Octets, ByteSubIac
  <2> QED
    BY <1>1, <2>1, <2>2, Octets, ReadTwo
<1> HIDE DEF u, v, w, y
<1>5. <<IAC, SB>> \o x \in Seq(Octet) /\ After(s, <<IAC, SB>> \o x) = w
  BY <1>2, <1>3, ReadsConcat
<1> QED
  BY <1>4, <1>5, ReadsConcat

-----------------------------------------------------------------------------
(* What is sent *)

LEMMA DoubledRead ==
  ASSUME NEW s \in State, s.mode = "data", NEW b \in Octet
  PROVE  /\ Doubled(b) \in Seq(Octet)
         /\ After(s, Doubled(b)) = At("data", s.sub, Append(s.out, b), s.subs)
<1>1. CASE b = IAC
  <2> DEFINE u == At("iac", s.sub, s.out, s.subs)
  <2>1. u \in State /\ u.mode = "iac" /\ u.sub = s.sub /\ u.out = s.out /\ u.subs = s.subs
    BY DEF At, State, Modes
  <2> HIDE DEF u
  <2>2. Byte(s, b) = u
    BY <1>1, ByteData DEF u
  <2>3. Byte(u, b) = At("data", s.sub, Append(s.out, b), s.subs)
    BY <1>1, <2>1, ByteIac
  <2>4. Doubled(b) = <<b, b>>
    BY <1>1 DEF Doubled
  <2> QED
    BY <2>2, <2>3, <2>4, ReadTwo
<1>2. CASE b # IAC
  <2>1. Doubled(b) = <<b>>
    BY <1>2 DEF Doubled
  <2> QED
    BY <1>2, <2>1, ReadOne, ByteData
<1> QED
  BY <1>1, <1>2

LEMMA BytesRegrouped ==
  ASSUME NEW a \in Seq(Octet), NEW b \in Seq(Octet), NEW c \in Seq(Octet)
  PROVE  (a \o b) \o c = a \o (b \o c)
BY ConcatAssociative

LEMMA EscapesStep ==
  ASSUME NEW keys \in Seq(Octet)
  PROVE  /\ Escapes(keys)[0] = <<>>
         /\ \A k \in 0..(Len(keys) - 1) :
              Escapes(keys)[k + 1] = Escapes(keys)[k] \o Doubled(keys[k + 1])
         /\ \A k \in 0..Len(keys) : Escapes(keys)[k] \in Seq(Octet)
<1> DEFINE Fits(r) == r = [i \in 0..Len(keys) |->
                             IF i = 0 THEN <<>> ELSE r[i - 1] \o Doubled(keys[i])]
           step == [x \in Seq(Octet) \X Octet |-> x[1] \o Doubled(x[2])]
<1>1. Escapes(keys) = CHOOSE r : Fits(r)
  BY DEF Escapes
<1>2. step \in [Seq(Octet) \X Octet -> Seq(Octet)]
  <2>1. \A b \in Octet : Doubled(b) \in Seq(Octet)
    BY DEF Doubled
  <2> QED
    BY <2>1, ConcatProperties
<1>3. PICK r \in [0..Len(keys) -> Seq(Octet)] : IsFold(r, <<>>, step, keys)
  BY <1>2, FoldExists, EmptySeq
<1>4. Len(keys) \in Nat /\ \A i \in 1..Len(keys) : keys[i] \in Octet
  BY LenProperties, ElementOfSeq
<1>5. Fits(r)
  <2>1. \A i \in 0..Len(keys) : i # 0 => i \in 1..Len(keys) /\ i - 1 \in 0..Len(keys)
    BY <1>4
  <2>2. \A i \in 0..Len(keys) : i # 0 => step[<<r[i - 1], keys[i]>>] = r[i - 1] \o Doubled(keys[i])
    BY <1>4, <2>1
  <2> QED
    BY <1>3, <2>2 DEF IsFold
<1> HIDE DEF Fits
<1>6. Fits(CHOOSE q : Fits(q))
  BY <1>5
<1>7. Fits(Escapes(keys))
  BY <1>1, <1>6
<1> DEFINE e == Escapes(keys)
<1> HIDE DEF e
<1>8. e = [i \in 0..Len(keys) |-> IF i = 0 THEN <<>> ELSE e[i - 1] \o Doubled(keys[i])]
  BY <1>7 DEF Fits, e
<1>9. e[0] = <<>>
  BY <1>4, <1>8
<1>10. ASSUME NEW k \in 0..(Len(keys) - 1) PROVE e[k + 1] = e[k] \o Doubled(keys[k + 1])
  <2>1. k + 1 \in 0..Len(keys) /\ k + 1 # 0 /\ (k + 1) - 1 = k
    BY <1>4
  <2> QED
    BY <1>8, <2>1
<1> DEFINE T == {k \in Nat : e[k] \in Seq(Octet)}
<1>11. 0 \in T
  BY <1>9, EmptySeq
<1>12. ASSUME NEW k \in 0..(Len(keys) - 1), k \in T PROVE k + 1 \in T
  <2>1. Doubled(keys[k + 1]) \in Seq(Octet) /\ k + 1 \in Nat
    BY <1>4 DEF Doubled
  <2>2. e[k] \in Seq(Octet)
    BY <1>12
  <2>3. e[k] \o Doubled(keys[k + 1]) \in Seq(Octet)
    BY <2>1, <2>2, ConcatProperties
  <2> QED
    BY <1>10, <2>1, <2>3
<1>13. \A k \in 0..Len(keys) : k \in T
  <2> HIDE DEF T
  <2> QED
    BY <1>4, <1>11, <1>12, Climbs
<1> QED
  BY <1>9, <1>10, <1>13 DEF e

(* What telnetWrite sends reads as what was typed.                          *)
LEMMA EscapedRead ==
  ASSUME NEW s \in State, s.mode = "data", NEW keys \in Seq(Octet)
  PROVE  /\ Escaped(keys) \in Seq(Octet)
         /\ After(s, Escaped(keys)) = At("data", s.sub, s.out \o keys, s.subs)
<1> DEFINE st(k) == At("data", s.sub, s.out \o SubSeq(keys, 1, k), s.subs)
           T == {k \in Nat : After(s, Escapes(keys)[k]) = st(k)}
<1>1. Len(keys) \in Nat /\ s.out \in Seq(Octet)
  BY LenProperties DEF State
<1>2. 0 \in T
  <2>1. SubSeq(keys, 1, 0) = <<>> /\ s.out \o <<>> = s.out
    BY <1>1, SubSeqEmpty, ConcatEmptySeq
  <2>2. After(s, Escapes(keys)[0]) = s
    BY EscapesStep, ReadNothing
  <2> QED
    BY <2>1, <2>2, AtState
<1>3. ASSUME NEW k \in 0..(Len(keys) - 1), k \in T PROVE k + 1 \in T
  <2> DEFINE x == SubSeq(keys, 1, k)
             b == keys[k + 1]
  <2>1. k \in Nat /\ k + 1 \in 1..Len(keys) /\ k + 1 \in Nat /\ k \in 0..Len(keys)
    BY <1>1
  <2>2. b \in Octet /\ x \in Seq(Octet)
    BY <1>1, <2>1, ElementOfSeq, SubSeqProperties
  <2>3. SubSeq(keys, 1, k + 1) = x \o <<b>>
    <3>1. 1 \in 1..Len(keys) /\ k + 1 \in 1..Len(keys) /\ (k + 1) - 1 = k
      BY <1>1
    <3> QED
      BY <3>1, SubSeqRecursiveSecond
  <2>4. st(k) \in State /\ st(k).mode = "data" /\ st(k).sub = s.sub
        /\ st(k).out = s.out \o x /\ st(k).subs = s.subs
    BY <1>1, <2>2, ConcatProperties DEF At, State, Modes
  <2>5. s.out \o (x \o <<b>>) = Append(s.out \o x, b)
    <3>1. <<b>> \in Seq(Octet)
      BY <2>2
    <3> DEFINE y == <<b>>
    <3> HIDE DEF x, y
    <3>2. s.out \o (x \o y) = (s.out \o x) \o y
      <4>1. s.out \in Seq(Octet) /\ x \in Seq(Octet) /\ y \in Seq(Octet)
        BY <1>1, <2>2, <3>1 DEF y
      <4> QED
        BY <4>1, BytesRegrouped
    <3>3. s.out \o x \in Seq(Octet)
      BY <1>1, <2>2, ConcatProperties
    <3>4. Append(s.out \o x, b) = (s.out \o x) \o y
      BY <2>2, <3>3, AppendIsConcat DEF y
    <3> QED
      BY <3>2, <3>4 DEF y
  <2>6. After(st(k), Doubled(b)) = At("data", s.sub, Append(s.out \o x, b), s.subs)
    <3> HIDE DEF st, b, x
    <3> QED
      BY <2>2, <2>4, DoubledRead
  <2>7. /\ Escapes(keys)[k + 1] = Escapes(keys)[k] \o Doubled(b)
        /\ Escapes(keys)[k] \in Seq(Octet) /\ Doubled(b) \in Seq(Octet)
    <3>1. Doubled(b) \in Seq(Octet)
      BY <2>2 DEF Doubled
    <3> QED
      BY <2>1, <3>1, EscapesStep
  <2>8. After(s, Escapes(keys)[k + 1]) = After(st(k), Doubled(b))
    BY <1>3, <2>7, ReadsConcat
  <2> QED
    BY <2>1, <2>3, <2>5, <2>6, <2>8
<1>4. Len(keys) \in T
  <2> HIDE DEF T
  <2>1. Len(keys) \in 0..Len(keys)
    BY <1>1
  <2> QED
    BY <1>1, <1>2, <1>3, <2>1, Climbs
<1>5. SubSeq(keys, 1, Len(keys)) = keys
  BY SubSeqFull
<1>6. Len(keys) \in 0..Len(keys)
  BY <1>1
<1> QED
  BY <1>4, <1>5, <1>6, EscapesStep DEF Escaped

(* Only the low bytes of the characters typed are sent.                     *)
LEMMA BinaryBytes ==
  ASSUME NEW a \in Seq(Unit), NEW b \in Seq(Unit)
  PROVE  /\ Binary(a) \in Seq(Octet)
         /\ a \o b \in Seq(Unit) /\ Binary(a \o b) = Binary(a) \o Binary(b)
<1>1. ASSUME NEW x \in Seq(Unit)
      PROVE  /\ Binary(x) \in Seq(Octet) /\ Len(Binary(x)) = Len(x)
             /\ \A i \in 1..Len(x) : Binary(x)[i] = x[i] % 256
  <2>1. /\ Len(x) \in Nat /\ DOMAIN x = 1..Len(x)
        /\ \A i \in 1..Len(x) : x[i] \in Unit
    BY LenProperties, ElementOfSeq
  <2>2. \A i \in 1..Len(x) : x[i] % 256 \in Octet
    <3>1. ASSUME NEW u \in Unit PROVE u % 256 \in Octet
      <4>1. u \in Nat
        BY DEF Unit
      <4> QED
        BY <4>1 DEF Octet
    <3> QED
      BY <2>1, <3>1
  <2>3. Binary(x) = [i \in 1..Len(x) |-> x[i] % 256]
    BY <2>1 DEF Binary
  <2>4. Binary(x) \in Seq(Octet)
    BY <2>1, <2>2, <2>3, IsASeq
  <2>5. Len(Binary(x)) = Len(x)
    BY <2>1, <2>3, <2>4, LenProperties
  <2> QED
    BY <2>3, <2>4, <2>5
<1> DEFINE x == Binary(a)
           y == Binary(b)
           z == Binary(a \o b)
<1>2. /\ a \o b \in Seq(Unit) /\ Len(a \o b) = Len(a) + Len(b)
      /\ Len(a) \in Nat /\ Len(b) \in Nat
      /\ \A i \in 1..(Len(a) + Len(b)) :
           (a \o b)[i] = IF i <= Len(a) THEN a[i] ELSE b[i - Len(a)]
  BY ConcatProperties, LenProperties
<1>3. /\ x \in Seq(Octet) /\ Len(x) = Len(a) /\ \A i \in 1..Len(a) : x[i] = a[i] % 256
      /\ y \in Seq(Octet) /\ Len(y) = Len(b) /\ \A i \in 1..Len(b) : y[i] = b[i] % 256
  BY <1>1
<1>4. /\ z \in Seq(Octet) /\ Len(z) = Len(a) + Len(b)
      /\ \A i \in 1..(Len(a) + Len(b)) : z[i] = (a \o b)[i] % 256
  BY <1>1, <1>2
<1> HIDE DEF x, y, z
<1>5. /\ x \o y \in Seq(Octet) /\ Len(x \o y) = Len(a) + Len(b)
      /\ \A i \in 1..(Len(a) + Len(b)) :
           (x \o y)[i] = IF i <= Len(a) THEN x[i] ELSE y[i - Len(a)]
  <2>1. /\ x \o y \in Seq(Octet) /\ Len(x \o y) = Len(x) + Len(y)
        /\ \A i \in 1..(Len(x) + Len(y)) :
             (x \o y)[i] = IF i <= Len(x) THEN x[i] ELSE y[i - Len(x)]
    <3>1. x \in Seq(Octet) /\ y \in Seq(Octet)
      BY <1>3
    <3> QED
      BY ONLY <3>1, ConcatProperties
  <2> QED
    BY <1>3, <2>1
<1>6. \A i \in 1..(Len(a) + Len(b)) : z[i] = (x \o y)[i]
  <2> SUFFICES ASSUME NEW i \in 1..(Len(a) + Len(b)) PROVE z[i] = (x \o y)[i]
    OBVIOUS
  <2>1. CASE i <= Len(a)
    <3>1. i \in 1..Len(a)
      BY <1>2, <2>1
    <3>2. z[i] = a[i] % 256 /\ (x \o y)[i] = x[i]
      BY <1>2, <1>4, <1>5, <2>1
    <3> QED
      BY <1>3, <3>1, <3>2
  <2>2. CASE i > Len(a)
    <3>1. i - Len(a) \in 1..Len(b) /\ ~(i <= Len(a))
      BY <1>2, <2>2
    <3>2. z[i] = b[i - Len(a)] % 256 /\ (x \o y)[i] = y[i - Len(a)]
      BY <1>2, <1>4, <1>5, <3>1
    <3> QED
      BY <1>3, <3>1, <3>2
  <2>3. i <= Len(a) \/ i > Len(a)
    BY <1>2
  <2> QED
    BY <2>1, <2>2, <2>3
<1>7. z = x \o y
  BY <1>4, <1>5, <1>6, SeqEqual
<1> QED
  BY <1>2, <1>3, <1>7 DEF x, y, z

(* An answer to the server, whose width has no byte 255 if it tells one: it *)
(* is read as no text, leaves nothing under way, keeps the size the server  *)
(* knows, and tells it when `asked` is.                                     *)
ReplyOk(bytes, asked, c) ==
  /\ bytes \in Seq(Octet) /\ asked \in BOOLEAN
  /\ (asked => Plain(c)) => \A s \in State : s.mode = "data" =>
       /\ After(s, bytes).mode = "data" /\ After(s, bytes).out = s.out
       /\ asked \/ SizeKnown(s.subs, c) => SizeKnown(After(s, bytes).subs, c)

LEMMA ReplyNothing ==
  ASSUME NEW c
  PROVE  ReplyOk(<<>>, FALSE, c)
BY ReadNothing, EmptySeq DEF ReplyOk

LEMMA ReplyThen ==
  ASSUME NEW a, NEW b, NEW p, NEW q, NEW c, ReplyOk(a, p, c), ReplyOk(b, q, c)
  PROVE  ReplyOk(a \o b, p \/ q, c)
<1>1. a \in Seq(Octet) /\ b \in Seq(Octet) /\ p \in BOOLEAN /\ q \in BOOLEAN
  BY DEF ReplyOk
<1>2. a \o b \in Seq(Octet) /\ (p \/ q) \in BOOLEAN
  BY <1>1, ReadsConcat, GroundType
<1>3. ASSUME p \/ q => Plain(c), NEW s \in State, s.mode = "data"
      PROVE  /\ After(s, a \o b).mode = "data" /\ After(s, a \o b).out = s.out
             /\ p \/ q \/ SizeKnown(s.subs, c) => SizeKnown(After(s, a \o b).subs, c)
  <2>1. After(s, a \o b) = After(After(s, a), b) /\ After(s, a) \in State
    BY <1>1, ReadsConcat, ReadsStep
  <2>2. /\ After(s, a).mode = "data" /\ After(s, a).out = s.out
        /\ p \/ SizeKnown(s.subs, c) => SizeKnown(After(s, a).subs, c)
    BY <1>3 DEF ReplyOk
  <2>3. /\ After(After(s, a), b).mode = "data" /\ After(After(s, a), b).out = After(s, a).out
        /\ q \/ SizeKnown(After(s, a).subs, c) => SizeKnown(After(After(s, a), b).subs, c)
    <3>1. q => Plain(c)
      BY <1>3
    <3> QED
      BY <2>1, <2>2, <3>1 DEF ReplyOk
  <2> QED
    BY <2>1, <2>2, <2>3
<1> QED
  BY <1>2, <1>3 DEF ReplyOk

LEMMA ReplyOption ==
  ASSUME NEW c, NEW cmd \in {WILL, WONT, DO, DONT}, NEW opt \in Octet
  PROVE  ReplyOk(<<IAC, cmd, opt>>, FALSE, c)
<1> DEFINE x == <<IAC, cmd, opt>>
<1>1. x \in Seq(Octet) /\ \A s \in State : s.mode = "data" => After(s, x) = s
  BY GroundType, ReadOption
<1> HIDE DEF x
<1>2. ReplyOk(x, FALSE, c)
  BY <1>1 DEF ReplyOk
<1> QED
  BY <1>2 DEF x

LEMMA SizeAppended ==
  ASSUME NEW c, NEW subs \in Seq(Seq(Octet)), NEW x \in Seq(Octet)
  PROVE  /\ x = Size(c) => SizeKnown(Append(subs, x), c)
         /\ SizeKnown(subs, c) /\ x[1] # NAWS => SizeKnown(Append(subs, x), c)
<1> DEFINE q == Append(subs, x)
           n == Len(subs)
<1>1. /\ n \in Nat /\ DOMAIN subs = 1..n /\ DOMAIN q = 1..(n + 1)
      /\ q[n + 1] = x /\ \A i \in 1..n : q[i] = subs[i]
  <2>1. q \in Seq(Seq(Octet)) /\ Len(q) = n + 1 /\ \A i \in 1..n : q[i] = subs[i]
    BY AppendProperties
  <2>2. q[n + 1] = x /\ n \in Nat
    BY AppendProperties, LenProperties
  <2> QED
    BY <2>1, <2>2, LenProperties
<1> HIDE DEF q
<1>2. ASSUME x = Size(c) PROVE SizeKnown(q, c)
  <2>1. n + 1 \in DOMAIN q /\ q[n + 1] = Size(c) /\ \A j \in DOMAIN q : ~(j > n + 1)
    BY <1>1, <1>2
  <2> QED
    BY <2>1 DEF SizeKnown
<1>3. ASSUME SizeKnown(subs, c), x[1] # NAWS PROVE SizeKnown(q, c)
  <2>1. PICK i \in DOMAIN subs : /\ subs[i] = Size(c)
                                 /\ \A j \in DOMAIN subs : j > i => subs[j] = <<>> \/ subs[j][1] # NAWS
    BY <1>3 DEF SizeKnown
  <2>2. i \in DOMAIN q /\ q[i] = Size(c)
    BY <1>1, <2>1
  <2>3. ASSUME NEW j \in DOMAIN q, j > i PROVE q[j] = <<>> \/ q[j][1] # NAWS
    <3>1. CASE j = n + 1
      BY <1>1, <1>3, <3>1
    <3>2. CASE j \in 1..n
      <4>1. q[j] = subs[j] /\ j \in DOMAIN subs
        BY <1>1, <3>2
      <4> QED
        BY <2>1, <2>3, <4>1
    <3> QED
      BY <1>1, <3>1, <3>2
  <2> QED
    BY <2>2, <2>3 DEF SizeKnown
<1> QED
  BY <1>2, <1>3 DEF q

(* A subnegotiation, of the size or of something else.                      *)
LEMMA ReplySub ==
  ASSUME NEW c, NEW x \in Seq(Octet), \A i \in 1..Len(x) : x[i] # IAC
  PROVE  /\ x = Size(c) => ReplyOk((<<IAC, SB>> \o x) \o <<IAC, SE>>, TRUE, c)
         /\ x[1] # NAWS => ReplyOk((<<IAC, SB>> \o x) \o <<IAC, SE>>, FALSE, c)
<1> DEFINE y == (<<IAC, SB>> \o x) \o <<IAC, SE>>
<1>1. y \in Seq(Octet)
  BY ReadSub, GroundType
<1>2. ASSUME NEW s \in State, s.mode = "data"
      PROVE  /\ After(s, y).mode = "data" /\ After(s, y).out = s.out
             /\ After(s, y).subs = Append(s.subs, x) /\ s.subs \in Seq(Seq(Octet))
  <2>1. After(s, y) = At("data", x, s.out, Append(s.subs, x))
    BY <1>2, ReadSub
  <2> HIDE DEF y
  <2> QED
    BY <2>1 DEF At, State
<1> HIDE DEF y
<1>3. /\ x = Size(c) => ReplyOk(y, TRUE, c)
      /\ x[1] # NAWS => ReplyOk(y, FALSE, c)
  <2>1. ASSUME NEW p \in BOOLEAN,
               \A s \in State : p \/ SizeKnown(s.subs, c) => SizeKnown(Append(s.subs, x), c)
        PROVE  ReplyOk(y, p, c)
    BY <1>1, <1>2, <2>1 DEF ReplyOk
  <2>2. \A s \in State : s.subs \in Seq(Seq(Octet))
    BY DEF State
  <2>3. ASSUME x = Size(c), NEW s \in State PROVE SizeKnown(Append(s.subs, x), c)
    BY <2>2, <2>3, SizeAppended
  <2>4. ASSUME x[1] # NAWS, NEW s \in State, SizeKnown(s.subs, c)
        PROVE  SizeKnown(Append(s.subs, x), c)
    BY <2>2, <2>4, SizeAppended
  <2> QED
    BY <2>1, <2>3, <2>4
<1> QED
  BY <1>3 DEF y

LEMMA WidthBytes ==
  ASSUME NEW c \in Columns
  PROVE  High(c) \in Octet /\ Low(c) \in Octet
<1>1. c \in Nat
  BY TelnetAssumption
<1>2. c \div 256 \in Nat
  BY <1>1
<1> QED
  BY <1>1, <1>2 DEF High, Low, Octet

LEMMA NawsSequence ==
  ASSUME NEW c \in Columns, Plain(c)
  PROVE  /\ Size(c) \in Seq(Octet) /\ \A i \in 1..Len(Size(c)) : Size(c)[i] # IAC
         /\ BuildNaws(c) = (<<IAC, SB>> \o Size(c)) \o <<IAC, SE>>
<1>1. /\ High(c) \in Octet /\ Low(c) \in Octet
      /\ High(c) # IAC /\ Low(c) # IAC
  BY WidthBytes DEF Plain
<1>2. /\ Size(c) \in Seq(Octet) /\ Len(Size(c)) = 5
      /\ Size(c)[1] = NAWS /\ Size(c)[2] = High(c) /\ Size(c)[3] = Low(c)
      /\ Size(c)[4] = 0 /\ Size(c)[5] = Rows
  BY <1>1, Octets DEF Size
<1>3. \A i \in 1..Len(Size(c)) : Size(c)[i] # IAC
  <2>1. NAWS # IAC /\ 0 # IAC /\ Rows # IAC
    BY DEF NAWS, IAC, Rows
  <2>2. \A i \in 1..5 : i = 1 \/ i = 2 \/ i = 3 \/ i = 4 \/ i = 5
    OBVIOUS
  <2> QED
    BY <1>1, <1>2, <2>1, <2>2
<1> DEFINE u == <<IAC, SB>>
           v == <<IAC, SE>>
           x == Size(c)
           w == BuildNaws(c)
<1>4. /\ u \in Seq(Octet) /\ Len(u) = 2 /\ u[1] = IAC /\ u[2] = SB
      /\ v \in Seq(Octet) /\ Len(v) = 2 /\ v[1] = IAC /\ v[2] = SE
  BY Octets
<1>5. /\ w \in Seq(Octet) /\ Len(w) = 9
      /\ w[1] = IAC /\ w[2] = SB /\ w[3] = NAWS /\ w[4] = High(c) /\ w[5] = Low(c)
      /\ w[6] = 0 /\ w[7] = Rows /\ w[8] = IAC /\ w[9] = SE
  BY <1>1, Octets DEF BuildNaws
<1>0. x \in Seq(Octet) /\ Len(x) = 5
  BY <1>2
<1> HIDE DEF u, v, x, w
<1>6. /\ u \o x \in Seq(Octet) /\ Len(u \o x) = 7
      /\ \A i \in 1..7 : (u \o x)[i] = IF i <= 2 THEN u[i] ELSE x[i - 2]
  <2>1. /\ u \o x \in Seq(Octet) /\ Len(u \o x) = Len(u) + Len(x)
        /\ \A i \in 1..(Len(u) + Len(x)) :
             (u \o x)[i] = IF i <= Len(u) THEN u[i] ELSE x[i - Len(u)]
    BY <1>0, <1>4, ConcatProperties
  <2> QED
    BY <1>0, <1>4, <2>1
<1> DEFINE y == u \o x
<1> HIDE DEF y
<1>7. /\ y \o v \in Seq(Octet) /\ Len(y \o v) = 9
      /\ \A i \in 1..9 : (y \o v)[i] = IF i <= 7 THEN y[i] ELSE v[i - 7]
  <2>1. /\ y \o v \in Seq(Octet) /\ Len(y \o v) = Len(y) + Len(v)
        /\ \A i \in 1..(Len(y) + Len(v)) :
             (y \o v)[i] = IF i <= Len(y) THEN y[i] ELSE v[i - Len(y)]
    BY <1>4, <1>6, ConcatProperties DEF y
  <2> QED
    BY <1>4, <1>6, <2>1 DEF y
<1> DEFINE z == y \o v
<1> HIDE DEF z
<1>8. \A i \in 1..9 : z[i] = w[i]
  <2>1. /\ y[1] = u[1] /\ y[2] = u[2] /\ y[3] = x[1] /\ y[4] = x[2] /\ y[5] = x[3]
        /\ y[6] = x[4] /\ y[7] = x[5]
    BY <1>6 DEF y
  <2>2. \A i \in 1..9 : z[i] = IF i <= 7 THEN y[i] ELSE v[i - 7]
    BY <1>7 DEF z
  <2>3. /\ z[1] = y[1] /\ z[2] = y[2] /\ z[3] = y[3] /\ z[4] = y[4] /\ z[5] = y[5]
        /\ z[6] = y[6] /\ z[7] = y[7] /\ z[8] = v[1] /\ z[9] = v[2]
    BY <2>2
  <2>4. /\ z[1] = w[1] /\ z[2] = w[2] /\ z[3] = w[3] /\ z[4] = w[4] /\ z[5] = w[5]
        /\ z[6] = w[6] /\ z[7] = w[7] /\ z[8] = w[8] /\ z[9] = w[9]
    BY <1>2, <1>4, <1>5, <2>1, <2>3 DEF x
  <2>5. \A i \in 1..9 : i = 1 \/ i = 2 \/ i = 3 \/ i = 4 \/ i = 5 \/ i = 6 \/ i = 7 \/ i = 8 \/ i = 9
    OBVIOUS
  <2> QED
    BY <2>4, <2>5
<1>9. y \o v = w
  BY <1>5, <1>7, <1>8, SeqEqual DEF z
<1> QED
  BY <1>2, <1>3, <1>9 DEF u, v, x, w, y

LEMMA ReplyNaws ==
  ASSUME NEW c \in Columns
  PROVE  ReplyOk(BuildNaws(c), TRUE, c)
<1>1. CASE Plain(c)
  <2> DEFINE x == Size(c)
  <2>1. BuildNaws(c) = (<<IAC, SB>> \o x) \o <<IAC, SE>>
    BY <1>1, NawsSequence
  <2>2. x \in Seq(Octet) /\ (\A i \in 1..Len(x) : x[i] # IAC) /\ x = Size(c)
    BY <1>1, NawsSequence
  <2> HIDE DEF x
  <2> QED
    BY <2>1, <2>2, ReplySub
<1>2. CASE ~Plain(c)
  <2>1. BuildNaws(c) \in Seq(Octet)
    BY WidthBytes, Octets DEF BuildNaws
  <2> QED
    BY <1>2, <2>1 DEF ReplyOk
<1> QED
  BY <1>1, <1>2

LEMMA OptionReplyOk ==
  ASSUME NEW c \in Columns, NEW cmd \in {WILL, WONT, DO, DONT}, NEW opt \in Octet
  PROVE  ReplyOk(OptionReply(cmd, opt, c), cmd = DO /\ opt = NAWS, c)
<1>0. WILL # DO /\ WONT # WILL /\ WONT # DO /\ DONT # WILL /\ DONT # DO
  BY DEF WILL, WONT, DO, DONT
<1>1. CASE cmd = WILL
  <2> DEFINE answer == IF opt \in {ECHO, SGA} THEN DO ELSE DONT
  <2>1. OptionReply(cmd, opt, c) = <<IAC, answer, opt>>
    BY <1>0, <1>1 DEF OptionReply
  <2>2. answer \in {WILL, WONT, DO, DONT}
    OBVIOUS
  <2> HIDE DEF answer
  <2>3. ReplyOk(<<IAC, answer, opt>>, FALSE, c)
    BY <2>2, ReplyOption
  <2>4. (cmd = DO /\ opt = NAWS) = FALSE
    BY <1>0, <1>1
  <2> QED
    BY <2>1, <2>3, <2>4
<1>2. CASE cmd = DO /\ opt = NAWS
  <2>1. OptionReply(cmd, opt, c) = <<IAC, WILL, NAWS>> \o BuildNaws(c)
    BY <1>0, <1>2 DEF OptionReply, NAWS, TTYPE, SGA
  <2>2. ReplyOk(<<IAC, WILL, NAWS>>, FALSE, c)
    BY Octets, ReplyOption
  <2>3. ReplyOk(BuildNaws(c), TRUE, c)
    BY ReplyNaws
  <2>4. ReplyOk(<<IAC, WILL, NAWS>> \o BuildNaws(c), FALSE \/ TRUE, c)
    BY <2>2, <2>3, ReplyThen
  <2>5. (cmd = DO /\ opt = NAWS) = (FALSE \/ TRUE)
    BY <1>2
  <2> QED
    BY <2>1, <2>4, <2>5
<1>3. CASE cmd = DO /\ opt # NAWS
  <2>1. \/ OptionReply(cmd, opt, c) = <<IAC, WILL, opt>>
        \/ OptionReply(cmd, opt, c) = <<IAC, WONT, opt>>
    BY <1>0, <1>3 DEF OptionReply
  <2>2. ReplyOk(<<IAC, WILL, opt>>, FALSE, c) /\ ReplyOk(<<IAC, WONT, opt>>, FALSE, c)
    BY ReplyOption
  <2>3. (cmd = DO /\ opt = NAWS) = FALSE
    BY <1>3
  <2> QED
    BY <2>1, <2>2, <2>3
<1>4. CASE cmd \in {WONT, DONT}
  <2>1. OptionReply(cmd, opt, c) = <<>>
    BY <1>0, <1>4 DEF OptionReply
  <2>2. (cmd = DO /\ opt = NAWS) = FALSE
    BY <1>0, <1>4
  <2> QED
    BY <2>1, <2>2, ReplyNothing
<1> QED
  BY <1>1, <1>2, <1>3, <1>4

LEMMA SubReplyOk ==
  ASSUME NEW c, NEW sub \in Seq(Octet)
  PROVE  ReplyOk(SubReply(sub), FALSE, c)
<1>1. CASE Len(sub) >= 2 /\ sub[1] = TTYPE /\ sub[2] = SEND
  <2> DEFINE x == XTerm
  <2>1. x \in Seq(Octet) /\ Len(x) = 3 /\ x[1] = TTYPE /\ x[2] = IS /\ x[3] = 120 /\ x[1] # NAWS
    BY Octets DEF XTerm, Octet, TTYPE, NAWS
  <2>2. \A i \in 1..Len(x) : x[i] # IAC
    <3>1. \A i \in 1..3 : i = 1 \/ i = 2 \/ i = 3
      OBVIOUS
    <3>2. TTYPE # IAC /\ IS # IAC /\ 120 # IAC
      BY DEF TTYPE, IS, IAC
    <3> QED
      BY <2>1, <3>1, <3>2
  <2>3. SubReply(sub) = (<<IAC, SB>> \o x) \o <<IAC, SE>>
    BY <1>1 DEF SubReply
  <2>4. ReplyOk((<<IAC, SB>> \o x) \o <<IAC, SE>>, FALSE, c)
    <3> HIDE DEF x
    <3>1. x[1] # NAWS => ReplyOk((<<IAC, SB>> \o x) \o <<IAC, SE>>, FALSE, c)
      BY <2>1, <2>2, ReplySub
    <3> QED
      BY <2>1, <3>1
  <2> QED
    BY <2>3, <2>4
<1>2. CASE ~(Len(sub) >= 2 /\ sub[1] = TTYPE /\ sub[2] = SEND)
  <2>1. SubReply(sub) = <<>>
    BY <1>2 DEF SubReply
  <2> QED
    BY <2>1, ReplyNothing
<1> QED
  BY <1>1, <1>2

-----------------------------------------------------------------------------
(* The loop of parseTelnet *)

LEMMA SubEndFirst ==
  ASSUME NEW raw \in Seq(Octet), NEW i \in Nat, SubEnds(raw, i) # {}
  PROVE  /\ SubEnd(raw, i) \in i..(Len(raw) - 1)
         /\ raw[SubEnd(raw, i)] = IAC /\ raw[SubEnd(raw, i) + 1] = SE
         /\ \A k \in SubEnds(raw, i) : SubEnd(raw, i) <= k
<1> DEFINE M == SubEnds(raw, i)
<1>1. M \subseteq Nat /\ Len(raw) \in Nat
  BY LenProperties DEF SubEnds
<1>2. PICK j \in M : \A k \in M : ~(<<k, j>> \in OpToRel(<, Nat))
  <2> HIDE DEF M
  <2>1. M # {}
    BY DEF M
  <2> QED
    BY <1>1, <2>1, WFMin, NatLessThanWellFounded, Zenon
<1>3. \A k \in M : ~(k < j)
  BY <1>1, <1>2, Zenon DEF OpToRel
<1>4. \A k \in M : j <= k
  BY <1>1, <1>3
<1>5. SubEnd(raw, i) \in M /\ \A k \in M : SubEnd(raw, i) <= k
  <2>1. \E x \in M : \A k \in M : x <= k
    BY <1>4
  <2> QED
    BY <2>1 DEF SubEnd
<1> QED
  BY <1>5 DEF SubEnds

LEMMA CommandsDiffer ==
  /\ OptionCommands = {WILL, WONT, DO, DONT}
  /\ IAC \notin OptionCommands /\ SB \notin OptionCommands /\ SB # IAC
  /\ OptionCommands \subseteq Octet
BY DEF OptionCommands, IAC, SB, WILL, WONT, DO, DONT, Octet

(* A pass of the loop, case by case.                                        *)
LEMMA StepCases ==
  ASSUME NEW raw \in Seq(Octet), NEW i \in 1..Len(raw), NEW c
  PROVE  LET n == Len(raw)
             e == SubEnd(raw, i + 2)
             step == ParseStep(raw, i, c)
         IN /\ raw[i] # IAC => step = Pass(i + 1, <<raw[i]>>, <<>>, FALSE)
            /\ raw[i] = IAC /\ i = n => step = Pass(n + 1, <<>>, <<>>, FALSE)
            /\ raw[i] = IAC /\ i < n /\ raw[i + 1] = IAC => step = Pass(i + 2, <<IAC>>, <<>>, FALSE)
            /\ raw[i] = IAC /\ i < n /\ raw[i + 1] \in OptionCommands /\ i + 2 > n =>
                 step = Pass(n + 1, <<>>, <<>>, FALSE)
            /\ raw[i] = IAC /\ i < n /\ raw[i + 1] \in OptionCommands /\ i + 2 <= n =>
                 step = Pass(i + 3, <<>>, OptionReply(raw[i + 1], raw[i + 2], c),
                             raw[i + 1] = DO /\ raw[i + 2] = NAWS)
            /\ raw[i] = IAC /\ i < n /\ raw[i + 1] = SB /\ SubEnds(raw, i + 2) = {} =>
                 step = Pass(n + 1, <<>>, <<>>, FALSE)
            /\ raw[i] = IAC /\ i < n /\ raw[i + 1] = SB /\ SubEnds(raw, i + 2) # {} =>
                 step = Pass(e + 2, <<>>, SubReply(SubSeq(raw, i + 2, e - 1)), FALSE)
            /\ raw[i] = IAC /\ i < n /\ raw[i + 1] \notin OptionCommands \cup {IAC, SB} =>
                 step = Pass(i + 2, <<>>, <<>>, FALSE)
<1>1. Len(raw) \in Nat /\ i \in Nat /\ i <= Len(raw) /\ (i < Len(raw) => i # Len(raw))
  BY LenProperties
<1> DEFINE n == Len(raw)
           e == SubEnd(raw, i + 2)
           step == ParseStep(raw, i, c)
           says == OptionReply(raw[i + 1], raw[i + 2], c)
<1>2. raw[i] # IAC => step = Pass(i + 1, <<raw[i]>>, <<>>, FALSE)
  BY DEF ParseStep
<1>3. raw[i] = IAC /\ i = n => step = Pass(n + 1, <<>>, <<>>, FALSE)
  BY DEF ParseStep
<1>4. ASSUME raw[i] = IAC, i < n PROVE
        step = CASE raw[i + 1] = IAC -> Pass(i + 2, <<IAC>>, <<>>, FALSE)
                 [] raw[i + 1] \in OptionCommands ->
                      IF i + 2 > n THEN Pass(n + 1, <<>>, <<>>, FALSE)
                      ELSE Pass(i + 3, <<>>, says, raw[i + 1] = DO /\ raw[i + 2] = NAWS)
                 [] raw[i + 1] = SB ->
                      IF SubEnds(raw, i + 2) = {} THEN Pass(n + 1, <<>>, <<>>, FALSE)
                      ELSE Pass(e + 2, <<>>, SubReply(SubSeq(raw, i + 2, e - 1)), FALSE)
                 [] OTHER -> Pass(i + 2, <<>>, <<>>, FALSE)
  BY <1>1, <1>4 DEF ParseStep
<1> HIDE DEF step, e, says
<1>5. raw[i] = IAC /\ i < n /\ raw[i + 1] = IAC => step = Pass(i + 2, <<IAC>>, <<>>, FALSE)
  BY <1>4, CommandsDiffer
<1>6. ASSUME raw[i] = IAC, i < n, raw[i + 1] \in OptionCommands
      PROVE  step = IF i + 2 > n THEN Pass(n + 1, <<>>, <<>>, FALSE)
                    ELSE Pass(i + 3, <<>>, says, raw[i + 1] = DO /\ raw[i + 2] = NAWS)
  <2>1. raw[i + 1] # IAC /\ raw[i + 1] # SB
    BY <1>6, CommandsDiffer
  <2> QED
    BY <1>4, <1>6, <2>1
<1>7. ASSUME raw[i] = IAC, i < n, raw[i + 1] = SB
      PROVE  step = IF SubEnds(raw, i + 2) = {} THEN Pass(n + 1, <<>>, <<>>, FALSE)
                    ELSE Pass(e + 2, <<>>, SubReply(SubSeq(raw, i + 2, e - 1)), FALSE)
  <2>1. raw[i + 1] # IAC /\ raw[i + 1] \notin OptionCommands
    BY <1>7, CommandsDiffer
  <2> QED
    BY <1>4, <1>7, <2>1
<1>8. raw[i] = IAC /\ i < n /\ raw[i + 1] \notin OptionCommands \cup {IAC, SB}
        => step = Pass(i + 2, <<>>, <<>>, FALSE)
  BY <1>4
<1>9. i + 2 <= n => ~(i + 2 > n)
  BY <1>1
<1> QED
  BY <1>1, <1>2, <1>3, <1>5, <1>6, <1>7, <1>8, <1>9 DEF step, e, says

(* It goes on, and adds text and answers.                                   *)
StepOk(raw, i, c) ==
  LET step == ParseStep(raw, i, c) IN
  /\ step.to \in (i + 1)..(Len(raw) + 1)
  /\ step.out \in Seq(Octet)
  /\ ReplyOk(step.says, step.naws, c)

LEMMA StepTypes ==
  ASSUME NEW raw \in Seq(Octet), NEW i \in 1..Len(raw), NEW c \in Columns
  PROVE  StepOk(raw, i, c)
<1> DEFINE n == Len(raw)
           e == SubEnd(raw, i + 2)
           step == ParseStep(raw, i, c)
<1>1. n \in Nat /\ i \in Nat /\ i <= n /\ \A j \in 1..n : raw[j] \in Octet
  BY LenProperties, ElementOfSeq
<1>2. ASSUME NEW to \in (i + 1)..(n + 1), NEW out \in Seq(Octet), NEW says, NEW asked,
             ReplyOk(says, asked, c), step = Pass(to, out, says, asked)
      PROVE  StepOk(raw, i, c)
  BY <1>2 DEF StepOk, Pass
<1>3. <<>> \in Seq(Octet) /\ ReplyOk(<<>>, FALSE, c)
  BY EmptySeq, ReplyNothing
<1> HIDE DEF step
<1>4. CASE raw[i] # IAC
  <2>1. i + 1 \in (i + 1)..(n + 1) /\ <<raw[i]>> \in Seq(Octet)
    BY <1>1
  <2>2. step = Pass(i + 1, <<raw[i]>>, <<>>, FALSE)
    BY <1>4, StepCases DEF step
  <2> QED
    BY <1>2, <1>3, <2>1, <2>2
<1>5. CASE step = Pass(n + 1, <<>>, <<>>, FALSE)
  <2>1. n + 1 \in (i + 1)..(n + 1)
    BY <1>1
  <2> QED
    BY <1>2, <1>3, <1>5, <2>1
<1>6. CASE raw[i] = IAC /\ i < n /\ raw[i + 1] = IAC
  <2>1. i + 2 \in (i + 1)..(n + 1) /\ <<IAC>> \in Seq(Octet)
    BY <1>1, <1>6, Octets
  <2>2. step = Pass(i + 2, <<IAC>>, <<>>, FALSE)
    BY <1>6, StepCases DEF step
  <2> QED
    BY <1>2, <1>3, <2>1, <2>2
<1>7. CASE raw[i] = IAC /\ i < n /\ raw[i + 1] \in OptionCommands /\ i + 2 <= n
  <2> DEFINE says == OptionReply(raw[i + 1], raw[i + 2], c)
             asked == raw[i + 1] = DO /\ raw[i + 2] = NAWS
  <2>1. i + 3 \in (i + 1)..(n + 1) /\ raw[i + 2] \in Octet
    BY <1>1, <1>7
  <2>2. ReplyOk(says, asked, c)
    BY <1>7, <2>1, CommandsDiffer, OptionReplyOk
  <2>3. step = Pass(i + 3, <<>>, says, asked)
    BY <1>7, StepCases DEF step
  <2> HIDE DEF says, asked
  <2> QED
    BY <1>2, <1>3, <2>1, <2>2, <2>3
<1>8. CASE raw[i] = IAC /\ i < n /\ raw[i + 1] = SB /\ SubEnds(raw, i + 2) # {}
  <2> DEFINE sub == SubSeq(raw, i + 2, e - 1)
  <2>1. e \in (i + 2)..(n - 1)
    BY <1>1, <1>8, SubEndFirst
  <2>2. e + 2 \in (i + 1)..(n + 1)
    BY <1>1, <2>1
  <2>3. sub \in Seq(Octet)
    <3>1. \A j \in (i + 2)..(e - 1) : raw[j] \in Octet
      BY <1>1, <2>1
    <3>2. i + 2 \in Int /\ e - 1 \in Int
      BY <1>1, <2>1
    <3> HIDE DEF e
    <3> QED
      BY <1>1, <2>1, <3>1, <3>2, SubSeqProperties
  <2>4. step = Pass(e + 2, <<>>, SubReply(sub), FALSE)
    BY <1>8, StepCases DEF step
  <2> HIDE DEF sub
  <2>5. ReplyOk(SubReply(sub), FALSE, c)
    BY <2>3, SubReplyOk
  <2> QED
    BY <1>2, <1>3, <2>2, <2>4, <2>5
<1>9. CASE raw[i] = IAC /\ i < n /\ raw[i + 1] \notin OptionCommands \cup {IAC, SB}
  <2>1. i + 2 \in (i + 1)..(n + 1)
    BY <1>1, <1>9
  <2>2. step = Pass(i + 2, <<>>, <<>>, FALSE)
    BY <1>9, StepCases DEF step
  <2> QED
    BY <1>2, <1>3, <2>1, <2>2
<1>10. \/ raw[i] = IAC /\ i = n
       \/ raw[i] = IAC /\ i < n /\ raw[i + 1] \in OptionCommands /\ i + 2 > n
       \/ raw[i] = IAC /\ i < n /\ raw[i + 1] = SB /\ SubEnds(raw, i + 2) = {}
       => step = Pass(n + 1, <<>>, <<>>, FALSE)
  BY StepCases DEF step
<1>11. raw[i] = IAC => i = n \/ i < n
  BY <1>1
<1>12. i + 2 > n \/ i + 2 <= n
  BY <1>1
<1> HIDE DEF e, n
<1>13. raw[i] = IAC /\ i < n => \/ raw[i + 1] = IAC \/ raw[i + 1] = SB \/ raw[i + 1] \in OptionCommands
                                \/ raw[i + 1] \notin OptionCommands \cup {IAC, SB}
  OBVIOUS
<1> QED
  BY <1>4, <1>5, <1>6, <1>7, <1>8, <1>9, <1>10, <1>11, <1>12, <1>13, Zenon

(* The equation of Loop.                                                    *)
LEMMA LoopDef ==
  ASSUME NEW raw \in Seq(Octet), NEW c \in Columns
  PROVE  Loop(raw, c) = [i \in 1..(Len(raw) + 1) |->
           IF i > Len(raw) THEN Nothing
           ELSE Then(ParseStep(raw, i, c), Loop(raw, c)[ParseStep(raw, i, c).to])]
<1> DEFINE n == Len(raw)
           to(i) == ParseStep(raw, i, c).to
           next(r, i) == Then(ParseStep(raw, i, c), r[to(i)])
           Fits(r) == r = [i \in 1..(n + 1) |-> IF i > n THEN Nothing ELSE next(r, i)]
           Up(r, k) == /\ r = [i \in 1..(n + 1) |-> r[i]] /\ r[n + 1] = Nothing
                       /\ \A i \in 1..n : i > n - k => r[i] = next(r, i)
           T == {k \in Nat : \E r : Up(r, k)}
<1>1. n \in Nat /\ \A i \in 1..n : to(i) \in (i + 1)..(n + 1)
  BY LenProperties, StepTypes DEF StepOk
<1> HIDE DEF to, n
<1>2. 0 \in T
  <2> DEFINE r == [i \in 1..(n + 1) |-> Nothing]
  <2>1. r = [i \in 1..(n + 1) |-> r[i]] /\ r[n + 1] = Nothing
    BY <1>1
  <2>2. \A i \in 1..n : ~(i > n - 0)
    BY <1>1
  <2> HIDE DEF r
  <2>3. Up(r, 0)
    BY <2>1, <2>2
  <2> HIDE DEF Up
  <2> QED
    BY <2>3
<1>3. ASSUME NEW k \in 0..(n - 1), k \in T PROVE k + 1 \in T
  <2>1. PICK r : Up(r, k)
    BY <1>3
  <2> DEFINE m == n - k
             q == [r EXCEPT ![m] = next(r, m)]
  <2>2. m \in 1..n /\ m \in 1..(n + 1) /\ m # n + 1 /\ k + 1 \in Nat
    BY <1>1
  <2>3. DOMAIN r = 1..(n + 1)
    BY <2>1
  <2> HIDE DEF next
  <2>4. q = [i \in 1..(n + 1) |-> q[i]] /\ q[n + 1] = Nothing /\ q[m] = next(r, m)
        /\ \A i \in 1..(n + 1) : i # m => q[i] = r[i]
    <3> DEFINE x == next(r, m)
    <3> HIDE DEF x
    <3>1. q = [r EXCEPT ![m] = x]
      BY DEF x
    <3>2. n + 1 \in 1..(n + 1)
      BY <1>1
    <3>3. r[n + 1] = Nothing
      BY <2>1
    <3> HIDE DEF q, m
    <3> QED
      BY <2>2, <2>3, <3>1, <3>2, <3>3 DEF x
  <2>5. \A i \in 1..n : i >= m => to(i) # m /\ to(i) \in 1..(n + 1)
    BY <1>1, <2>2
  <2>6. \A i \in 1..n : i >= m => next(q, i) = next(r, i)
    <3> HIDE DEF q, m
    <3> QED
      BY <2>4, <2>5 DEF next
  <2>7. \A i \in 1..n : i > n - (k + 1) => i = m \/ (i > n - k /\ i # m /\ i >= m)
    BY <1>1
  <2>8. \A i \in 1..n : i > n - (k + 1) => q[i] = next(q, i)
    <3>1. next(q, m) = next(r, m)
      <4>1. m >= m
        BY <1>1
      <4> HIDE DEF m, q
      <4> QED
        BY <2>2, <2>6, <4>1
    <3>2. \A i \in 1..n : i > n - k => r[i] = next(r, i)
      BY <2>1
    <3>3. 1..n \subseteq 1..(n + 1)
      BY <1>1
    <3> HIDE DEF q, m
    <3> QED
      BY <2>4, <2>6, <2>7, <3>1, <3>2, <3>3
  <2> HIDE DEF q
  <2>9. Up(q, k + 1)
    BY <2>4, <2>8
  <2> HIDE DEF Up
  <2> QED
    BY <2>2, <2>9
<1>4. n \in T
  <2> HIDE DEF T
  <2>1. n \in 0..n
    BY <1>1
  <2> QED
    BY <1>1, <1>2, <1>3, <2>1, Climbs
<1>5. PICK r : Up(r, n)
  BY <1>4
<1>6. Fits(r)
  <2> HIDE DEF next
  <2>1. \A i \in 1..(n + 1) : r[i] = IF i > n THEN Nothing ELSE next(r, i)
    <3>1. \A i \in 1..(n + 1) : (i > n => i = n + 1) /\ (~(i > n) => i \in 1..n /\ i > n - n)
      BY <1>1
    <3> QED
      BY <1>5, <3>1
  <2> QED
    BY <1>5, <2>1
<1> HIDE DEF Fits
<1>7. Fits(CHOOSE f : Fits(f))
  BY <1>6
<1>8. Loop(raw, c) = CHOOSE f : Fits(f)
  BY DEF Loop, Fits, next, to, n
<1>9. Fits(Loop(raw, c))
  BY <1>7, <1>8
<1> QED
  BY <1>9 DEF Fits, next, to, n

LEMMA LoopStep ==
  ASSUME NEW raw \in Seq(Octet), NEW c \in Columns
  PROVE  /\ Loop(raw, c)[Len(raw) + 1] = Nothing
         /\ \A i \in 1..Len(raw) :
              Loop(raw, c)[i] = Then(ParseStep(raw, i, c), Loop(raw, c)[ParseStep(raw, i, c).to])
<1> DEFINE L == Loop(raw, c)
           n == Len(raw)
           next(i) == Then(ParseStep(raw, i, c), L[ParseStep(raw, i, c).to])
<1>1. n \in Nat
  BY LenProperties
<1>2. L = [i \in 1..(n + 1) |-> IF i > n THEN Nothing ELSE next(i)]
  BY LoopDef
<1> HIDE DEF L, n, next
<1>3. L[n + 1] = Nothing /\ \A i \in 1..n : L[i] = next(i)
  BY <1>1, <1>2
<1> QED
  BY <1>3 DEF L, n, next

(* What the loop adds is text, and answers.                                 *)
LEMMA LoopTypes ==
  ASSUME NEW raw \in Seq(Octet), NEW c \in Columns
  PROVE  \A i \in 1..(Len(raw) + 1) :
           /\ Loop(raw, c)[i].out \in Seq(Octet)
           /\ ReplyOk(Loop(raw, c)[i].says, Loop(raw, c)[i].naws, c)
<1> DEFINE L == Loop(raw, c)
           n == Len(raw)
           T == {i \in Nat : L[i].out \in Seq(Octet) /\ ReplyOk(L[i].says, L[i].naws, c)}
<1>1. n \in Nat
  BY LenProperties
<1>2. ASSUME NEW i \in 1..(n + 1), \A j \in (i + 1)..(n + 1) : j \in T PROVE i \in T
  <2>1. CASE i = n + 1
    <3>1. L[i] = Nothing
      BY <2>1, LoopStep
    <3>2. Nothing.out \in Seq(Octet) /\ ReplyOk(Nothing.says, Nothing.naws, c)
      BY ReplyNothing, EmptySeq DEF Nothing
    <3> HIDE DEF L
    <3> QED
      BY <1>1, <3>1, <3>2
  <2>2. CASE i \in 1..n
    <3> DEFINE step == ParseStep(raw, i, c)
               rest == L[step.to]
    <3>1. /\ step.to \in (i + 1)..(n + 1) /\ step.out \in Seq(Octet)
          /\ ReplyOk(step.says, step.naws, c)
      BY <2>2, StepTypes DEF StepOk
    <3>2. rest.out \in Seq(Octet) /\ ReplyOk(rest.says, rest.naws, c)
      <4> HIDE DEF L, n, step
      <4> QED
        BY <1>2, <3>1
    <3>3. L[i] = Then(step, rest)
      BY <2>2, LoopStep
    <3> HIDE DEF L, n, step, rest
    <3>4. /\ Then(step, rest).out = step.out \o rest.out
          /\ Then(step, rest).says = step.says \o rest.says
          /\ Then(step, rest).naws = (step.naws \/ rest.naws)
      BY DEF Then
    <3>5. step.out \o rest.out \in Seq(Octet)
      BY <3>1, <3>2, ConcatProperties
    <3>6. ReplyOk(step.says \o rest.says, step.naws \/ rest.naws, c)
      BY <3>1, <3>2, ReplyThen
    <3>7. L[i].out \in Seq(Octet)
      BY <3>3, <3>4, <3>5
    <3>8. ReplyOk(L[i].says, L[i].naws, c)
      BY <3>3, <3>4, <3>6, Zenon
    <3> QED
      BY <1>1, <3>7, <3>8
  <2> QED
    BY <1>1, <2>1, <2>2
<1> HIDE DEF T, n
<1>3. \A i \in 1..(n + 1) : i \in T
  BY <1>1, <1>2, Descends
<1> QED
  BY <1>3 DEF T, n

-----------------------------------------------------------------------------
(* parseTelnet and the reading of RFC 854, side by side *)

\* Up to the state after k bytes, from j on, a subnegotiation is under way.
Inside(s, raw, j, k) ==
  /\ Reads(s, raw)[k].mode \in {"sub", "subiac"}
  /\ Reads(s, raw)[k].out = Reads(s, raw)[j].out
  /\ Reads(s, raw)[k].mode = "subiac" => k > j /\ raw[k] = IAC

LEMMA StaysInside ==
  ASSUME NEW s \in State, NEW raw \in Seq(Octet), NEW j \in 0..Len(raw), NEW m \in j..Len(raw),
         Reads(s, raw)[j].mode = "sub", \A k \in SubEnds(raw, j + 1) : k >= m
  PROVE  \A k \in j..m : Inside(s, raw, j, k)
<1> DEFINE R == Reads(s, raw)
           n == Len(raw)
           T == {d \in Nat : Inside(s, raw, j, j + d)}
<1>1. n \in Nat /\ j \in Nat /\ m \in Nat /\ m <= n /\ m - j \in Nat
  BY LenProperties
<1>2. 0 \in T
  <2>1. j + 0 = j
    BY <1>1
  <2> QED
    BY <2>1 DEF Inside
<1>3. ASSUME NEW d \in 0..((m - j) - 1), d \in T PROVE d + 1 \in T
  <2> DEFINE k == j + d
  <2>1. k \in Nat /\ k < n /\ k < m /\ j + (d + 1) = k + 1 /\ k >= j /\ k + 1 > j /\ d + 1 \in Nat
    <3>1. d \in Nat /\ d < m - j
      BY <1>1
    <3>2. j + d \in Nat /\ j + d < m /\ j + d < n /\ j + d >= j
      BY <1>1, <3>1
    <3> QED
      BY <1>1, <3>1, <3>2
  <2>2. /\ R[k] \in State /\ raw[k + 1] \in Octet /\ R[k + 1] = Byte(R[k], raw[k + 1])
    BY <2>1, ReadsNext
  <2>3. Inside(s, raw, j, k)
    BY <1>3
  <2> HIDE DEF k
  <2>4. CASE R[k].mode = "sub"
    <3> DEFINE u == R[k]
               b == raw[k + 1]
    <3>1. R[k + 1] = IF b = IAC THEN At("subiac", u.sub, u.out, u.subs)
                     ELSE At("sub", Append(u.sub, b), u.out, u.subs)
      BY <2>2, <2>4, ByteSub
    <3>2. u.out = R[j].out
      BY <2>3 DEF Inside
    <3>3. R[k + 1].out = u.out /\ \/ R[k + 1].mode = "sub"
                                  \/ R[k + 1].mode = "subiac" /\ b = IAC
      <4> HIDE DEF u, b, R
      <4> QED
        BY <3>1, AtState
    <3>4. Inside(s, raw, j, k + 1)
      BY <2>1, <3>2, <3>3 DEF Inside
    <3> QED
      BY <2>1, <3>4
  <2>5. CASE R[k].mode = "subiac"
    <3> DEFINE u == R[k]
               b == raw[k + 1]
    <3>1. raw[k] = IAC /\ k > j /\ u.out = R[j].out
      BY <2>3, <2>5 DEF Inside
    <3>2. b # SE
      <4> SUFFICES ASSUME b = SE PROVE FALSE
        OBVIOUS
      <4>1. k \in (j + 1)..(n - 1)
        BY <1>1, <2>1, <3>1
      <4>2. k \in SubEnds(raw, j + 1)
        BY <3>1, <4>1 DEF SubEnds
      <4> QED
        BY <1>1, <2>1, <4>2
    <3>3. R[k + 1] = At("sub", IF b = IAC THEN Append(u.sub, IAC) ELSE u.sub \o <<IAC, b>>,
                        u.out, u.subs)
      BY <2>2, <2>5, <3>2, ByteSubIac
    <3>4. R[k + 1].mode = "sub" /\ R[k + 1].out = u.out
      <4> DEFINE x == IF b = IAC THEN Append(u.sub, IAC) ELSE u.sub \o <<IAC, b>>
      <4>1. R[k + 1] = At("sub", x, u.out, u.subs)
        BY <3>3
      <4> HIDE DEF u, b, R, x
      <4> QED
        BY <4>1, AtState
    <3>5. Inside(s, raw, j, k + 1)
      BY <3>1, <3>4 DEF Inside
    <3> QED
      BY <2>1, <3>5
  <2> QED
    BY <2>3, <2>4, <2>5 DEF Inside
<1> HIDE DEF T
<1>4. \A d \in 0..(m - j) : d \in T
  BY <1>1, <1>2, <1>3, Climbs
<1>5. ASSUME NEW k \in j..m PROVE Inside(s, raw, j, k)
  <2>1. k - j \in 0..(m - j) /\ j + (k - j) = k
    BY <1>1
  <2>2. k - j \in T
    BY <1>4, <2>1
  <2> QED
    BY <2>1, <2>2 DEF T
<1> QED
  BY <1>5

(* A pass that starts between commands ends between commands, and adds the  *)
(* text of what it passes, if the chunk can be read.                        *)
LEMMA StepText ==
  ASSUME NEW s \in State, NEW raw \in Seq(Octet), NEW c \in Columns, ~Unreadable(s, raw),
         NEW i \in 1..Len(raw), Reads(s, raw)[i - 1].mode = "data"
  PROVE  LET step == ParseStep(raw, i, c) IN
         /\ Reads(s, raw)[step.to - 1].mode = "data"
         /\ Reads(s, raw)[step.to - 1].out = Reads(s, raw)[i - 1].out \o step.out
<1> DEFINE R == Reads(s, raw)
           n == Len(raw)
           step == ParseStep(raw, i, c)
           u == R[i - 1]
           Good(t, out) == R[t].mode = "data" /\ R[t].out = u.out \o out
<1>1. /\ n \in Nat /\ i \in Nat /\ i <= n /\ (i - 1) + 1 = i /\ i - 1 \in Nat /\ i - 1 < n
      /\ \A j \in 1..n : raw[j] \in Octet
  BY LenProperties, ElementOfSeq
<1>2. /\ u \in State /\ u.mode = "data" /\ u.out \in Seq(Octet) /\ u.out \o <<>> = u.out
      /\ R[i] = Byte(u, raw[i])
  <2>1. u \in State /\ R[(i - 1) + 1] = Byte(u, raw[(i - 1) + 1])
    BY <1>1, ReadsNext
  <2>2. u.out \in Seq(Octet)
    BY <2>1 DEF State
  <2>3. u.out \o <<>> = u.out
    BY <2>2, ConcatEmptySeq
  <2> QED
    BY <1>1, <2>1, <2>2, <2>3
<1>3. /\ R[n].mode = "data"
      /\ \A k \in 1..(n - 1) : ~(R[k].mode = "sub" /\ raw[k] = IAC /\ raw[k + 1] = SE)
  BY DEF Unreadable, After
<1> SUFFICES Good(step.to - 1, step.out)
  OBVIOUS
<1> HIDE DEF step, u, R, n
<1>4. CASE raw[i] # IAC
  <2>1. R[i] = At("data", u.sub, Append(u.out, raw[i]), u.subs)
    BY <1>1, <1>2, <1>4, ByteData
  <2>2. R[i].mode = "data" /\ R[i].out = Append(u.out, raw[i])
    BY <2>1 DEF At
  <2>3. Append(u.out, raw[i]) = u.out \o <<raw[i]>>
    BY <1>1, <1>2, AppendIsConcat
  <2>4. step = Pass(i + 1, <<raw[i]>>, <<>>, FALSE)
    BY <1>4, StepCases DEF step
  <2>5. step.to - 1 = i /\ step.out = <<raw[i]>>
    BY <1>1, <2>4 DEF Pass
  <2> QED
    BY <2>2, <2>3, <2>5
<1>5. CASE raw[i] = IAC
  <2>1. R[i] = At("iac", u.sub, u.out, u.subs)
    BY <1>1, <1>2, <1>5, ByteData
  <2>2. R[i].mode = "iac" /\ R[i].out = u.out /\ i < n
    <3>1. R[i].mode = "iac" /\ R[i].out = u.out
      BY <2>1, AtState
    <3>2. i # n
      BY <1>3, <3>1
    <3> QED
      BY <1>1, <3>1, <3>2
  <2>3. R[i] \in State /\ raw[i + 1] \in Octet /\ R[i + 1] = Byte(R[i], raw[i + 1])
    BY <1>1, <2>2, ReadsNext DEF R, n
  <2>4. CASE raw[i + 1] = IAC
    <3>1. R[i + 1] = At("data", R[i].sub, Append(R[i].out, IAC), R[i].subs)
      BY <2>2, <2>3, <2>4, ByteIac
    <3>2. R[i + 1].mode = "data" /\ R[i + 1].out = Append(u.out, IAC)
      BY <2>2, <3>1 DEF At
    <3>3. Append(u.out, IAC) = u.out \o <<IAC>>
      BY <1>2, Octets, AppendIsConcat
    <3>4. step = Pass(i + 2, <<IAC>>, <<>>, FALSE)
      BY <1>5, <2>2, <2>4, StepCases DEF step, n
    <3>5. step.to - 1 = i + 1 /\ step.out = <<IAC>>
      BY <1>1, <3>4 DEF Pass
    <3> QED
      BY <3>2, <3>3, <3>5
  <2>5. CASE raw[i + 1] \in OptionCommands
    <3>1. R[i + 1] = At("option", R[i].sub, R[i].out, R[i].subs)
      BY <2>2, <2>3, <2>5, CommandsDiffer, ByteIac
    <3>2. R[i + 1].mode = "option" /\ R[i + 1].out = u.out
      BY <2>2, <3>1, AtState
    <3>3. i + 1 < n /\ i + 1 \in Nat /\ (i + 1) + 1 = i + 2 /\ i + 2 <= n
          /\ i + 2 \in Nat /\ (i + 2) + 1 = i + 3
      <4>1. i + 1 # n
        BY <1>3, <3>2
      <4> QED
        BY <1>1, <2>2, <4>1
    <3>4. R[i + 1] \in State /\ raw[i + 2] \in Octet /\ R[i + 2] = Byte(R[i + 1], raw[i + 2])
      <4>1. /\ R[i + 1] \in State /\ raw[(i + 1) + 1] \in Octet
            /\ R[(i + 1) + 1] = Byte(R[i + 1], raw[(i + 1) + 1])
        BY <3>3, ReadsNext DEF R, n
      <4> QED
        BY <3>3, <4>1
    <3>5. R[i + 2] = At("data", R[i + 1].sub, R[i + 1].out, R[i + 1].subs)
      BY <3>2, <3>4, ByteOption
    <3>6. R[i + 2].mode = "data" /\ R[i + 2].out = u.out \o <<>>
      BY <1>2, <3>2, <3>5, AtState
    <3>7. step = Pass(i + 3, <<>>, OptionReply(raw[i + 1], raw[i + 2], c),
                      raw[i + 1] = DO /\ raw[i + 2] = NAWS)
      BY <1>5, <2>2, <2>5, <3>3, StepCases DEF step, n
    <3>8. step.to - 1 = i + 2 /\ step.out = <<>>
      BY <1>1, <3>7 DEF Pass
    <3> QED
      BY <3>6, <3>8
  <2>6. CASE raw[i + 1] = SB
    <3>1. R[i + 1] = At("sub", <<>>, R[i].out, R[i].subs)
      BY <2>2, <2>3, <2>6, ByteIac
    <3>2. R[i + 1].mode = "sub" /\ R[i + 1].out = u.out
      BY <2>2, <3>1, AtState
    <3>3. i + 1 \in 0..n /\ (i + 1) + 1 = i + 2 /\ i + 2 \in Nat
      BY <1>1, <2>2
    <3>4. ASSUME NEW m \in (i + 1)..n, \A k \in SubEnds(raw, i + 2) : k >= m
          PROVE  Inside(s, raw, i + 1, m)
      <4>1. \A k \in (i + 1)..m : Inside(s, raw, i + 1, k)
        BY <3>2, <3>3, <3>4, StaysInside DEF R, n
      <4> QED
        BY <1>1, <4>1
    <3>5. SubEnds(raw, i + 2) # {}
      <4> SUFFICES ASSUME SubEnds(raw, i + 2) = {} PROVE FALSE
        OBVIOUS
      <4>1. n \in (i + 1)..n
        BY <1>1, <2>2
      <4>2. Inside(s, raw, i + 1, n)
        BY <3>4, <4>1
      <4> QED
        BY <1>3, <4>2 DEF Inside, R
    <3> DEFINE e == SubEnd(raw, i + 2)
    <3>6. e \in (i + 2)..(n - 1) /\ raw[e] = IAC /\ raw[e + 1] = SE
          /\ \A k \in SubEnds(raw, i + 2) : e <= k
      BY <3>3, <3>5, SubEndFirst DEF n
    <3>7. step = Pass(e + 2, <<>>, SubReply(SubSeq(raw, i + 2, e - 1)), FALSE)
      BY <1>5, <2>2, <2>6, <3>5, StepCases DEF step, n
    <3> HIDE DEF e
    <3>8. e \in (i + 1)..n /\ e \in Nat /\ e < n /\ e \in 1..(n - 1) /\ e + 1 \in Nat /\ (e + 1) + 1 = e + 2
      BY <1>1, <3>6
    <3>9. Inside(s, raw, i + 1, e)
      <4>1. \A k \in SubEnds(raw, i + 2) : k >= e
        <5>1. SubEnds(raw, i + 2) \subseteq Nat
          BY <3>3 DEF SubEnds
        <5> QED
          BY <3>6, <3>8, <5>1
      <4> QED
        BY <3>4, <3>8, <4>1
    <3>10. R[e].mode = "subiac" /\ R[e].out = u.out
      BY <1>3, <3>2, <3>6, <3>8, <3>9 DEF Inside, R
    <3>11. R[e] \in State /\ raw[e + 1] \in Octet /\ R[e + 1] = Byte(R[e], raw[e + 1])
      BY <3>8, ReadsNext DEF R, n
    <3>12. R[e + 1] = At("data", R[e].sub, R[e].out, Append(R[e].subs, R[e].sub))
      BY <3>6, <3>10, <3>11, ByteSubIac
    <3>13. R[e + 1].mode = "data" /\ R[e + 1].out = u.out \o <<>>
      BY <1>2, <3>10, <3>12, AtState
    <3>14. step.to - 1 = e + 1 /\ step.out = <<>>
      BY <3>7, <3>8 DEF Pass
    <3> QED
      BY <3>13, <3>14
  <2>7. CASE raw[i + 1] \notin OptionCommands \cup {IAC, SB}
    <3>1. R[i + 1] = At("data", R[i].sub, R[i].out, R[i].subs)
      BY <2>2, <2>3, <2>7, CommandsDiffer, ByteIac
    <3>2. R[i + 1].mode = "data" /\ R[i + 1].out = u.out \o <<>>
      BY <1>2, <2>2, <3>1, AtState
    <3>3. step = Pass(i + 2, <<>>, <<>>, FALSE)
      BY <1>5, <2>2, <2>7, StepCases DEF step, n
    <3>4. step.to - 1 = i + 1 /\ step.out = <<>>
      BY <1>1, <3>3 DEF Pass
    <3> QED
      BY <3>2, <3>4
  <2> QED
    BY <2>4, <2>5, <2>6, <2>7
<1> QED
  BY <1>4, <1>5

(* A chunk that can be read adds its text, and leaves no command under way. *)
LEMMA ChunkText ==
  ASSUME NEW s \in State, s.mode = "data", NEW raw \in Seq(Octet), NEW c \in Columns,
         ~Unreadable(s, raw)
  PROVE  /\ After(s, raw).mode = "data"
         /\ After(s, raw).out = s.out \o ParseTelnet(raw, c).out
<1> DEFINE R == Reads(s, raw)
           L == Loop(raw, c)
           n == Len(raw)
           T == {i \in Nat : R[i - 1].mode = "data" => R[n].out = R[i - 1].out \o L[i].out}
<1>1. n \in Nat /\ R[0] = s /\ \A i \in 0..n : R[i].out \in Seq(Octet)
  <2>1. n \in Nat /\ R[0] = s /\ \A i \in 0..n : R[i] \in State
    BY ReadsStep
  <2> HIDE DEF R, n
  <2> QED
    BY <2>1 DEF State
<1>2. \A i \in 1..(n + 1) : L[i].out \in Seq(Octet)
  BY LoopTypes
<1>3. ASSUME NEW i \in 1..(n + 1), \A j \in (i + 1)..(n + 1) : j \in T PROVE i \in T
  <2>1. CASE i = n + 1
    <3>1. L[i].out = <<>>
      BY <2>1, LoopStep DEF Nothing
    <3>2. i - 1 = n /\ i \in Nat
      BY <1>1, <2>1
    <3>3. R[n].out \o <<>> = R[n].out
      <4>1. R[n].out \in Seq(Octet)
        BY <1>1
      <4> HIDE DEF R, n
      <4> QED
        BY <4>1, ConcatEmptySeq
    <3> HIDE DEF R, L, n
    <3> QED
      BY <3>1, <3>2, <3>3
  <2>2. CASE i \in 1..n
    <3> DEFINE step == ParseStep(raw, i, c)
               to == step.to
    <3>1. SUFFICES ASSUME R[i - 1].mode = "data"
                   PROVE  R[n].out = R[i - 1].out \o L[i].out
      <4>1. i \in Nat
        BY <1>1, <2>2
      <4> HIDE DEF R, L, n
      <4> QED
        BY <4>1
    <3>2. to \in (i + 1)..(n + 1) /\ step.out \in Seq(Octet)
      BY <2>2, StepTypes DEF StepOk
    <3>3. R[to - 1].mode = "data" /\ R[to - 1].out = R[i - 1].out \o step.out
      BY <2>2, <3>1, StepText
    <3>4. L[i] = Then(step, L[to])
      BY <2>2, LoopStep
    <3>5. to \in T /\ to \in 1..(n + 1)
      <4> HIDE DEF T, to, n
      <4> QED
        BY <1>1, <1>3, <3>2
    <3> HIDE DEF step, to, n, L, R
    <3>6. R[n].out = R[to - 1].out \o L[to].out
      BY <3>3, <3>5
    <3>7. L[i].out = step.out \o L[to].out
      <4>1. Then(step, L[to]).out = step.out \o L[to].out
        BY DEF Then
      <4> QED
        BY <3>4, <4>1
    <3>8. R[i - 1].out \in Seq(Octet) /\ L[to].out \in Seq(Octet)
      <4>1. i - 1 \in 0..n
        BY <1>1, <2>2
      <4> QED
        BY <1>1, <1>2, <3>5, <4>1
    <3>9. (R[i - 1].out \o step.out) \o L[to].out = R[i - 1].out \o (step.out \o L[to].out)
      <4> DEFINE x == R[i - 1].out
                 y == step.out
                 z == L[to].out
      <4>1. x \in Seq(Octet) /\ y \in Seq(Octet) /\ z \in Seq(Octet)
        BY <3>2, <3>8
      <4> HIDE DEF x, y, z
      <4>2. (x \o y) \o z = x \o (y \o z)
        BY <4>1, BytesRegrouped
      <4> QED
        BY <4>2 DEF x, y, z
    <3> QED
      BY <3>3, <3>6, <3>7, <3>9
  <2>3. i = n + 1 \/ i \in 1..n
    BY <1>1
  <2> HIDE DEF T
  <2> QED
    BY <2>1, <2>2, <2>3
<1>4. 1 \in T
  <2> HIDE DEF T, n
  <2>1. 1 \in 1..(n + 1)
    BY <1>1
  <2> QED
    BY <1>1, <1>3, <2>1, Descends
<1>5. R[n].mode = "data"
  BY DEF Unreadable, After
<1>6. R[n].out = R[1 - 1].out \o L[1].out
  <2>1. 1 - 1 = 0 /\ R[0].mode = "data"
    BY <1>1
  <2> HIDE DEF R, L, n
  <2> QED
    BY <1>4, <2>1
<1>7. R[1 - 1] = s
  BY <1>1
<1>8. R[n].out = s.out \o L[1].out
  <2> HIDE DEF R, L, n
  <2> QED
    BY <1>6, <1>7
<1> QED
  BY <1>5, <1>8 DEF After, ParseTelnet

-----------------------------------------------------------------------------
(* Theorems *)

LEMMA ParseTypes ==
  ASSUME NEW raw \in Seq(Octet), NEW c \in Columns
  PROVE  LET r == ParseTelnet(raw, c)
         IN r.out \in Seq(Octet) /\ ReplyOk(r.says, r.naws, c)
<1>1. 1 \in 1..(Len(raw) + 1)
  BY LenProperties
<1> QED
  BY <1>1, LoopTypes DEF ParseTelnet

(* What is received, shown and sent are bytes, and the width is one  *)
(* of the terminal's: every step of TelnetSession keeps it so.              *)
LEMMA TypesInit == TelnetInit => TelnetTypeOK
BY EmptySeq DEF TelnetInit, TelnetTypeOK

LEMMA TypesStep ==
  ASSUME TelnetTypeOK, [TelnetWireNext]_telnetVars
  PROVE  TelnetTypeOK'
<1>1. ASSUME NEW raw \in Chunks,
             received' = received \o raw,
             misread' = (misread \/ Unreadable(Reading(received), raw)),
             shown' = shown \o ParseTelnet(raw, cols).out,
             sent' = sent \o ParseTelnet(raw, cols).says,
             naws' = (naws \/ ParseTelnet(raw, cols).naws),
             undoubled' = (undoubled \/ (ParseTelnet(raw, cols).naws /\ ~Plain(cols))),
             UNCHANGED <<typed, cols>>
      PROVE  TelnetTypeOK'
  <2> DEFINE r == ParseTelnet(raw, cols)
  <2>1. raw \in Seq(Octet)
    BY TelnetAssumption
  <2>2. r.out \in Seq(Octet) /\ r.says \in Seq(Octet) /\ r.naws \in BOOLEAN
    BY <2>1, ParseTypes DEF TelnetTypeOK, ReplyOk
  <2>3. received \o raw \in Seq(Octet)
    BY <2>1, ConcatProperties DEF TelnetTypeOK
  <2>4. shown \o r.out \in Seq(Octet) /\ sent \o r.says \in Seq(Octet)
    <3> HIDE DEF r
    <3> QED
      BY <2>2, ConcatProperties DEF TelnetTypeOK
  <2>5. misread' \in BOOLEAN
    BY <1>1
  <2>6. naws' \in BOOLEAN /\ undoubled' \in BOOLEAN
    BY <1>1
  <2> QED
    BY <1>1, <2>3, <2>4, <2>5, <2>6 DEF TelnetTypeOK
<1>2. CASE TelnetWrite
  <2>1. PICK keys \in Inputs : /\ typed' = typed \o keys /\ sent' = sent \o Escaped(Binary(keys))
                               /\ UNCHANGED <<received, misread, shown, cols, naws, undoubled>>
    BY <1>2 DEF TelnetWrite
  <2>2. typed \o keys \in Seq(Unit) /\ Binary(keys) \in Seq(Octet)
    BY TelnetAssumption, BinaryBytes DEF TelnetTypeOK
  <2>3. Escaped(Binary(keys)) \in Seq(Octet)
    BY <2>2, EscapedRead, GroundType
  <2>4. sent \o Escaped(Binary(keys)) \in Seq(Octet)
    BY <2>3, ConcatProperties DEF TelnetTypeOK
  <2> QED
    BY <2>1, <2>2, <2>4 DEF TelnetTypeOK
<1>3. CASE TelnetResize
  <2>1. PICK c \in Columns \ {cols} :
          /\ cols' = c /\ sent' = IF naws THEN sent \o BuildNaws(c) ELSE sent
          /\ undoubled' = (undoubled \/ (naws /\ ~Plain(c)))
          /\ UNCHANGED <<received, misread, shown, typed, naws>>
    BY <1>3 DEF TelnetResize
  <2>2. BuildNaws(c) \in Seq(Octet)
    BY ReplyNaws DEF ReplyOk
  <2>3. sent \o BuildNaws(c) \in Seq(Octet)
    BY <2>2, ConcatProperties DEF TelnetTypeOK
  <2> QED
    BY <2>1, <2>3, Zenon DEF TelnetTypeOK
<1>4. CASE UNCHANGED telnetVars
  BY <1>4 DEF telnetVars, TelnetTypeOK
<1>5. TelnetData => TelnetTypeOK'
  BY <1>1 DEF TelnetData
<1> QED
  BY <1>2, <1>3, <1>4, <1>5 DEF TelnetWireNext

(* Everything received, shown and sent is a sequence of bytes, and what was *)
(* typed one of UTF-16 units.                                               *)
THEOREM TelnetTypesHold == TelnetWireSpec => []TelnetTypeOK
<1>1. TelnetInit => TelnetTypeOK
  BY TypesInit
<1>2. TelnetTypeOK /\ [TelnetWireNext]_telnetVars => TelnetTypeOK'
  BY TypesStep
<1> QED
  BY <1>1, <1>2, PTL DEF TelnetWireSpec

\* TextRead is inductive with this: no command is under way between chunks.
TextInv == ~misread => Reading(received).mode = "data" /\ shown = Reading(received).out

LEMMA TextStep ==
  ASSUME TelnetTypeOK, TextInv, [TelnetWireNext]_telnetVars
  PROVE  TextInv'
<1>1. CASE TelnetData
  <2>1. PICK raw \in Chunks :
          /\ received' = received \o raw
          /\ misread' = (misread \/ Unreadable(Reading(received), raw))
          /\ shown' = shown \o ParseTelnet(raw, cols).out
    BY <1>1 DEF TelnetData
  <2> DEFINE s == Reading(received)
  <2>2. raw \in Seq(Octet) /\ received \in Seq(Octet) /\ cols \in Columns
    BY TelnetAssumption DEF TelnetTypeOK
  <2>3. s \in State /\ Reading(received') = After(s, raw)
    BY <2>1, <2>2, GroundType, ReadsStep, ReadsConcat DEF Reading
  <2>4. SUFFICES ASSUME ~misread' PROVE Reading(received').mode = "data"
                                        /\ shown' = Reading(received').out
    BY DEF TextInv
  <2>5. ~misread /\ ~Unreadable(s, raw)
    BY <2>1, <2>4
  <2>6. s.mode = "data" /\ shown = s.out
    BY <2>5 DEF TextInv
  <2>7. After(s, raw).mode = "data" /\ After(s, raw).out = s.out \o ParseTelnet(raw, cols).out
    <3> HIDE DEF s
    <3> QED
      BY <2>2, <2>3, <2>5, <2>6, ChunkText
  <2> QED
    BY <2>1, <2>3, <2>6, <2>7
<1>2. CASE TelnetWrite \/ TelnetResize \/ UNCHANGED telnetVars
  <2>1. UNCHANGED <<received, misread, shown>>
    BY <1>2 DEF TelnetWrite, TelnetResize, telnetVars
  <2> QED
    BY <2>1 DEF TextInv
<1> QED
  BY <1>1, <1>2 DEF TelnetWireNext

(* However the server's bytes are cut into chunks, the terminal shows what  *)
(* a reading of the whole stream shows, up to the first chunk that          *)
(* parseTelnet cannot read.                                                 *)
THEOREM StreamRead == TelnetWireSpec => []TextRead
<1>1. TelnetInit => TextInv
  <2>1. Reading(<<>>) = Ground
    BY GroundType, ReadNothing DEF Reading
  <2> QED
    BY <2>1, GroundType DEF TelnetInit, TextInv
<1>2. TelnetTypeOK /\ TextInv /\ [TelnetWireNext]_telnetVars => TextInv'
  BY TextStep
<1>3. TextInv => TextRead
  BY DEF TextInv, TextRead
<1> QED
  BY <1>1, <1>2, <1>3, TelnetTypesHold, PTL DEF TelnetWireSpec

LEMMA ServerStep ==
  ASSUME TelnetTypeOK, ServerReads, [TelnetWireNext]_telnetVars
  PROVE  ServerReads'
<1> DEFINE s == Reading(sent)
<1>1. SUFFICES ASSUME ~undoubled'
               PROVE  LET r == Reading(sent')
                      IN /\ r.mode = "data" /\ r.out = Binary(typed')
                         /\ naws' => SizeKnown(r.subs, cols')
  BY DEF ServerReads
<1>2. ~undoubled
  BY <1>1 DEF TelnetWireNext, TelnetData, TelnetWrite, TelnetResize, telnetVars
<1>3. /\ s \in State /\ s.mode = "data" /\ s.out = Binary(typed)
      /\ naws => SizeKnown(s.subs, cols)
  <2>1. s \in State
    BY GroundType, ReadsStep DEF Reading, TelnetTypeOK
  <2> QED
    BY <1>2, <2>1 DEF ServerReads
<1>4. \A x \in Seq(Octet) : Reading(sent \o x) = After(s, x)
  BY GroundType, ReadsConcat DEF Reading, TelnetTypeOK
<1>5. ASSUME sent' = sent, typed' = typed, naws' = naws, naws => cols' = cols
      PROVE  /\ Reading(sent').mode = "data" /\ Reading(sent').out = Binary(typed')
             /\ naws' => SizeKnown(Reading(sent').subs, cols')
  BY <1>3, <1>5
<1> HIDE DEF s
<1>6. ASSUME NEW asked, NEW x, ReplyOk(x, asked, cols'), asked => Plain(cols'),
             sent' = sent \o x, typed' = typed,
             naws' => asked \/ (naws /\ cols' = cols)
      PROVE  /\ Reading(sent').mode = "data" /\ Reading(sent').out = Binary(typed')
             /\ naws' => SizeKnown(Reading(sent').subs, cols')
  <2>1. Reading(sent') = After(s, x)
    BY <1>4, <1>6 DEF ReplyOk
  <2>2. /\ After(s, x).mode = "data" /\ After(s, x).out = s.out
        /\ asked \/ SizeKnown(s.subs, cols') => SizeKnown(After(s, x).subs, cols')
    BY <1>3, <1>6 DEF ReplyOk
  <2>3. naws' => SizeKnown(After(s, x).subs, cols')
    BY <1>3, <1>6, <2>2
  <2> QED
    BY <1>3, <1>6, <2>1, <2>2, <2>3
<1>7. CASE TelnetData
  <2>1. PICK raw \in Chunks :
          /\ sent' = sent \o ParseTelnet(raw, cols).says
          /\ naws' = (naws \/ ParseTelnet(raw, cols).naws)
          /\ undoubled' = (undoubled \/ (ParseTelnet(raw, cols).naws /\ ~Plain(cols)))
          /\ UNCHANGED <<typed, cols>>
    BY <1>7 DEF TelnetData
  <2> DEFINE r == ParseTelnet(raw, cols)
  <2>2. ReplyOk(r.says, r.naws, cols')
    BY <2>1, TelnetAssumption, ParseTypes DEF TelnetTypeOK
  <2>3. /\ naws' => r.naws \/ (naws /\ cols' = cols)
        /\ r.naws => Plain(cols')
    BY <1>1, <2>1
  <2> HIDE DEF r
  <2> QED
    BY <1>6, <2>1, <2>2, <2>3 DEF r
<1>8. CASE TelnetWrite
  <2>1. PICK keys \in Inputs :
          /\ typed' = typed \o keys /\ sent' = sent \o Escaped(Binary(keys))
          /\ UNCHANGED <<cols, naws>>
    BY <1>8 DEF TelnetWrite
  <2> DEFINE y == Binary(keys)
  <2>2. y \in Seq(Octet) /\ Binary(typed') = Binary(typed) \o y
    BY <2>1, TelnetAssumption, BinaryBytes DEF TelnetTypeOK
  <2> HIDE DEF y
  <2>3. /\ Escaped(y) \in Seq(Octet)
        /\ After(s, Escaped(y)) = At("data", s.sub, s.out \o y, s.subs)
    BY <1>3, <2>2, EscapedRead
  <2>4. Reading(sent') = At("data", s.sub, s.out \o y, s.subs)
    BY <1>4, <2>1, <2>3 DEF y
  <2>5. /\ Reading(sent').mode = "data" /\ Reading(sent').out = s.out \o y
        /\ Reading(sent').subs = s.subs
    BY <2>4 DEF At
  <2> QED
    BY <1>3, <2>1, <2>2, <2>5
<1>9. CASE TelnetResize
  <2>1. PICK c \in Columns \ {cols} :
          /\ cols' = c /\ sent' = IF naws THEN sent \o BuildNaws(c) ELSE sent
          /\ undoubled' = (undoubled \/ (naws /\ ~Plain(c)))
          /\ typed' = typed /\ naws' = naws
    BY <1>9 DEF TelnetResize
  <2>2. CASE naws
    <3>1. ReplyOk(BuildNaws(c), TRUE, cols') /\ Plain(cols')
      BY <1>1, <2>1, <2>2, ReplyNaws
    <3> QED
      BY <1>6, <2>1, <2>2, <3>1
  <2>3. CASE ~naws
    BY <1>5, <2>1, <2>3
  <2> QED
    BY <2>2, <2>3
<1>10. CASE UNCHANGED telnetVars
  BY <1>5, <1>10 DEF telnetVars
<1> QED
  BY <1>7, <1>8, <1>9, <1>10 DEF TelnetWireNext

(* Whatever is received, typed and resized, and however these interleave,   *)
(* the server reads the low bytes of what the user typed and nothing else   *)
(* as text, and knows the current width from the time it asked for it: all  *)
(* until a width with a byte 255 is sent to it.                             *)
THEOREM ServerUnderstands == TelnetWireSpec => []ServerReads
<1>1. TelnetInit => ServerReads
  <2>1. Reading(<<>>) = Ground
    BY GroundType, ReadNothing DEF Reading
  <2>2. Binary(<<>>) = <<>>
    BY DEF Binary
  <2> QED
    BY <2>1, <2>2, GroundType DEF TelnetInit, ServerReads
<1>2. TelnetTypeOK /\ ServerReads /\ [TelnetWireNext]_telnetVars => ServerReads'
  BY ServerStep
<1> QED
  BY <1>1, <1>2, TelnetTypesHold, PTL DEF TelnetWireSpec
=============================================================================
