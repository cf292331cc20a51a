--------------------------- MODULE TerminalProofs ---------------------------
(***************************************************************************)
(* Proofs about Terminal, for any number of tabs and windows, the three    *)
(* protocols, and any order of requests, events and answers.               *)
(***************************************************************************)
EXTENDS Terminal, SequenceTheorems, TLAPS

-----------------------------------------------------------------------------
(* What a queue of requests holds                                           *)

IsCreate(m, t) == m.tab = t /\ m.op \in {"term", "sftp"}
Holds(s, m) == \E i \in 1..Len(s) : s[i] = m
Creates(s, t) == \E i \in 1..Len(s) : IsCreate(s[i], t)
CreatesOnce(s, t) ==
  \A i, j \in 1..Len(s) : IsCreate(s[i], t) /\ IsCreate(s[j], t) => i = j
CreatesKind(s, t, kind) == \A i \in 1..Len(s) : IsCreate(s[i], t) => s[i].op = kind
Reports(s) == \E i \in 1..Len(s) : s[i].op = "down"

(* After every report of success comes one of failure.                      *)
TakenBack(s) ==
  \A i \in 1..Len(s) : s[i].op = "up" => \E j \in (i + 1)..Len(s) : s[j].op = "down"

Request ==
  [op : {"term", "sftp", "close"}, tab : Tabs] \cup [op : {"cancel", "up", "down"}, tab : {None}]

-----------------------------------------------------------------------------
(* The invariant *)

TypeInv == TermTypeOK /\ \A w \in Windows : outbox[w] \in Seq(Request)

WindowInv == \A w \in Windows : win[w] = "loading" => outbox[w] = <<>>

Placed(t) ==
  /\ tab[t].win = None <=> tab[t].st \in {"off", "orphan"}
  /\ tab[t].win # None => win[tab[t].win] = "open"
  /\ tab[t].timer => tab[t].st = "closed"

CreateSent(t) == \E w \in Windows : Creates(outbox[w], t)
CloseSent(t) == \E w \in Windows : Holds(outbox[w], MsgOn("close", t))

Flight == {"jump", "dialing", "shell"}
Waits(t) == Awaiting(t) /\ reply[t] = "none"
HasAnswer(t) == Awaiting(t) /\ reply[t] = "ok"

(* A create request is the only one of its tab, and its tab waits for it.   *)
CreateInv(t) ==
  /\ \A w \in Windows : CreatesOnce(outbox[w], t)
  /\ \A v, w \in Windows : Creates(outbox[v], t) /\ Creates(outbox[w], t) => v = w
  /\ CreateSent(t) => link[t].st = "none" /\ (Waits(t) \/ tab[t].st = "orphan")
  /\ Awaiting(t) => \A w \in Windows : CreatesKind(outbox[w], t, tab[t].kind)

SessionInv(t) ==
  /\ reply[t] # "none" => Awaiting(t)
  /\ closeEvent[t] => link[t].st \in {"none", "stray"} /\ (tab[t].st = "open" \/ HasAnswer(t))
  /\ link[t].st \in Flight => Waits(t) \/ tab[t].st = "orphan"
  /\ Waits(t) => link[t].st \in Flight \cup {"none", "lost"}
  /\ reply[t] = "err" => link[t].st \in {"none", "leak"}
  /\ tab[t].st \notin {"off", "orphan"} /\ link[t].st # "none" => link[t].kind = tab[t].kind
  /\ (tab[t].st = "open" \/ HasAnswer(t)) /\ tab[t].kind = "term" /\ proto # "serial" =>
       link[t].st \in {"open", "ending"} \/ closeEvent[t]
  /\ link[t].st = "open" => tab[t].st \in {"open", "orphan"} \/ HasAnswer(t) \/ CloseSent(t)

TabInv(t) == Placed(t) /\ CreateInv(t) /\ SessionInv(t)

LiveIn(w) == \E t \in Tabs : tab[t].win = w /\ tab[t].kind = "term" /\ tab[t].st \in {"creating", "open"}
SomeOrphan == \E t \in Tabs : tab[t].st = "orphan"

ReportInv ==
  /\ \A w \in Windows : TakenBack(outbox[w]) \/ LiveIn(w) \/ SomeOrphan
  /\ status = "connected" =>
       (\E w \in Windows : LiveIn(w) \/ Reports(outbox[w])) \/ SomeOrphan

TerminalInv == TypeInv /\ WindowInv /\ (\A t \in Tabs : TabInv(t)) /\ ReportInv

-----------------------------------------------------------------------------
(* Queues *)

(* What a queue holds after more was sent: u is what was sent.              *)
LEMMA SentHolds ==
  ASSUME NEW s \in Seq(Request), NEW u \in Seq(Request)
  PROVE  /\ s \o u \in Seq(Request)
         /\ \A m : Holds(s \o u, m) <=> Holds(s, m) \/ Holds(u, m)
         /\ \A t : Creates(s \o u, t) <=> Creates(s, t) \/ Creates(u, t)
         /\ \A t, k : CreatesKind(s \o u, t, k) <=> CreatesKind(s, t, k) /\ CreatesKind(u, t, k)
         /\ Reports(s \o u) <=> Reports(s) \/ Reports(u)
<1>1. /\ s \o u \in Seq(Request) /\ Len(s) \in Nat /\ Len(u) \in Nat
      /\ Len(s \o u) = Len(s) + Len(u)
      /\ \A i \in 1..(Len(s) + Len(u)) :
           (s \o u)[i] = IF i <= Len(s) THEN s[i] ELSE u[i - Len(s)]
  BY ConcatProperties, LenProperties
<1>2. \A i \in 1..Len(s) : i \in 1..Len(s \o u) /\ (s \o u)[i] = s[i]
  BY <1>1
<1>3. \A i \in 1..Len(u) : i + Len(s) \in 1..Len(s \o u) /\ (s \o u)[i + Len(s)] = u[i]
  BY <1>1
<1>4. \A i \in 1..Len(s \o u) : \/ i \in 1..Len(s) /\ (s \o u)[i] = s[i]
                                \/ i - Len(s) \in 1..Len(u) /\ (s \o u)[i] = u[i - Len(s)]
  BY <1>1
<1>5. \A m : Holds(s \o u, m) <=> Holds(s, m) \/ Holds(u, m)
  BY <1>2, <1>3, <1>4 DEF Holds
<1>6. \A t : Creates(s \o u, t) <=> Creates(s, t) \/ Creates(u, t)
  BY <1>2, <1>3, <1>4 DEF Creates
<1>7. \A t, k : CreatesKind(s \o u, t, k) <=> CreatesKind(s, t, k) /\ CreatesKind(u, t, k)
  <2>1. ASSUME NEW t, NEW k, CreatesKind(s \o u, t, k)
        PROVE  CreatesKind(s, t, k) /\ CreatesKind(u, t, k)
    BY <1>2, <1>3, <2>1 DEF CreatesKind
  <2>2. ASSUME NEW t, NEW k, CreatesKind(s, t, k), CreatesKind(u, t, k)
        PROVE  CreatesKind(s \o u, t, k)
    BY <1>4, <2>2 DEF CreatesKind
  <2> QED
    BY <2>1, <2>2
<1>8. Reports(s \o u) <=> Reports(s) \/ Reports(u)
  <2>1. Reports(s) \/ Reports(u) => Reports(s \o u)
    BY <1>2, <1>3 DEF Reports
  <2>2. Reports(s \o u) => Reports(s) \/ Reports(u)
    BY <1>4 DEF Reports
  <2> QED
    BY <2>1, <2>2
<1> QED
  BY <1>1, <1>5, <1>6, <1>7, <1>8

(* The order of what was sent: a create request stays the only one, and a   *)
(* report of failure sent last takes every success back.                    *)
LEMMA SentOrder ==
  ASSUME NEW s \in Seq(Request), NEW u \in Seq(Request)
  PROVE  /\ \A t : CreatesOnce(s, t) /\ ~Creates(u, t) => CreatesOnce(s \o u, t)
         /\ \A t : ~Creates(s, t) /\ CreatesOnce(u, t) => CreatesOnce(s \o u, t)
         /\ TakenBack(s) /\ TakenBack(u) => TakenBack(s \o u)
         /\ u # <<>> /\ u[Len(u)].op = "down" => TakenBack(s \o u)
<1>1. /\ Len(s) \in Nat /\ Len(u) \in Nat /\ Len(s \o u) = Len(s) + Len(u)
      /\ \A i \in 1..(Len(s) + Len(u)) :
           (s \o u)[i] = IF i <= Len(s) THEN s[i] ELSE u[i - Len(s)]
  BY ConcatProperties, LenProperties
<1>2. \A i \in 1..Len(s \o u) : \/ i \in 1..Len(s) /\ (s \o u)[i] = s[i]
                                \/ i - Len(s) \in 1..Len(u) /\ (s \o u)[i] = u[i - Len(s)]
  BY <1>1
<1>3. \A t : CreatesOnce(s, t) /\ ~Creates(u, t) => CreatesOnce(s \o u, t)
  BY <1>2 DEF CreatesOnce, Creates
<1>4. \A t : ~Creates(s, t) /\ CreatesOnce(u, t) => CreatesOnce(s \o u, t)
  <2>1. \A i, j \in 1..Len(s \o u) : i - Len(s) = j - Len(s) => i = j
    BY <1>1
  <2> QED
    BY <1>2, <2>1 DEF CreatesOnce, Creates
<1>5. TakenBack(s) /\ TakenBack(u) => TakenBack(s \o u)
  <2> SUFFICES ASSUME TakenBack(s), TakenBack(u),
                      NEW i \in 1..Len(s \o u), (s \o u)[i].op = "up"
               PROVE  \E j \in (i + 1)..Len(s \o u) : (s \o u)[j].op = "down"
    BY DEF TakenBack
  <2>1. CASE i \in 1..Len(s) /\ (s \o u)[i] = s[i]
    <3>1. PICK j \in (i + 1)..Len(s) : s[j].op = "down"
      BY <2>1 DEF TakenBack
    <3>2. j \in (i + 1)..Len(s \o u) /\ (s \o u)[j] = s[j]
      BY <1>1, <2>1
    <3> QED
      BY <3>1, <3>2
  <2>2. CASE i - Len(s) \in 1..Len(u) /\ (s \o u)[i] = u[i - Len(s)]
    <3>1. PICK j \in ((i - Len(s)) + 1)..Len(u) : u[j].op = "down"
      BY <2>2 DEF TakenBack
    <3>2. /\ j + Len(s) \in (i + 1)..Len(s \o u) /\ (j + Len(s)) - Len(s) = j
          /\ (s \o u)[j + Len(s)] = u[j]
      BY <1>1, <2>2
    <3> QED
      BY <3>1, <3>2
  <2> QED
    BY <1>2, <2>1, <2>2
<1>6. ASSUME u # <<>>, u[Len(u)].op = "down" PROVE TakenBack(s \o u)
  <2>1. Len(u) > 0
    BY <1>1, <1>6, EmptySeq
  <2>2. Len(s) + Len(u) \in 1..Len(s \o u) /\ (s \o u)[Len(s) + Len(u)] = u[Len(u)]
    BY <1>1, <2>1
  <2>3. ASSUME NEW i \in 1..Len(s \o u), (s \o u)[i].op = "up"
        PROVE  Len(s) + Len(u) \in (i + 1)..Len(s \o u)
    BY <1>1, <1>6, <2>2, <2>3
  <2> QED
    BY <1>6, <2>2, <2>3 DEF TakenBack
<1> QED
  BY <1>3, <1>4, <1>5, <1>6

(* What it holds after its first request was taken.                         *)
LEMMA TakenHolds ==
  ASSUME NEW s \in Seq(Request), s # <<>>
  PROVE  /\ Tail(s) \in Seq(Request) /\ Head(s) \in Request
         /\ \A m : Holds(s, m) <=> Head(s) = m \/ Holds(Tail(s), m)
         /\ \A t : Creates(s, t) <=> IsCreate(Head(s), t) \/ Creates(Tail(s), t)
         /\ \A t, k : CreatesKind(s, t, k) =>
              CreatesKind(Tail(s), t, k) /\ (IsCreate(Head(s), t) => Head(s).op = k)
         /\ \A t : CreatesOnce(s, t) =>
              CreatesOnce(Tail(s), t) /\ (IsCreate(Head(s), t) => ~Creates(Tail(s), t))
         /\ Reports(s) <=> Head(s).op = "down" \/ Reports(Tail(s))
         /\ TakenBack(s) => TakenBack(Tail(s)) /\ (Head(s).op = "up" => Reports(Tail(s)))
<1>1. /\ Tail(s) \in Seq(Request) /\ Len(Tail(s)) = Len(s) - 1 /\ Len(s) \in Nat \ {0}
      /\ Head(s) = s[1] /\ Head(s) \in Request
      /\ \A i \in 1..Len(Tail(s)) : Tail(s)[i] = s[i + 1]
  BY HeadTailProperties, LenProperties, EmptySeq
<1>2. \A i \in 1..Len(Tail(s)) : i + 1 \in 1..Len(s) /\ i + 1 # 1 /\ Tail(s)[i] = s[i + 1]
  BY <1>1
<1>3. \A i \in 1..Len(s) : \/ i = 1 /\ s[i] = Head(s)
                           \/ i - 1 \in 1..Len(Tail(s)) /\ s[i] = Tail(s)[i - 1]
  BY <1>1
<1>4. 1 \in 1..Len(s) /\ s[1] = Head(s)
  BY <1>1
<1>5. \A m : Holds(s, m) <=> Head(s) = m \/ Holds(Tail(s), m)
  BY <1>2, <1>3, <1>4 DEF Holds
<1>6. \A t : Creates(s, t) <=> IsCreate(Head(s), t) \/ Creates(Tail(s), t)
  BY <1>2, <1>3, <1>4 DEF Creates
<1>7. \A t, k : CreatesKind(s, t, k) =>
        CreatesKind(Tail(s), t, k) /\ (IsCreate(Head(s), t) => Head(s).op = k)
  BY <1>2, <1>3, <1>4 DEF CreatesKind
<1>8. \A t : CreatesOnce(s, t) =>
        CreatesOnce(Tail(s), t) /\ (IsCreate(Head(s), t) => ~Creates(Tail(s), t))
  <2>1. \A i, j \in 1..Len(Tail(s)) : i + 1 = j + 1 => i = j
    BY <1>1
  <2> QED
    BY <1>2, <1>4, <2>1 DEF CreatesOnce, Creates
<1>9. Reports(s) <=> Head(s).op = "down" \/ Reports(Tail(s))
  BY <1>2, <1>3, <1>4 DEF Reports
<1>10. ASSUME TakenBack(s)
       PROVE  TakenBack(Tail(s)) /\ (Head(s).op = "up" => Reports(Tail(s)))
  <2>1. ASSUME NEW i \in 1..Len(s), NEW j \in (i + 1)..Len(s)
        PROVE  j - 1 \in i..Len(Tail(s)) /\ j - 1 \in 1..Len(Tail(s)) /\ Tail(s)[j - 1] = s[j]
    BY <1>1
  <2>2. TakenBack(Tail(s))
    BY <1>2, <1>10, <2>1 DEF TakenBack
  <2>3. Head(s).op = "up" => Reports(Tail(s))
    BY <1>4, <1>10, <2>1 DEF TakenBack, Reports
  <2> QED
    BY <2>2, <2>3
<1> QED
  BY <1>1, <1>5, <1>6, <1>7, <1>8, <1>9, <1>10

(* The queues pages send: none, one or two requests at a time.              *)
LEMMA NothingSent ==
  /\ <<>> \in Seq(Request)
  /\ \A t : ~Creates(<<>>, t) /\ CreatesOnce(<<>>, t) /\ \A k : CreatesKind(<<>>, t, k)
  /\ TakenBack(<<>>)
BY DEF Creates, CreatesOnce, CreatesKind, TakenBack

LEMMA OneSent ==
  ASSUME NEW m \in Request
  PROVE  /\ <<m>> \in Seq(Request) /\ Holds(<<m>>, m)
         /\ \A t : /\ Creates(<<m>>, t) <=> IsCreate(m, t)
                   /\ CreatesOnce(<<m>>, t)
                   /\ \A k : CreatesKind(<<m>>, t, k) <=> (IsCreate(m, t) => m.op = k)
         /\ Reports(<<m>>) <=> m.op = "down"
         /\ m.op # "up" => TakenBack(<<m>>)
         /\ m.op = "down" => <<m>> # <<>> /\ <<m>>[Len(<<m>>)].op = "down"
<1>1. Len(<<m>>) = 1 /\ <<m>>[1] = m /\ \A i \in 1..Len(<<m>>) : i = 1
  OBVIOUS
<1>2. 1 \in 1..Len(<<m>>) /\ <<m>> # <<>> /\ <<m>> \in Seq(Request)
  OBVIOUS
<1> QED
  BY <1>1, <1>2 DEF Holds, Creates, CreatesOnce, CreatesKind, Reports, TakenBack

LEMMA TwoSent ==
  ASSUME NEW m \in Request, NEW n \in Request
  PROVE  /\ <<m, n>> \in Seq(Request) /\ <<m, n>> = <<m>> \o <<n>>
         /\ <<m, n>> # <<>> /\ <<m, n>>[Len(<<m, n>>)] = n
<1>1. <<m, n>> \in Seq(Request) /\ Len(<<m, n>>) = 2 /\ <<m, n>>[2] = n
  OBVIOUS
<1>2. <<m>> \in Seq(Request) /\ <<n>> \in Seq(Request) /\ Len(<<m>>) = 1 /\ Len(<<n>>) = 1
  OBVIOUS
<1>3. <<m>> \o <<n>> \in Seq(Request) /\ Len(<<m>> \o <<n>>) = 2
  BY <1>2, ConcatProperties
<1>4. \A i \in 1..2 : (<<m>> \o <<n>>)[i] = <<m, n>>[i]
  <2>1. \A i \in 1..2 : i = 1 \/ i = 2
    OBVIOUS
  <2>2. (<<m>> \o <<n>>)[1] = m /\ (<<m>> \o <<n>>)[2] = n
    BY <1>2, ConcatProperties
  <2> QED
    BY <2>1, <2>2
<1>5. <<m, n>> = <<m>> \o <<n>>
  BY <1>1, <1>3, <1>4, SeqEqual
<1> QED
  BY <1>1, <1>5, EmptySeq

LEMMA RequestTypes ==
  /\ \A op \in {"term", "sftp", "close"}, t \in Tabs :
       MsgOn(op, t) \in Request /\ MsgOn(op, t).op = op /\ MsgOn(op, t).tab = t
  /\ \A op \in {"cancel", "up", "down"} :
       Msg(op) \in Request /\ Msg(op).op = op /\ Msg(op).tab = None
  /\ \A m \in Request : /\ m \in Message
                        /\ m.op \in {"term", "sftp", "close"} => m.tab \in Tabs
BY DEF MsgOn, Msg, Request, Message

(* A close or report request is no create request.                          *)
LEMMA NoCreate ==
  ASSUME NEW t
  PROVE  /\ \A x : ~IsCreate(MsgOn("close", x), t)
         /\ \A op \in {"cancel", "up", "down"} : ~IsCreate(Msg(op), t)
         /\ \A op \in {"term", "sftp"} : \A x : IsCreate(MsgOn(op, x), t) <=> x = t
BY DEF IsCreate, MsgOn, Msg

(* Window w sends u.                                                        *)
LEMMA SendsMore ==
  ASSUME TypeInv, NEW w \in Windows, NEW u \in Seq(Request),
         outbox' = [outbox EXCEPT ![w] = outbox[w] \o u]
  PROVE  /\ outbox' \in [Windows -> Seq(Message)]
         /\ \A v \in Windows : outbox'[v] \in Seq(Request)
         /\ \A t : CreateSent(t)' <=> CreateSent(t) \/ Creates(u, t)
         /\ \A t : CloseSent(t)' <=> CloseSent(t) \/ Holds(u, MsgOn("close", t))
         /\ \A t, k : (\A v \in Windows : CreatesKind(outbox[v], t, k)) /\ CreatesKind(u, t, k)
                        => \A v \in Windows : CreatesKind(outbox'[v], t, k)
         /\ outbox'[w] = outbox[w] \o u /\ \A v \in Windows \ {w} : outbox'[v] = outbox[v]
<1>1. outbox \in [Windows -> Seq(Message)] /\ \A v \in Windows : outbox[v] \in Seq(Request)
  BY DEF TypeInv, TermTypeOK
<1>2. outbox'[w] = outbox[w] \o u /\ \A v \in Windows \ {w} : outbox'[v] = outbox[v]
  BY <1>1
<1>3. \A v \in Windows : outbox'[v] \in Seq(Request)
  BY <1>1, <1>2, SentHolds
<1>4. outbox' \in [Windows -> Seq(Message)]
  <2>1. \A m \in Request : m \in Message
    BY RequestTypes
  <2>2. Seq(Request) \subseteq Seq(Message)
    BY <2>1, SeqMonotonic
  <2> QED
    BY <1>1, <1>3, <2>2
<1>5. \A t : CreateSent(t)' <=> CreateSent(t) \/ Creates(u, t)
  BY <1>1, <1>2, SentHolds DEF CreateSent
<1>6. \A t : CloseSent(t)' <=> CloseSent(t) \/ Holds(u, MsgOn("close", t))
  <2>1. ASSUME NEW t, NEW v \in Windows
        PROVE  Holds(outbox'[v], MsgOn("close", t)) <=>
                 Holds(outbox[v], MsgOn("close", t)) \/ (v = w /\ Holds(u, MsgOn("close", t)))
    BY <1>1, <1>2, SentHolds
  <2> QED
    BY <2>1 DEF CloseSent, MsgOn
<1>7. ASSUME NEW t, NEW k, \A v \in Windows : CreatesKind(outbox[v], t, k), CreatesKind(u, t, k)
      PROVE  \A v \in Windows : CreatesKind(outbox'[v], t, k)
  BY <1>1, <1>2, <1>7, SentHolds
<1> QED
  BY <1>2, <1>3, <1>4, <1>5, <1>6, <1>7

(* The main process takes the first request of window w.                    *)
LEMMA TakesOne ==
  ASSUME TypeInv, NEW w \in Windows, outbox[w] # <<>>, outbox' = [outbox EXCEPT ![w] = Tail(@)]
  PROVE  /\ outbox' \in [Windows -> Seq(Message)]
         /\ \A v \in Windows : outbox'[v] \in Seq(Request)
         /\ Head(outbox[w]) \in Request
         /\ \A t : CreateSent(t) <=> CreateSent(t)' \/ IsCreate(Head(outbox[w]), t)
         /\ \A t : CloseSent(t) <=> CloseSent(t)' \/ Head(outbox[w]) = MsgOn("close", t)
         /\ \A t, k : (\A v \in Windows : CreatesKind(outbox[v], t, k))
                        => /\ \A v \in Windows : CreatesKind(outbox'[v], t, k)
                           /\ IsCreate(Head(outbox[w]), t) => Head(outbox[w]).op = k
         /\ outbox'[w] = Tail(outbox[w]) /\ \A v \in Windows \ {w} : outbox'[v] = outbox[v]
<1>1. outbox \in [Windows -> Seq(Message)] /\ \A v \in Windows : outbox[v] \in Seq(Request)
  BY DEF TypeInv, TermTypeOK
<1>2. outbox'[w] = Tail(outbox[w]) /\ \A v \in Windows \ {w} : outbox'[v] = outbox[v]
  BY <1>1
<1>3. \A v \in Windows : outbox'[v] \in Seq(Request)
  BY <1>1, <1>2, TakenHolds
<1>4. outbox' \in [Windows -> Seq(Message)]
  <2>1. \A m \in Request : m \in Message
    BY RequestTypes
  <2>2. Seq(Request) \subseteq Seq(Message)
    BY <2>1, SeqMonotonic
  <2> QED
    BY <1>1, <1>3, <2>2
<1>5. \A t : CreateSent(t) <=> CreateSent(t)' \/ IsCreate(Head(outbox[w]), t)
  BY <1>1, <1>2, TakenHolds DEF CreateSent
<1>6. \A t : CloseSent(t) <=> CloseSent(t)' \/ Head(outbox[w]) = MsgOn("close", t)
  BY <1>1, <1>2, TakenHolds DEF CloseSent, MsgOn
<1>7. ASSUME NEW t, NEW k, \A v \in Windows : CreatesKind(outbox[v], t, k)
      PROVE  /\ \A v \in Windows : CreatesKind(outbox'[v], t, k)
             /\ IsCreate(Head(outbox[w]), t) => Head(outbox[w]).op = k
  BY <1>1, <1>2, <1>7, TakenHolds
<1>8. Head(outbox[w]) \in Request
  BY <1>1, TakenHolds
<1> QED
  BY <1>2, <1>3, <1>4, <1>5, <1>6, <1>7, <1>8

-----------------------------------------------------------------------------
(* What a step keeps, tab by tab and queue by queue                         *)

\* Window w sends u.
Sends(w, u) == outbox' = [outbox EXCEPT ![w] = outbox[w] \o u]

\* The request of t to create a session, if there is one, is still awaited.
StillAwaited(t) ==
  /\ link'[t].st = "none" /\ (Waits(t)' \/ tab'[t].st = "orphan")

LEMMA CreateStays ==
  ASSUME NEW t \in Tabs, CreateInv(t), outbox' = outbox,
         CreateSent(t) => StillAwaited(t),
         Awaiting(t)' => Awaiting(t) /\ tab'[t].kind = tab[t].kind
  PROVE  CreateInv(t)'
BY DEF CreateInv, CreateSent, StillAwaited

LEMMA CreateKept ==
  ASSUME TypeInv, NEW w \in Windows, NEW u \in Seq(Request), Sends(w, u),
         NEW t \in Tabs, CreateInv(t), ~Creates(u, t),
         CreateSent(t) => StillAwaited(t),
         Awaiting(t)' => Awaiting(t) /\ tab'[t].kind = tab[t].kind
  PROVE  CreateInv(t)'
<1>1. /\ CreateSent(t)' <=> CreateSent(t)
      /\ outbox'[w] = outbox[w] \o u /\ \A v \in Windows \ {w} : outbox'[v] = outbox[v]
      /\ outbox[w] \in Seq(Request)
  BY SendsMore DEF Sends, TypeInv
<1>2. \A v \in Windows : Creates(outbox'[v], t) <=> Creates(outbox[v], t)
  <2>1. Creates(outbox[w] \o u, t) <=> Creates(outbox[w], t)
    BY <1>1, SentHolds
  <2> QED
    BY <1>1, <2>1
<1>3. \A v \in Windows : CreatesOnce(outbox'[v], t)
  BY <1>1, SentOrder DEF CreateInv
<1>4. \A k : CreatesKind(u, t, k)
  BY DEF Creates, CreatesKind
<1>5. ASSUME Awaiting(t)' PROVE \A v \in Windows : CreatesKind(outbox'[v], t, tab'[t].kind)
  <2>1. \A v \in Windows : CreatesKind(outbox[v], t, tab'[t].kind)
    BY <1>5 DEF CreateInv
  <2>2. CreatesKind(outbox[w] \o u, t, tab'[t].kind)
    BY <1>1, <1>4, <2>1, SentHolds
  <2> QED
    BY <1>1, <2>1, <2>2
<1> QED
  BY <1>1, <1>2, <1>3, <1>5 DEF CreateInv, StillAwaited

LEMMA CreateAsked ==
  ASSUME TypeInv, NEW w \in Windows, NEW u \in Seq(Request), Sends(w, u),
         NEW t \in Tabs, ~CreateSent(t), CreatesOnce(u, t), StillAwaited(t),
         CreatesKind(u, t, tab'[t].kind)
  PROVE  CreateInv(t)'
<1>1. /\ outbox'[w] = outbox[w] \o u /\ \A v \in Windows \ {w} : outbox'[v] = outbox[v]
      /\ \A v \in Windows : outbox[v] \in Seq(Request)
  BY SendsMore DEF Sends, TypeInv
<1>2. \A v \in Windows : ~Creates(outbox[v], t)
  BY DEF CreateSent
<1>3. \A v \in Windows : Creates(outbox'[v], t) => v = w
  BY <1>1, <1>2
<1>4. \A v \in Windows : CreatesOnce(outbox'[v], t)
  <2>1. CreatesOnce(outbox'[w], t)
    BY <1>1, <1>2, SentOrder
  <2>2. \A v \in Windows \ {w} : CreatesOnce(outbox'[v], t)
    BY <1>1, <1>2 DEF CreatesOnce, Creates
  <2> QED
    BY <2>1, <2>2
<1>5. \A v \in Windows : CreatesKind(outbox'[v], t, tab'[t].kind)
  <2>1. \A v \in Windows : \A k : CreatesKind(outbox[v], t, k)
    BY <1>2 DEF CreatesKind, Creates
  <2>2. CreatesKind(outbox[w] \o u, t, tab'[t].kind)
    BY <1>1, <2>1, SentHolds
  <2> QED
    BY <1>1, <2>1, <2>2
<1> QED
  BY <1>3, <1>4, <1>5 DEF CreateInv, StillAwaited

LEMMA CreateTaken ==
  ASSUME TypeInv, NEW w \in Windows, outbox[w] # <<>>, outbox' = [outbox EXCEPT ![w] = Tail(@)],
         NEW t \in Tabs, CreateInv(t)
  PROVE  /\ IsCreate(Head(outbox[w]), t) => ~CreateSent(t)'
         /\ /\ CreateSent(t)' => StillAwaited(t)
            /\ Awaiting(t)' => Awaiting(t) /\ tab'[t].kind = tab[t].kind
            => CreateInv(t)'
<1>1. /\ outbox'[w] = Tail(outbox[w]) /\ \A v \in Windows \ {w} : outbox'[v] = outbox[v]
      /\ outbox[w] \in Seq(Request)
      /\ \A k : (\A v \in Windows : CreatesKind(outbox[v], t, k))
                  => \A v \in Windows : CreatesKind(outbox'[v], t, k)
  BY TakesOne DEF TypeInv
<1>2. \A v \in Windows : Creates(outbox'[v], t) => Creates(outbox[v], t)
  BY <1>1, TakenHolds
<1>3. \A v \in Windows : CreatesOnce(outbox'[v], t)
  BY <1>1, TakenHolds DEF CreateInv
<1>4. ASSUME IsCreate(Head(outbox[w]), t) PROVE ~CreateSent(t)'
  <2>1. Creates(outbox[w], t) /\ ~Creates(outbox'[w], t)
    BY <1>1, <1>4, TakenHolds DEF CreateInv
  <2>2. \A v \in Windows \ {w} : ~Creates(outbox'[v], t)
    BY <1>2, <2>1 DEF CreateInv
  <2> QED
    BY <2>1, <2>2 DEF CreateSent
<1>5. ASSUME CreateSent(t)' => StillAwaited(t),
             Awaiting(t)' => Awaiting(t) /\ tab'[t].kind = tab[t].kind
      PROVE  CreateInv(t)'
  <2>1. Awaiting(t)' => \A v \in Windows : CreatesKind(outbox'[v], t, tab'[t].kind)
    BY <1>1, <1>5 DEF CreateInv
  <2> QED
    BY <1>2, <1>3, <1>5, <2>1 DEF CreateInv, StillAwaited
<1> QED
  BY <1>4, <1>5

-----------------------------------------------------------------------------
(* The events of a session                                                  *)

(* An event of the session of t changes what the main process holds and     *)
(* what it tells the tab, and nothing else.                                 *)
Event(t) ==
  /\ link[t].st # "none"
  /\ UNCHANGED <<confVars, mainVars, winVars>>
  /\ \A x \in Tabs \ {t} :
       link'[x] = link[x] /\ reply'[x] = reply[x] /\ closeEvent'[x] = closeEvent[x]

LEMMA EventKeeps ==
  ASSUME TerminalInv, NEW t \in Tabs, Event(t),
         link' \in [Tabs -> Link], reply' \in [Tabs -> {"none", "ok", "err"}],
         closeEvent' \in [Tabs -> BOOLEAN], SessionInv(t)'
  PROVE  TerminalInv'
<1> USE DEF Event, confVars, mainVars, winVars
<1>1. TypeInv'
  BY DEF TerminalInv, TypeInv, TermTypeOK
<1>2. WindowInv'
  BY DEF TerminalInv, WindowInv
<1>3. ASSUME NEW x \in Tabs PROVE TabInv(x)'
  <2>1. TabInv(x)
    BY DEF TerminalInv
  <2>2. Placed(x)'
    BY <2>1 DEF TabInv, Placed
  <2>3. CreateSent(x) => StillAwaited(x)
    BY <2>1 DEF TabInv, CreateInv, StillAwaited, Waits, Awaiting
  <2>4. CreateInv(x)'
    BY <2>1, <2>3, CreateStays DEF TabInv, Awaiting
  <2>5. SessionInv(x)'
    <3>1. CASE x = t
      BY <3>1
    <3>2. CASE x # t
      BY <2>1, <3>2 DEF TabInv, SessionInv, CloseSent, HasAnswer, Waits, Awaiting
    <3> QED
      BY <3>1, <3>2
  <2> QED
    BY <2>2, <2>4, <2>5 DEF TabInv
<1>4. ReportInv'
  BY DEF TerminalInv, ReportInv, LiveIn, SomeOrphan
<1> QED
  BY <1>1, <1>2, <1>3, <1>4 DEF TerminalInv

LEMMA Types ==
  ASSUME TypeInv, NEW t \in Tabs
  PROVE  /\ link \in [Tabs -> Link] /\ link[t] \in Link /\ NoLink \in Link
         /\ LeftOf(link[t]) \in Link /\ LeftOf(link[t]).st \in {"none", "leak"}
         /\ LeftOf(link[t]).st # "none" => LeftOf(link[t]).kind = link[t].kind
         /\ reply \in [Tabs -> {"none", "ok", "err"}] /\ closeEvent \in [Tabs -> BOOLEAN]
         /\ tab \in [Tabs -> Tab] /\ tab[t] \in Tab
BY DEF TypeInv, TermTypeOK, LeftOf, NoLink, Link

(* A client on its way gets further, or is gone without a word.             *)
LEMMA MovesOn ==
  ASSUME TerminalInv, NEW t \in Tabs, link[t].st \in Flight, NEW l \in Link,
         l.st \in Flight \cup {"lost"}, l.kind = link[t].kind, link' = [link EXCEPT ![t] = l],
         UNCHANGED <<confVars, mainVars, reply, closeEvent, winVars>>
  PROVE  TerminalInv'
<1>1. TypeInv /\ SessionInv(t)
  BY DEF TerminalInv, TabInv
<1>2. Event(t)
  BY <1>1, Types DEF Event, Flight
<1>3. link'[t] = l
  BY <1>1, Types
<1>4. SessionInv(t)'
  BY <1>1, <1>3 DEF SessionInv, CloseSent, HasAnswer, Waits, Awaiting, Flight, confVars, winVars
<1> QED
  BY <1>1, <1>2, <1>4, Types, EventKeeps

LEMMA OpensKeeps ==
  ASSUME TerminalInv, NEW t \in Tabs, link[t].st \in Flight, SessionOpens(t)
  PROVE  TerminalInv'
<1>1. TypeInv /\ SessionInv(t)
  BY DEF TerminalInv, TabInv
<1>2. Event(t)
  BY <1>1, Types DEF Event, SessionOpens, Answer, Flight
<1>3. /\ link' \in [Tabs -> Link] /\ reply' \in [Tabs -> {"none", "ok", "err"}]
      /\ link'[t].st = "open" /\ link'[t].kind = link[t].kind
      /\ reply'[t] = IF Awaiting(t) THEN "ok" ELSE reply[t]
  BY <1>1, Types DEF SessionOpens, Answer, Link
<1>4. SessionInv(t)'
  BY <1>1, <1>3 DEF SessionInv, CloseSent, HasAnswer, Waits, Awaiting, Flight,
                    SessionOpens, confVars, winVars
<1> QED
  BY <1>1, <1>2, <1>3, <1>4, Types, EventKeeps DEF SessionOpens

LEMMA FailsKeeps ==
  ASSUME TerminalInv, NEW t \in Tabs, link[t].st \in Flight, OpeningFails(t)
  PROVE  TerminalInv'
<1>1. TypeInv /\ SessionInv(t)
  BY DEF TerminalInv, TabInv
<1>2. Event(t)
  BY <1>1, Types DEF Event, OpeningFails, Answer, Flight
<1>3. /\ link' \in [Tabs -> Link] /\ reply' \in [Tabs -> {"none", "ok", "err"}]
      /\ link'[t] = LeftOf(link[t])
      /\ reply'[t] = IF Awaiting(t) THEN "err" ELSE reply[t]
  BY <1>1, Types DEF OpeningFails, Answer
<1>4. SessionInv(t)'
  BY <1>1, <1>3, Types DEF SessionInv, CloseSent, HasAnswer, Waits, Awaiting, Flight,
                    OpeningFails, confVars, winVars
<1> QED
  BY <1>1, <1>2, <1>3, <1>4, Types, EventKeeps DEF OpeningFails

LEMMA OverKeeps ==
  ASSUME TerminalInv, NEW t \in Tabs, link[t].st \in {"open", "ending", "stray"}, SessionOver(t)
  PROVE  TerminalInv'
<1>1. TypeInv /\ SessionInv(t)
  BY DEF TerminalInv, TabInv
<1>2. Event(t)
  BY <1>1, Types DEF Event, SessionOver, OnClose
<1>3. link' \in [Tabs -> Link] /\ link'[t].st = "none"
  BY <1>1, Types DEF SessionOver, NoLink
<1>4. closeEvent' \in [Tabs -> BOOLEAN]
  BY <1>1, Types DEF SessionOver, OnClose
<1>5. closeEvent'[t] = (tab[t].st \in {"creating", "cancelled", "open"})
  BY <1>1, Types DEF SessionOver, OnClose
<1>6. Awaiting(t) => HasAnswer(t)
  BY <1>1, Types DEF SessionInv, HasAnswer, Waits, Flight
<1>7. SessionInv(t)'
  BY <1>1, <1>3, <1>5, <1>6 DEF SessionInv, CloseSent, HasAnswer, Waits, Awaiting, Flight,
                          SessionOver, confVars, winVars
<1> QED
  BY <1>1, <1>2, <1>3, <1>4, <1>7, Types, EventKeeps DEF SessionOver

(* The session of t goes without a word to the tab: nothing is left of it,  *)
(* or what nothing refers to any more.                                      *)
LEMMA SilentKeeps ==
  ASSUME TerminalInv, NEW t \in Tabs, link[t].st \in {"open", "ending"},
         link[t].kind = "sftp" \/ proto = "serial",
         NEW l \in Link, l.st \in {"none", "stray", "leak"}, l.st # "none" => l.kind = link[t].kind,
         link' = [link EXCEPT ![t] = l],
         UNCHANGED <<confVars, mainVars, reply, winVars>>,
         closeEvent' = closeEvent \/ (l.st = "stray" /\ OnClose(t))
  PROVE  TerminalInv'
<1>1. TypeInv /\ SessionInv(t)
  BY DEF TerminalInv, TabInv
<1>2. Event(t)
  BY <1>1, Types DEF Event, OnClose
<1>3. link' \in [Tabs -> Link] /\ link'[t] = l
  BY <1>1, Types
<1>4. closeEvent' \in [Tabs -> BOOLEAN]
  <2>1. CASE closeEvent' = closeEvent
    BY <1>1, <2>1, Types
  <2>2. CASE OnClose(t)
    BY <1>1, <2>2, Types DEF OnClose
  <2> QED
    BY <2>1, <2>2
<1>5. \/ closeEvent'[t] = closeEvent[t]
      \/ l.st = "stray" /\ closeEvent'[t] = (tab[t].st \in {"creating", "cancelled", "open"})
  BY <1>1, Types DEF OnClose
<1>6. (Awaiting(t) => HasAnswer(t)) /\ ~closeEvent[t]
  BY <1>1, Types DEF SessionInv, HasAnswer, Waits, Flight
<1>7. tab[t].st \notin {"off", "orphan"} => tab[t].kind = "sftp" \/ proto = "serial"
  BY <1>1 DEF SessionInv
<1>8. SessionInv(t)'
  BY <1>1, <1>3, <1>5, <1>6, <1>7
     DEF SessionInv, CloseSent, HasAnswer, Waits, Awaiting, Flight, confVars, winVars
<1> QED
  BY <1>1, <1>2, <1>3, <1>4, <1>8, Types, EventKeeps

LEMMA EventStep ==
  ASSUME TerminalInv, SshNext \/ TelnetNext \/ SerialNext
  PROVE  TerminalInv'
<1>1. TypeInv
  BY DEF TerminalInv
<1>2. ASSUME NEW t \in Tabs, JumpOpens(t) \/ SshReady(t) \/ SshVanishes(t) PROVE TerminalInv'
  <2>1. \E l \in Link : /\ l.st \in Flight \cup {"lost"} /\ l.kind = link[t].kind
                        /\ link' = [link EXCEPT ![t] = l]
    <3>1. CASE JumpOpens(t)
      <4> DEFINE l == [link[t] EXCEPT !.st = "dialing", !.jump = TRUE]
      <4>1. l \in Link /\ l.st \in Flight /\ l.kind = link[t].kind
        BY <1>1, Types DEF Link, Flight
      <4> QED
        BY <3>1, <4>1 DEF JumpOpens
    <3>2. CASE SshReady(t)
      <4> DEFINE l == [link[t] EXCEPT !.st = "shell"]
      <4>1. l \in Link /\ l.st \in Flight /\ l.kind = link[t].kind
        BY <1>1, Types DEF Link, Flight
      <4> QED
        BY <1>1, <3>2, <4>1, Types DEF SshReady
    <3>3. CASE SshVanishes(t)
      <4> DEFINE l == [link[t] EXCEPT !.st = "lost"]
      <4>1. l \in Link /\ l.st = "lost" /\ l.kind = link[t].kind
        BY <1>1, Types DEF Link
      <4> QED
        BY <1>1, <3>3, <4>1, Types DEF SshVanishes
    <3> QED
      BY <1>2, <3>1, <3>2, <3>3
  <2> QED
    BY <1>2, <2>1, MovesOn DEF JumpOpens, SshReady, SshVanishes, Flight
<1>3. ASSUME NEW t \in Tabs, SshOpens(t) \/ TelnetOpens(t) \/ SerialOpens(t) PROVE TerminalInv'
  BY <1>3, OpensKeeps DEF SshOpens, TelnetOpens, SerialOpens, Flight
<1>4. ASSUME NEW t \in Tabs, JumpFails(t) \/ SshFails(t) \/ TelnetFails(t) \/ SerialFails(t)
      PROVE  TerminalInv'
  BY <1>4, FailsKeeps DEF JumpFails, SshFails, TelnetFails, SerialFails, Flight
<1>5. ASSUME NEW t \in Tabs,
             \/ SshCloses(t) \/ TelnetCloses(t) \/ SerialCloses(t)
             \/ SshEnds(t) /\ link[t].kind = "term"
      PROVE  TerminalInv'
  BY <1>5, OverKeeps DEF SshCloses, TelnetCloses, SerialCloses, SshEnds
<1>6. ASSUME NEW t \in Tabs, SftpErrs(t) \/ (SshEnds(t) /\ link[t].kind # "term")
      PROVE  TerminalInv'
  <2>1. /\ link[t].st \in {"open", "ending"} /\ link[t].kind = "sftp"
        /\ link' = [link EXCEPT ![t] = LeftOf(link[t])]
        /\ UNCHANGED <<confVars, mainVars, reply, closeEvent, winVars>>
    BY <1>1, <1>6, Types DEF SftpErrs, SshEnds, Link
  <2> QED
    BY <1>1, <2>1, Types, SilentKeeps
<1>7. ASSUME NEW t \in Tabs, SftpChannelCloses(t) \/ SerialErrs(t) PROVE TerminalInv'
  <2> DEFINE l == [link[t] EXCEPT !.st = "stray"]
  <2>1. l \in Link /\ l.st = "stray" /\ l.kind = link[t].kind
    BY <1>1, Types DEF Link
  <2>2. /\ link[t].st \in {"open", "ending"}
        /\ link[t].kind = "sftp" \/ proto = "serial"
        /\ UNCHANGED <<confVars, mainVars, reply, winVars>>
        /\ closeEvent' = closeEvent \/ OnClose(t)
    BY <1>7 DEF SftpChannelCloses, SerialErrs
  <2>3. link' = [link EXCEPT ![t] = l]
    BY <1>1, <1>7, Types DEF SftpChannelCloses, SerialErrs
  <2> QED
    BY <2>1, <2>2, <2>3, SilentKeeps
<1> QED
  BY <1>2, <1>3, <1>4, <1>5, <1>6, <1>7 DEF SshNext, TelnetNext, SerialNext

-----------------------------------------------------------------------------
(* What a page that sends u does to the tabs and reports                    *)

(* A tab the step leaves alone.                                             *)
LEMMA OtherTab ==
  ASSUME TypeInv, NEW w \in Windows, NEW u \in Seq(Request), Sends(w, u),
         NEW x \in Tabs, TabInv(x), ~Creates(u, x), proto' = proto,
         tab'[x] = tab[x], link'[x] = link[x], reply'[x] = reply[x], closeEvent'[x] = closeEvent[x],
         tab[x].win # None => win'[tab[x].win] = "open"
  PROVE  TabInv(x)'
<1>1. Placed(x)'
  BY DEF TabInv, Placed
<1>2. CreateSent(x) => StillAwaited(x)
  BY DEF TabInv, CreateInv, StillAwaited, Waits, Awaiting
<1>3. CreateInv(x)'
  BY <1>2, CreateKept DEF TabInv, Awaiting
<1>4. CloseSent(x) => CloseSent(x)'
  BY SendsMore DEF Sends
<1>5. SessionInv(x)'
  BY <1>4 DEF TabInv, SessionInv, HasAnswer, Waits, Awaiting
<1> QED
  BY <1>1, <1>3, <1>5 DEF TabInv

(* It misses no message meant for it.                                       *)
LEMMA NotDeaf ==
  ASSUME TypeInv, NEW x \in Tabs, TabInv(x), tab'[x] = tab[x], Deaf(tab')
  PROVE  reply'[x] = reply[x] /\ closeEvent'[x] = closeEvent[x]
<1>1. reply'[x] = reply[x]
  BY DEF Deaf, TabInv, SessionInv, Awaiting
<1>2. closeEvent[x] \in BOOLEAN
  BY Types
<1>3. closeEvent[x] => tab[x].st \in {"creating", "cancelled", "open"}
  BY DEF TabInv, SessionInv, HasAnswer, Awaiting
<1>4. closeEvent'[x] = closeEvent[x]
  BY <1>2, <1>3 DEF Deaf
<1> QED
  BY <1>1, <1>4

LEMMA DeafTypes ==
  ASSUME TypeInv, Deaf(tab')
  PROVE  /\ reply' \in [Tabs -> {"none", "ok", "err"}] /\ closeEvent' \in [Tabs -> BOOLEAN]
         /\ \A x \in Tabs : tab'[x].st \in {"off", "orphan"} => reply'[x] = "none" /\ ~closeEvent'[x]
<1>1. reply' \in [Tabs -> {"none", "ok", "err"}]
  BY DEF Deaf, TypeInv, TermTypeOK
<1>2. closeEvent' \in [Tabs -> BOOLEAN]
  BY DEF Deaf
<1>3. \A x \in Tabs : tab'[x].st \in {"off", "orphan"} => reply'[x] = "none"
  BY DEF Deaf
<1>4. \A x \in Tabs : tab'[x].st \in {"off", "orphan"} => ~closeEvent'[x]
  BY DEF Deaf
<1> QED
  BY <1>1, <1>2, <1>3, <1>4

(* A tab whose window closes over what it holds or asks for.                *)
LEMMA Orphaned ==
  ASSUME TypeInv, NEW w \in Windows, NEW u \in Seq(Request), Sends(w, u),
         NEW x \in Tabs, TabInv(x), tab'[x] = Orphan, link'[x] = link[x], Deaf(tab'),
         \/ ~Creates(u, x)
         \/ ~CreateSent(x) /\ CreatesOnce(u, x) /\ CreatesKind(u, x, "term") /\ link[x].st = "none"
  PROVE  TabInv(x)'
<1>1. tab'[x].st = "orphan" /\ tab'[x].win = None /\ ~tab'[x].timer
  BY DEF Orphan, NoTab
<1>2. reply'[x] = "none" /\ ~closeEvent'[x]
  BY <1>1, DeafTypes
<1>3. Placed(x)'
  BY <1>1 DEF Placed
<1>4. ASSUME ~Creates(u, x) PROVE CreateInv(x)'
  <2>1. CreateSent(x) => StillAwaited(x)
    BY <1>1 DEF TabInv, CreateInv, StillAwaited
  <2>2. ~Awaiting(x)'
    BY <1>1 DEF Awaiting
  <2> QED
    BY <1>4, <2>1, <2>2, CreateKept DEF TabInv
<1>5. ASSUME ~CreateSent(x), CreatesOnce(u, x), CreatesKind(u, x, "term"), link[x].st = "none"
      PROVE  CreateInv(x)'
  <2>1. StillAwaited(x) /\ tab'[x].kind = "term"
    BY <1>1, <1>5 DEF StillAwaited, Orphan, NoTab
  <2> QED
    BY <1>5, <2>1, CreateAsked
<1>6. SessionInv(x)'
  BY <1>1, <1>2 DEF SessionInv, HasAnswer, Waits, Awaiting
<1> QED
  BY <1>3, <1>4, <1>5, <1>6 DEF TabInv

(* A tab that goes: it waits for nothing, and the end of the session it     *)
(* showed has been asked for.                                               *)
LEMMA TabGone ==
  ASSUME TypeInv, NEW w \in Windows, NEW u \in Seq(Request), Sends(w, u),
         NEW x \in Tabs, TabInv(x), tab'[x] = NoTab, link'[x] = link[x],
         reply'[x] = "none", ~closeEvent'[x], ~Creates(u, x), ~Waits(x), tab[x].st # "orphan",
         link[x].st = "open" => CloseSent(x) \/ Holds(u, MsgOn("close", x))
  PROVE  TabInv(x)'
<1>1. tab'[x].st = "off" /\ tab'[x].win = None /\ ~tab'[x].timer
  BY DEF NoTab
<1>2. Placed(x)'
  BY <1>1 DEF Placed
<1>3. ~CreateSent(x)
  BY DEF TabInv, CreateInv
<1>4. CreateInv(x)'
  <2>1. ~Awaiting(x)'
    BY <1>1 DEF Awaiting
  <2> QED
    BY <1>3, <2>1, CreateKept DEF TabInv
<1>5. link[x].st = "open" => CloseSent(x)'
  BY SendsMore DEF Sends
<1>6. SessionInv(x)'
  BY <1>1, <1>5 DEF TabInv, SessionInv, HasAnswer, Waits, Awaiting
<1> QED
  BY <1>2, <1>4, <1>6 DEF TabInv

(* A tab of the window whose page goes away, and one of another window.     *)
LEMMA PageLeft ==
  ASSUME TypeInv, NEW w \in Windows, NEW u \in Seq(Request), Sends(w, u),
         NEW x \in Tabs, TabInv(x), NEW tabs, tabs[x] = tab[x], tab' = PageGone(w, tabs), Deaf(tab'),
         link' = link, proto' = proto, win' = [win EXCEPT ![w] = "none"], ~Creates(u, x)
  PROVE  TabInv(x)'
<1>1. CASE tab[x].win # w
  <2>1. tab'[x] = tab[x]
    BY <1>1 DEF PageGone
  <2>2. tab[x].win # None => win'[tab[x].win] = "open"
    BY <1>1, Types DEF TabInv, Placed, TypeInv, TermTypeOK, Tab
  <2> QED
    BY <2>1, <2>2, NotDeaf, OtherTab
<1>2. CASE tab[x].win = w /\ tab[x].st \in {"creating", "cancelled", "open"}
  <2>1. tab'[x] = Orphan
    BY <1>2 DEF PageGone
  <2> QED
    BY <2>1, Orphaned
<1>3. CASE tab[x].win = w /\ tab[x].st \notin {"creating", "cancelled", "open"}
  <2>1. tab'[x] = NoTab
    BY <1>3 DEF PageGone
  <2>2. reply'[x] = "none" /\ ~closeEvent'[x]
    BY <2>1, DeafTypes DEF NoTab
  <2>3. w # None
    BY TermAssumption
  <2>4. ~Waits(x) /\ tab[x].st # "orphan" /\ (link[x].st = "open" => CloseSent(x))
    BY <1>3, <2>3 DEF TabInv, Placed, SessionInv, HasAnswer, Waits, Awaiting
  <2> QED
    BY <2>1, <2>2, <2>4, TabGone
<1> QED
  BY <1>1, <1>2, <1>3

LEMMA PageTypes ==
  ASSUME NEW w \in Windows, NEW tabs \in [Tabs -> Tab]
  PROVE  /\ PageGone(w, tabs) \in [Tabs -> Tab]
         /\ \A x \in Tabs : tabs[x].win # w => PageGone(w, tabs)[x] = tabs[x]
         /\ \A x \in Tabs : tabs[x].win = w /\ tabs[x].st \in {"creating", "open"}
                              => PageGone(w, tabs)[x] = Orphan
<1>1. 0 \in 0..MaxAttempts
  BY TermAssumption
<1>2. NoTab \in Tab
  BY <1>1 DEF NoTab, Tab
<1>3. Orphan \in Tab
  BY <1>2 DEF Orphan, Tab
<1> QED
  BY <1>2, <1>3 DEF PageGone

(* A success that is reported is taken back by the last of the terminals.   *)
LEMMA ReportsKept ==
  ASSUME TypeInv, ReportInv, NEW w \in Windows, NEW u \in Seq(Request), Sends(w, u),
         status' = status, SomeOrphan => SomeOrphan',
         \A v \in Windows \ {w} : LiveIn(v) => LiveIn(v)' \/ SomeOrphan',
         \/ SomeOrphan' \/ LiveIn(w)'
         \/ ~LiveIn(w) /\ TakenBack(u)
         \/ u # <<>> /\ u[Len(u)].op = "down" /\ Reports(u)
  PROVE  ReportInv'
<1>1. /\ outbox'[w] = outbox[w] \o u /\ \A v \in Windows \ {w} : outbox'[v] = outbox[v]
      /\ outbox[w] \in Seq(Request)
  BY SendsMore DEF Sends, TypeInv
<1>2. CASE SomeOrphan'
  BY <1>2 DEF ReportInv
<1>3. CASE ~SomeOrphan'
  <2>1. TakenBack(outbox'[w]) \/ LiveIn(w)'
    BY <1>1, <1>3, SentOrder DEF ReportInv
  <2>2. \A v \in Windows \ {w} : TakenBack(outbox'[v]) \/ LiveIn(v)'
    BY <1>1, <1>3 DEF ReportInv
  <2>3. ASSUME status = "connected" PROVE \E v \in Windows : LiveIn(v)' \/ Reports(outbox'[v])
    <3>1. PICK v \in Windows : LiveIn(v) \/ Reports(outbox[v])
      BY <1>3, <2>3 DEF ReportInv
    <3>2. Reports(outbox'[w]) <=> Reports(outbox[w]) \/ Reports(u)
      BY <1>1, SentHolds
    <3>3. CASE v = w
      BY <1>1, <1>3, <3>1, <3>2, <3>3
    <3>4. CASE v # w
      BY <1>1, <1>3, <3>1, <3>4
    <3> QED
      BY <3>3, <3>4
  <2> QED
    BY <2>1, <2>2, <2>3 DEF ReportInv
<1> QED
  BY <1>2, <1>3

-----------------------------------------------------------------------------
(* The steps of the windows and their pages                                 *)

LEMMA PageStepTypes ==
  ASSUME TypeInv, NEW w \in Windows, NEW u \in Seq(Request), Sends(w, u),
         UNCHANGED <<confVars, mainVars>>,
         link' \in [Tabs -> Link], reply' \in [Tabs -> {"none", "ok", "err"}],
         closeEvent' \in [Tabs -> BOOLEAN], auto' \in [Windows -> BOOLEAN],
         win' \in [Windows -> {"none", "loading", "open"}], tab' \in [Tabs -> Tab]
  PROVE  TypeInv'
BY SendsMore DEF Sends, TypeInv, TermTypeOK, confVars, mainVars

LEMMA Unmentioned ==
  ASSUME TypeInv, NEW t \in Tabs, ~Mentioned(t)
  PROVE  ~CreateSent(t)
<1>1. \A w \in Windows : DOMAIN outbox[w] = 1..Len(outbox[w])
  BY LenProperties DEF TypeInv
<1> QED
  BY <1>1 DEF Mentioned, CreateSent, Creates, IsCreate

(* A window that sends only when it is open, and afterwards loads nothing.  *)
LEMMA LoadsNothing ==
  ASSUME TypeInv, WindowInv, NEW w \in Windows, NEW u \in Seq(Request), Sends(w, u),
         win'[w] # "loading", \A v \in Windows \ {w} : win'[v] = win[v]
  PROVE  WindowInv'
BY SendsMore DEF Sends, WindowInv

(* A free tab is made anew and asks for its session.                        *)
LEMMA NewTabKeeps ==
  ASSUME TerminalInv, NEW w \in Windows, NEW kind \in {"term", "sftp"}, NEW t \in Free,
         tab' = [tab EXCEPT ![t] = NewTab(w, kind)], link' = [link EXCEPT ![t] = NoLink],
         Sends(w, <<MsgOn(kind, t)>>), auto' = auto, win' = [win EXCEPT ![w] = "open"],
         UNCHANGED <<confVars, mainVars, reply, closeEvent>>
  PROVE  TerminalInv'
<1> DEFINE m == MsgOn(kind, t)
           u == <<m>>
<1>1. TypeInv /\ t \in Tabs /\ tab[t].st = "off" /\ ~CreateSent(t) /\ w # None
  BY Unmentioned, TermAssumption DEF TerminalInv, Free
<1>2. /\ m \in Request /\ u \in Seq(Request) /\ TakenBack(u)
      /\ \A x \in Tabs : (Creates(u, x) <=> x = t) /\ CreatesOnce(u, x)
      /\ CreatesKind(u, t, kind)
  <2>1. m \in Request /\ m.op = kind /\ m.tab = t
    BY <1>1, RequestTypes
  <2>2. \A x \in Tabs : IsCreate(m, x) <=> x = t
    BY <2>1 DEF IsCreate
  <2> QED
    BY <2>1, <2>2, OneSent
<1> HIDE DEF m, u
<1>3. Sends(w, u)
  BY DEF u, m
<1>4. /\ tab'[t].st = "creating" /\ tab'[t].win = w /\ tab'[t].kind = kind /\ ~tab'[t].timer
      /\ \A x \in Tabs \ {t} : tab'[x] = tab[x]
      /\ tab' \in [Tabs -> Tab]
  <2>1. NewTab(w, kind) \in Tab
    BY TermAssumption DEF NewTab, Tab
  <2> QED
    BY <1>1, <2>1, Types DEF NewTab
<1>5. /\ link'[t].st = "none" /\ link' \in [Tabs -> Link]
      /\ \A x \in Tabs \ {t} : link'[x] = link[x]
  BY <1>1, Types DEF NoLink
<1>6. win' \in [Windows -> {"none", "loading", "open"}] /\ auto' \in [Windows -> BOOLEAN]
      /\ win'[w] = "open" /\ \A v \in Windows \ {w} : win'[v] = win[v]
  BY <1>1 DEF TypeInv, TermTypeOK
<1>7. TypeInv'
  BY <1>1, <1>2, <1>3, <1>4, <1>5, <1>6, Types, PageStepTypes
<1>8. WindowInv'
  BY <1>1, <1>2, <1>3, <1>6, LoadsNothing DEF TerminalInv
<1>9. reply[t] = "none" /\ ~closeEvent[t]
  BY <1>1 DEF TerminalInv, TabInv, SessionInv, HasAnswer, Awaiting
<1>10. TabInv(t)'
  <2>1. Placed(t)'
    BY <1>1, <1>4, <1>6 DEF Placed
  <2>2. StillAwaited(t)
    BY <1>4, <1>5, <1>9 DEF StillAwaited, Waits, Awaiting
  <2>3. CreateInv(t)'
    BY <1>1, <1>2, <1>3, <1>4, <2>2, CreateAsked
  <2>4. SessionInv(t)'
    BY <1>4, <1>5, <1>9 DEF SessionInv, HasAnswer, Waits, Awaiting, Flight
  <2> QED
    BY <2>1, <2>3, <2>4 DEF TabInv
<1>11. ASSUME NEW x \in Tabs \ {t} PROVE TabInv(x)'
  <2>1. TabInv(x) /\ (tab[x].win # None => win'[tab[x].win] = "open")
    BY <1>1, <1>6, Types DEF TerminalInv, TabInv, Placed, Tab
  <2> QED
    BY <1>1, <1>2, <1>3, <1>4, <1>5, <2>1, OtherTab DEF confVars
<1>12. ReportInv'
  <2>1. SomeOrphan => SomeOrphan'
    BY <1>1, <1>4 DEF SomeOrphan
  <2>2. \A v \in Windows : LiveIn(v) => LiveIn(v)'
    BY <1>1, <1>4 DEF LiveIn
  <2> QED
    BY <1>1, <1>2, <1>3, <2>1, <2>2, ReportsKept DEF TerminalInv, mainVars
<1> QED
  BY <1>7, <1>8, <1>10, <1>11, <1>12 DEF TerminalInv

LEMMA OpensTab ==
  ASSUME TerminalInv, NEW w \in Windows
  PROVE  /\ WindowLoads(w) => TerminalInv'
         /\ \A kind \in {"term", "sftp"} : AddTab(w, kind) => TerminalInv'
<1>1. outbox \in [Windows -> Seq(Message)] /\ win \in [Windows -> {"none", "loading", "open"}]
      /\ outbox[w] \in Seq(Request)
  BY DEF TerminalInv, TypeInv, TermTypeOK
<1>2. ASSUME WindowLoads(w), source = "own" PROVE TerminalInv'
  <2>1. PICK t \in Free :
          /\ tab' = [tab EXCEPT ![t] = NewTab(w, "term")]
          /\ link' = [link EXCEPT ![t] = NoLink]
          /\ outbox' = [outbox EXCEPT ![w] = <<MsgOn("term", t)>>]
    BY <1>2 DEF WindowLoads
  <2>2. outbox[w] = <<>>
    BY <1>2 DEF WindowLoads, TerminalInv, WindowInv
  <2>3. outbox[w] \o <<MsgOn("term", t)>> = <<MsgOn("term", t)>>
    <3>1. t \in Tabs
      BY DEF Free
    <3>2. <<MsgOn("term", t)>> \in Seq(Request)
      BY <3>1, RequestTypes, OneSent
    <3> QED
      BY <2>2, <3>2, ConcatEmptySeq
  <2>4. Sends(w, <<MsgOn("term", t)>>)
    BY <2>1, <2>3 DEF Sends
  <2> QED
    BY <1>2, <2>1, <2>4, NewTabKeeps DEF WindowLoads
<1>3. ASSUME WindowLoads(w), source # "own" PROVE TerminalInv'
  <2>1. /\ win' = [win EXCEPT ![w] = "open"]
        /\ UNCHANGED <<confVars, mainVars, link, reply, closeEvent, outbox, auto, tab>>
    BY <1>3 DEF WindowLoads
  <2>2. TypeInv'
    BY <1>1, <2>1 DEF TerminalInv, TypeInv, TermTypeOK, confVars, mainVars
  <2>3. WindowInv'
    BY <1>1, <2>1 DEF TerminalInv, WindowInv
  <2>4. ASSUME NEW x \in Tabs PROVE TabInv(x)'
    <3>1. TabInv(x)
      BY DEF TerminalInv
    <3>2. Placed(x)'
      BY <1>1, <2>1, <3>1, Types DEF TerminalInv, TabInv, Placed, Tab
    <3> QED
      BY <2>1, <3>1, <3>2 DEF TabInv, CreateInv, SessionInv, CreateSent, CloseSent,
           HasAnswer, Waits, Awaiting, confVars
  <2>5. ReportInv'
    BY <2>1 DEF TerminalInv, ReportInv, LiveIn, SomeOrphan, mainVars
  <2> QED
    BY <2>2, <2>3, <2>4, <2>5 DEF TerminalInv
<1>4. ASSUME NEW kind \in {"term", "sftp"}, AddTab(w, kind) PROVE TerminalInv'
  <2>1. PICK t \in Free :
          /\ tab' = [tab EXCEPT ![t] = NewTab(w, kind)]
          /\ link' = [link EXCEPT ![t] = NoLink]
          /\ outbox' = [outbox EXCEPT ![w] = Append(@, MsgOn(kind, t))]
    BY <1>4 DEF AddTab
  <2>2. t \in Tabs /\ MsgOn(kind, t) \in Request
    BY RequestTypes DEF Free
  <2>3. Sends(w, <<MsgOn(kind, t)>>)
    BY <1>1, <2>1, <2>2, AppendIsConcat DEF Sends
  <2>4. win' = [win EXCEPT ![w] = "open"] /\ auto' = auto
    BY <1>1, <1>4 DEF AddTab, Calm
  <2> QED
    BY <1>4, <2>1, <2>3, <2>4, NewTabKeeps DEF AddTab
<1> QED
  BY <1>2, <1>3, <1>4

(* What closeTermTab and the reconnect timer ask for.                       *)
LEMMA CloseAsks ==
  ASSUME NEW t \in Tabs
  PROVE  LET c == MsgOn("close", t)
             d == Msg("down")
             n == Msg("cancel") IN
         /\ \A u \in {<<c>>, <<c, d>>, <<n, d>>, <<>>} :
              u \in Seq(Request) /\ \A x : ~Creates(u, x)
         /\ \A u \in {<<c>>, <<c, d>>} : Holds(u, c)
         /\ \A u \in {<<c, d>>, <<n, d>>} :
              u # <<>> /\ u[Len(u)].op = "down" /\ Reports(u)
         /\ \A u \in {<<c>>, <<>>} : TakenBack(u)
<1> DEFINE c == MsgOn("close", t)
           d == Msg("down")
           n == Msg("cancel")
<1>1. c \in Request /\ d \in Request /\ n \in Request /\ d.op = "down" /\ c.op = "close"
  BY RequestTypes
<1>2. \A x : ~IsCreate(c, x) /\ ~IsCreate(d, x) /\ ~IsCreate(n, x)
  BY NoCreate
<1> HIDE DEF c, d, n
<1>3. <<c>> \in Seq(Request) /\ <<d>> \in Seq(Request) /\ <<n>> \in Seq(Request)
  BY <1>1, OneSent
<1>4. /\ <<c, d>> \in Seq(Request) /\ <<c, d>> = <<c>> \o <<d>>
      /\ <<c, d>> # <<>> /\ <<c, d>>[Len(<<c, d>>)] = d
  BY <1>1, TwoSent
<1>5. /\ <<n, d>> \in Seq(Request) /\ <<n, d>> = <<n>> \o <<d>>
      /\ <<n, d>> # <<>> /\ <<n, d>>[Len(<<n, d>>)] = d
  BY <1>1, TwoSent
<1>6. \A x : ~Creates(<<c>>, x) /\ ~Creates(<<d>>, x) /\ ~Creates(<<n>>, x)
  BY <1>1, <1>2, OneSent
<1>7. \A x : ~Creates(<<c, d>>, x) /\ ~Creates(<<n, d>>, x)
  BY <1>3, <1>4, <1>5, <1>6, SentHolds
<1>8. Holds(<<c>>, c) /\ Holds(<<c, d>>, c)
  BY <1>1, <1>3, <1>4, OneSent, SentHolds
<1>9. Reports(<<c, d>>) /\ Reports(<<n, d>>)
  BY <1>1, <1>3, <1>4, <1>5, OneSent, SentHolds
<1>10. TakenBack(<<c>>)
  BY <1>1, OneSent
<1> QED
  BY <1>1, <1>3, <1>4, <1>5, <1>6, <1>7, <1>8, <1>9, <1>10, NothingSent DEF c, d, n

(* The window w closes, with the tab t in the state tabs[t] at the end.     *)
LEMMA PageCloses ==
  ASSUME TerminalInv, NEW w \in Windows, NEW u \in Seq(Request), Sends(w, u),
         NEW tabs \in [Tabs -> Tab], NEW gone \in SUBSET Tabs,
         \A x \in Tabs \ gone : tabs[x] = tab[x] /\ ~Creates(u, x),
         \A x \in gone : TabInv(x)' /\ tab[x].win = w,
         tab' = PageGone(w, tabs), Deaf(tab'), win' = [win EXCEPT ![w] = "none"],
         auto' = [auto EXCEPT ![w] = FALSE], UNCHANGED <<confVars, mainVars, link>>,
         \/ \E x \in Tabs : tabs[x].win = w /\ tabs[x].st \in {"creating", "open"}
         \/ ~LiveIn(w) /\ TakenBack(u)
         \/ u # <<>> /\ u[Len(u)].op = "down" /\ Reports(u)
  PROVE  TerminalInv'
<1>1. TypeInv /\ tab \in [Tabs -> Tab] /\ w # None
  BY TermAssumption DEF TerminalInv, TypeInv, TermTypeOK
<1>2. win \in [Windows -> {"none", "loading", "open"}] /\ auto \in [Windows -> BOOLEAN]
  BY <1>1 DEF TypeInv, TermTypeOK
<1>3. TypeInv'
  <2>1. /\ win' \in [Windows -> {"none", "loading", "open"}] /\ auto' \in [Windows -> BOOLEAN]
        /\ link' \in [Tabs -> Link]
    BY <1>1, <1>2 DEF TypeInv, TermTypeOK
  <2>2. tab' \in [Tabs -> Tab]
    BY PageTypes
  <2>3. reply' \in [Tabs -> {"none", "ok", "err"}] /\ closeEvent' \in [Tabs -> BOOLEAN]
    BY <1>1, DeafTypes
  <2> QED
    BY <1>1, <2>1, <2>2, <2>3, PageStepTypes
<1>4. WindowInv'
  BY <1>1, <1>2, LoadsNothing DEF TerminalInv
<1>5. ASSUME NEW x \in Tabs PROVE TabInv(x)'
  <2>1. CASE x \in gone
    BY <2>1
  <2>2. CASE x \notin gone
    BY <1>1, <2>2, PageLeft DEF TerminalInv, confVars
  <2> QED
    BY <2>1, <2>2
<1>6. ReportInv'
  <2>1. \A x \in Tabs : tab[x].win # w => tab'[x] = tab[x]
    BY PageTypes
  <2>2. SomeOrphan => SomeOrphan'
    BY <1>1, <2>1 DEF SomeOrphan, TerminalInv, TabInv, Placed
  <2>3. \A v \in Windows \ {w} : LiveIn(v) => LiveIn(v)'
    BY <2>1 DEF LiveIn
  <2>4. (\E x \in Tabs : tabs[x].win = w /\ tabs[x].st \in {"creating", "open"}) => SomeOrphan'
    BY PageTypes DEF SomeOrphan, Orphan, NoTab
  <2> QED
    BY <1>1, <2>2, <2>3, <2>4, ReportsKept DEF TerminalInv, mainVars
<1> QED
  BY <1>3, <1>4, <1>5, <1>6 DEF TerminalInv

LEMMA CloseWindowKeeps ==
  ASSUME TerminalInv, NEW w \in Windows, CloseWindow(w)
  PROVE  TerminalInv'
<1>1. outbox \in [Windows -> Seq(Message)] /\ outbox[w] \in Seq(Request) /\ tab \in [Tabs -> Tab]
  BY DEF TerminalInv, TypeInv, TermTypeOK
<1>2. Sends(w, <<>>)
  BY <1>1, ConcatEmptySeq DEF Sends, CloseWindow
<1>3. LiveIn(w) => \E x \in Tabs : tab[x].win = w /\ tab[x].st \in {"creating", "open"}
  BY DEF LiveIn
<1> DEFINE gone == {}
<1>4. /\ gone \in SUBSET Tabs /\ \A x \in gone : TabInv(x)' /\ tab[x].win = w
      /\ \A x \in Tabs \ gone : ~Creates(<<>>, x)
  BY NothingSent
<1> HIDE DEF gone
<1>5. /\ tab' = PageGone(w, tab) /\ Deaf(tab') /\ win' = [win EXCEPT ![w] = "none"]
      /\ auto' = [auto EXCEPT ![w] = FALSE] /\ UNCHANGED <<confVars, mainVars, link>>
  BY DEF CloseWindow
<1> QED
  BY <1>1, <1>2, <1>3, <1>4, <1>5, NothingSent, PageCloses

LEMMA CloseRequestsAre ==
  ASSUME NEW t \in Tabs, NEW u, u = CloseRequests(t)
  PROVE  /\ u \in Seq(Request) /\ \A x : ~Creates(u, x)
         /\ tab[t].st = "open" => Holds(u, MsgOn("close", t))
         /\ \/ u # <<>> /\ u[Len(u)].op = "down" /\ Reports(u)
            \/ /\ TakenBack(u)
               /\ tab[t].st \in {"creating", "open"} =>
                    /\ tab[t].st = "open"
                    /\ tab[t].kind # "term" \/ ~(LiveTerms(tab[t].win) \subseteq {t})
<1> DEFINE c == MsgOn("close", t)
           d == Msg("down")
           n == Msg("cancel")
<1>1. <<c>> \o <<d>> = <<c, d>> /\ <<c>> \o <<>> = <<c>>
  <2>1. c \in Request /\ d \in Request
    BY RequestTypes
  <2> HIDE DEF c, d
  <2>2. <<c>> \in Seq(Request)
    BY <2>1, OneSent
  <2> QED
    BY <2>1, <2>2, TwoSent, ConcatEmptySeq
<1>2. CASE tab[t].st = "open" /\ tab[t].kind = "term" /\ LiveTerms(tab[t].win) \subseteq {t}
  <2>1. u = <<c, d>>
    BY <1>1, <1>2 DEF CloseRequests
  <2> QED
    BY <2>1, CloseAsks
<1>3. CASE tab[t].st = "open" /\ ~(tab[t].kind = "term" /\ LiveTerms(tab[t].win) \subseteq {t})
  <2>1. u = <<c>>
    BY <1>1, <1>3 DEF CloseRequests
  <2> QED
    BY <1>3, <2>1, CloseAsks
<1>4. CASE tab[t].st = "creating"
  <2>1. u = <<n, d>>
    BY <1>4 DEF CloseRequests
  <2> QED
    BY <1>4, <2>1, CloseAsks
<1>5. CASE tab[t].st \notin {"creating", "open"}
  <2>1. u = <<>>
    BY <1>5 DEF CloseRequests
  <2> QED
    BY <1>5, <2>1, CloseAsks
<1> QED
  BY <1>2, <1>3, <1>4, <1>5

LEMMA CloseTabKeeps ==
  ASSUME TerminalInv, NEW w \in Windows, NEW t \in Tabs, CloseTab(w, t)
  PROVE  TerminalInv'
<1> DEFINE rest == [tab EXCEPT ![t] = Unlisted(t)]
           u == CloseRequests(t)
<1>1. /\ TypeInv /\ TabInv(t) /\ tab \in [Tabs -> Tab] /\ w # None
      /\ tab[t].win = w /\ tab[t].st \in {"creating", "open", "closed", "failed"}
      /\ win \in [Windows -> {"none", "loading", "open"}] /\ win[w] = "open"
  BY TermAssumption DEF TerminalInv, TypeInv, TermTypeOK, CloseTab, Listed, Calm
<1>2. /\ Sends(w, u) /\ Deaf(tab') /\ UNCHANGED <<confVars, mainVars, link>>
      /\ tab' = IF Listed(w) = {t} THEN PageGone(w, rest) ELSE rest
      /\ win' = IF Listed(w) = {t} THEN [win EXCEPT ![w] = "none"] ELSE win
      /\ auto' = IF Listed(w) = {t} THEN [auto EXCEPT ![w] = FALSE] ELSE auto
  BY DEF CloseTab, Sends
<1>3. /\ u \in Seq(Request) /\ \A x : ~Creates(u, x)
      /\ tab[t].st = "open" => Holds(u, MsgOn("close", t))
      /\ \/ u # <<>> /\ u[Len(u)].op = "down" /\ Reports(u)
         \/ /\ TakenBack(u)
            /\ tab[t].st \in {"creating", "open"} =>
                 /\ tab[t].st = "open"
                 /\ tab[t].kind # "term" \/ ~(LiveTerms(w) \subseteq {t})
  BY <1>1, CloseRequestsAre
<1>4. /\ rest \in [Tabs -> Tab] /\ \A x \in Tabs \ {t} : rest[x] = tab[x]
      /\ tab[t].st = "creating" =>
           /\ rest[t].st = "cancelled" /\ rest[t].win = w /\ rest[t].kind = tab[t].kind
           /\ rest[t].timer = tab[t].timer
      /\ tab[t].st # "creating" => rest[t] = NoTab
  <2>1. NoTab \in Tab /\ [tab[t] EXCEPT !.st = "cancelled"] \in Tab
    BY <1>1, TermAssumption DEF NoTab, Tab
  <2>2. [tab[t] EXCEPT !.st = "cancelled"].st = "cancelled"
    BY <1>1 DEF Tab
  <2> QED
    BY <1>1, <2>1, <2>2 DEF Unlisted, Tab
<1> HIDE DEF rest, u
<1>5. /\ LiveIn(w) <=> LiveTerms(w) # {}
      /\ LiveTerms(w) \subseteq Listed(w)
  BY DEF LiveIn, LiveTerms, Listed
<1>6. ASSUME tab'[t] = NoTab, tab[t].st # "creating" PROVE TabInv(t)'
  <2>1. reply'[t] = "none" /\ ~closeEvent'[t]
    BY <1>1, <1>2, <1>6, DeafTypes DEF NoTab
  <2>2. ~Waits(t) /\ tab[t].st # "orphan"
    BY <1>1, <1>6 DEF Waits, Awaiting
  <2>3. link[t].st = "open" => CloseSent(t) \/ Holds(u, MsgOn("close", t))
    BY <1>1, <1>3, <1>6 DEF TabInv, SessionInv, HasAnswer, Awaiting
  <2> QED
    BY <1>1, <1>2, <1>3, <1>6, <2>1, <2>2, <2>3, TabGone
<1>7. CASE Listed(w) = {t}
  <2>1. TabInv(t)'
    <3>1. CASE tab[t].st = "creating"
      <4>1. tab'[t] = Orphan
        BY <1>2, <1>4, <1>7, <3>1 DEF PageGone
      <4> QED
        BY <1>1, <1>2, <1>3, <4>1, Orphaned
    <3>2. CASE tab[t].st # "creating"
      <4>1. tab'[t] = NoTab
        <5>1. rest[t] = NoTab /\ rest[t].win # w
          BY <1>1, <1>4, <3>2 DEF NoTab
        <5> QED
          BY <1>2, <1>4, <1>7, <5>1, PageTypes
      <4> QED
        BY <1>6, <3>2, <4>1
    <3> QED
      BY <3>1, <3>2
  <2>2. ~LiveIn(w) \/ (u # <<>> /\ u[Len(u)].op = "down" /\ Reports(u))
    BY <1>1, <1>3, <1>5, <1>7 DEF LiveTerms
  <2> DEFINE gone == {t}
  <2>3. /\ gone \in SUBSET Tabs
        /\ \A x \in Tabs \ gone : rest[x] = tab[x] /\ ~Creates(u, x)
        /\ \A x \in gone : TabInv(x)' /\ tab[x].win = w
    BY <1>1, <1>3, <1>4, <2>1
  <2> HIDE DEF gone
  <2> QED
    BY <1>2, <1>3, <1>4, <1>7, <2>2, <2>3, PageCloses
<1>8. CASE Listed(w) # {t}
  <2>1. tab' = rest /\ win' = win /\ auto' = auto
    BY <1>2, <1>8
  <2>2. TypeInv'
    BY <1>1, <1>2, <1>3, <1>4, <2>1, DeafTypes, PageStepTypes DEF TypeInv, TermTypeOK
  <2>3. WindowInv'
    BY <1>1, <1>2, <1>3, <2>1, LoadsNothing DEF TerminalInv
  <2>4. TabInv(t)'
    <3>1. CASE tab[t].st = "creating"
      <4>1. /\ tab'[t].st = "cancelled" /\ tab'[t].win = w /\ tab'[t].kind = tab[t].kind
            /\ ~tab'[t].timer
        BY <1>1, <1>4, <2>1, <3>1 DEF TabInv, Placed
      <4>2. Awaiting(t) /\ Awaiting(t)'
        BY <3>1, <4>1 DEF Awaiting
      <4>3. reply'[t] = reply[t] /\ (closeEvent'[t] => closeEvent[t])
        BY <1>1, <1>2, <4>1 DEF Deaf
      <4>4. Placed(t)'
        BY <1>1, <2>1, <4>1 DEF Placed
      <4>5. CreateSent(t) => StillAwaited(t)
        BY <1>1, <1>2, <3>1, <4>2, <4>3 DEF TabInv, CreateInv, StillAwaited, Waits
      <4>6. CreateInv(t)'
        BY <1>1, <1>2, <1>3, <4>1, <4>2, <4>5, CreateKept DEF TabInv
      <4>7. CloseSent(t) => CloseSent(t)'
        BY <1>1, <1>2, <1>3, SendsMore DEF Sends
      <4>8. HasAnswer(t) => closeEvent'[t] = closeEvent[t]
        BY <1>1, <1>2, <4>1, Types DEF Deaf
      <4>9. SessionInv(t)'
        BY <1>1, <1>2, <3>1, <4>1, <4>2, <4>3, <4>7, <4>8
           DEF TabInv, SessionInv, HasAnswer, Waits, confVars
      <4> QED
        BY <4>4, <4>6, <4>9 DEF TabInv
    <3>2. CASE tab[t].st # "creating"
      BY <1>4, <1>6, <2>1, <3>2
    <3> QED
      BY <3>1, <3>2
  <2>5. ASSUME NEW x \in Tabs \ {t} PROVE TabInv(x)'
    <3>1. TabInv(x) /\ tab'[x] = tab[x] /\ (tab[x].win # None => win'[tab[x].win] = "open")
      BY <1>4, <2>1 DEF TerminalInv, TabInv, Placed
    <3>2. reply'[x] = reply[x] /\ closeEvent'[x] = closeEvent[x]
      BY <1>1, <1>2, <3>1, NotDeaf
    <3> QED
      BY <1>1, <1>2, <1>3, <3>1, <3>2, OtherTab DEF confVars
  <2>6. ReportInv'
    <3>1. \A x \in Tabs \ {t} : tab'[x] = tab[x]
      BY <1>4, <2>1
    <3>2. SomeOrphan => SomeOrphan'
      BY <1>1, <3>1 DEF SomeOrphan
    <3>3. \A v \in Windows \ {w} : LiveIn(v) => LiveIn(v)'
      BY <1>1, <3>1 DEF LiveIn
    <3>4. \/ LiveIn(w)'
          \/ ~LiveIn(w) /\ TakenBack(u)
          \/ u # <<>> /\ u[Len(u)].op = "down" /\ Reports(u)
      <4>1. (\E x \in LiveTerms(w) : x # t) => LiveIn(w)'
        BY <3>1 DEF LiveTerms, Listed, LiveIn
      <4> QED
        BY <1>1, <1>3, <1>5, <4>1 DEF LiveTerms
    <3> QED
      BY <1>1, <1>2, <1>3, <3>2, <3>3, <3>4, ReportsKept DEF TerminalInv, mainVars
  <2> QED
    BY <2>2, <2>3, <2>4, <2>5, <2>6 DEF TerminalInv
<1> QED
  BY <1>7, <1>8

(* Requests that create a terminal session for t, if any.                   *)
Asks(u, t) ==
  /\ u \in Seq(Request)
  /\ \A x \in Tabs \ {t} : ~Creates(u, x)
  /\ CreatesOnce(u, t) /\ CreatesKind(u, t, "term")

LEMMA AsksOnce ==
  ASSUME NEW t \in Tabs
  PROVE  Asks(<<>>, t) /\ Asks(<<MsgOn("term", t)>>, t)
<1> DEFINE m == MsgOn("term", t)
<1>1. m \in Request /\ m.op = "term" /\ m.tab = t
  BY RequestTypes
<1>2. \A x \in Tabs \ {t} : ~IsCreate(m, x)
  BY <1>1 DEF IsCreate
<1> HIDE DEF m
<1>3. Asks(<<m>>, t)
  BY <1>1, <1>2, OneSent DEF Asks
<1> QED
  BY <1>3, NothingSent DEF Asks, m

LEMMA AsksAfter ==
  ASSUME NEW t \in Tabs, NEW requests \in Seq(Request), \A x : ~Creates(requests, x),
         NEW sent, Asks(sent, t)
  PROVE  Asks(requests \o sent, t)
<1> DEFINE u == requests \o sent
<1>1. \A x \in Tabs \ {t} : ~Creates(u, x)
  BY SentHolds DEF Asks
<1>2. CreatesOnce(u, t)
  BY SentOrder DEF Asks
<1>3. CreatesKind(u, t, "term")
  <2>1. CreatesKind(requests, t, "term")
    BY DEF CreatesKind, Creates
  <2> QED
    BY <2>1, SentHolds DEF Asks
<1>4. u \in Seq(Request)
  BY SentHolds DEF Asks
<1> QED
  BY <1>1, <1>2, <1>3, <1>4 DEF Asks

LEMMA SentInTwo ==
  ASSUME NEW s \in Seq(Request), NEW t \in Seq(Request), NEW u \in Seq(Request)
  PROVE  (s \o t) \o u = s \o (t \o u)
BY ConcatAssociative

LEMMA ReplaceKeeps ==
  ASSUME TerminalInv, NEW w \in Windows, NEW t \in Tabs,
         win[w] = "open", tab[t].win = w, tab[t].st = "closed",
         NEW requests \in Seq(Request), \A x : ~Creates(requests, x), Replace(w, t, requests)
  PROVE  TerminalInv'
<1> DEFINE fresh == [tab EXCEPT ![t] = NewTab(w, "term")]
<1>1. /\ TypeInv /\ TabInv(t) /\ tab \in [Tabs -> Tab] /\ w # None
      /\ win \in [Windows -> {"none", "loading", "open"}]
      /\ outbox[w] \in Seq(Request)
  BY TermAssumption DEF TerminalInv, TypeInv, TermTypeOK
<1>2. /\ fresh \in [Tabs -> Tab] /\ \A x \in Tabs \ {t} : fresh[x] = tab[x]
      /\ fresh[t].st = "creating" /\ fresh[t].win = w /\ fresh[t].kind = "term" /\ ~fresh[t].timer
  <2>1. NewTab(w, "term") \in Tab
    BY TermAssumption DEF NewTab, Tab
  <2> QED
    BY <1>1, <2>1 DEF NewTab
<1>3. link[t].st = "none" /\ ~CreateSent(t)
  BY <1>1, Unmentioned DEF Replace, NoLink
<1>4. UNCHANGED <<confVars, mainVars, link>>
  BY DEF Replace
<1>5. CASE Listed(w) = {t}
  <2>1. /\ tab' = PageGone(w, fresh) /\ Deaf(tab') /\ win' = [win EXCEPT ![w] = "none"]
        /\ auto' = [auto EXCEPT ![w] = FALSE]
    BY <1>5 DEF Replace
  <2>2. PICK sent \in {<<>>, <<MsgOn("term", t)>>} :
          outbox' = [outbox EXCEPT ![w] = (@ \o requests) \o sent]
    BY <1>5 DEF Replace
  <2> DEFINE u == requests \o sent
  <2>3. Asks(u, t) /\ (outbox[w] \o requests) \o sent = outbox[w] \o u
    <3>1. Asks(sent, t)
      BY AsksOnce
    <3>2. Asks(requests \o sent, t)
      BY <3>1, AsksAfter
    <3>3. (outbox[w] \o requests) \o sent = outbox[w] \o (requests \o sent)
      <4> DEFINE s == outbox[w]
      <4>1. s \in Seq(Request) /\ sent \in Seq(Request)
        BY <1>1, <3>1 DEF Asks
      <4> HIDE DEF s, fresh
      <4>2. (s \o requests) \o sent = s \o (requests \o sent)
        BY <4>1, SentInTwo
      <4> QED
        BY <4>2 DEF s
    <3> QED
      BY <3>2, <3>3
  <2>4. Sends(w, u)
    BY <1>1, <2>2, <2>3 DEF Sends
  <2> HIDE DEF u, fresh
  <2>5. /\ u \in Seq(Request) /\ \A x \in Tabs \ {t} : ~Creates(u, x)
        /\ CreatesOnce(u, t) /\ CreatesKind(u, t, "term")
    BY <2>3 DEF Asks
  <2>6. tab'[t] = Orphan
    BY <1>2, <2>1, PageTypes
  <2>7. TabInv(t)'
    BY <1>1, <1>3, <1>4, <2>1, <2>5, <2>4, <2>6, Orphaned
  <2> DEFINE gone == {t}
  <2>8. /\ gone \in SUBSET Tabs
        /\ \A x \in Tabs \ gone : fresh[x] = tab[x] /\ ~Creates(u, x)
        /\ \A x \in gone : TabInv(x)' /\ tab[x].win = w
    BY <1>2, <2>5, <2>7
  <2> HIDE DEF gone
  <2>9. \E x \in Tabs : fresh[x].win = w /\ fresh[x].st \in {"creating", "open"}
    BY <1>2
  <2> QED
    BY <1>2, <1>4, <2>1, <2>5, <2>4, <2>8, <2>9, PageCloses
<1>6. CASE Listed(w) # {t}
  <2> DEFINE sent == <<MsgOn("term", t)>>
             u == requests \o sent
  <2>1. /\ tab' = fresh /\ outbox' = [outbox EXCEPT ![w] = (@ \o requests) \o sent]
        /\ UNCHANGED <<win, auto, reply, closeEvent>>
    BY <1>6 DEF Replace
  <2>2. Asks(u, t) /\ (outbox[w] \o requests) \o sent = outbox[w] \o u
    <3> DEFINE s == outbox[w]
    <3>1. Asks(sent, t)
      BY AsksOnce
    <3>2. s \in Seq(Request) /\ sent \in Seq(Request)
      BY <1>1, <3>1 DEF Asks
    <3> HIDE DEF s, fresh, sent
    <3>3. Asks(requests \o sent, t)
      BY <3>1, AsksAfter
    <3>4. (s \o requests) \o sent = s \o (requests \o sent)
      BY <3>2, SentInTwo
    <3> QED
      BY <3>3, <3>4 DEF s
  <2>3. Sends(w, u)
    BY <1>1, <2>1, <2>2 DEF Sends
  <2> HIDE DEF u, fresh, sent
  <2>4. /\ u \in Seq(Request) /\ \A x \in Tabs \ {t} : ~Creates(u, x)
        /\ CreatesOnce(u, t) /\ CreatesKind(u, t, "term")
    BY <2>2 DEF Asks
  <2>5. TypeInv'
    BY <1>1, <1>2, <1>4, <2>1, <2>4, <2>3, PageStepTypes DEF TypeInv, TermTypeOK
  <2>6. WindowInv'
    BY <1>1, <2>1, <2>4, <2>3, LoadsNothing DEF TerminalInv
  <2>7. TabInv(t)'
    <3>1. reply[t] = "none" /\ ~closeEvent[t]
      BY <1>1 DEF TabInv, SessionInv, HasAnswer, Awaiting
    <3>2. Placed(t)'
      BY <1>1, <1>2, <2>1 DEF Placed
    <3>3. StillAwaited(t)
      BY <1>2, <1>3, <1>4, <2>1, <3>1 DEF StillAwaited, Waits, Awaiting
    <3>4. CreateInv(t)'
      BY <1>1, <1>2, <1>3, <2>1, <2>4, <2>3, <3>3, CreateAsked
    <3>5. SessionInv(t)'
      BY <1>2, <1>3, <1>4, <2>1, <3>1 DEF SessionInv, HasAnswer, Waits, Awaiting, Flight
    <3> QED
      BY <3>2, <3>4, <3>5 DEF TabInv
  <2>8. ASSUME NEW x \in Tabs \ {t} PROVE TabInv(x)'
    <3>1. TabInv(x) /\ tab'[x] = tab[x] /\ (tab[x].win # None => win'[tab[x].win] = "open")
      BY <1>2, <2>1 DEF TerminalInv, TabInv, Placed
    <3> QED
      BY <1>1, <1>4, <2>1, <2>4, <2>3, <3>1, OtherTab DEF confVars
  <2>9. ReportInv'
    <3>1. \A x \in Tabs \ {t} : tab'[x] = tab[x]
      BY <1>2, <2>1
    <3>2. SomeOrphan => SomeOrphan'
      BY <3>1 DEF SomeOrphan
    <3>3. \A v \in Windows \ {w} : LiveIn(v) => LiveIn(v)'
      BY <3>1 DEF LiveIn
    <3>4. LiveIn(w)'
      BY <1>2, <2>1 DEF LiveIn
    <3> QED
      BY <1>1, <1>4, <2>4, <2>3, <3>2, <3>3, <3>4, ReportsKept DEF TerminalInv, mainVars
  <2> QED
    BY <2>5, <2>6, <2>7, <2>8, <2>9 DEF TerminalInv
<1> QED
  BY <1>5, <1>6

LEMMA WindowStep ==
  ASSUME TerminalInv, WindowNext
  PROVE  TerminalInv'
<1>1. ASSUME NEW w \in Windows, NEW t \in Tabs, ReconnectButton(w, t) PROVE TerminalInv'
  <2>1. win[w] = "open" /\ tab[t].win = w /\ tab[t].st = "closed" /\ Replace(w, t, <<>>)
    BY <1>1 DEF ReconnectButton, Calm, Listed
  <2> QED
    BY <2>1, NothingSent, ReplaceKeeps
<1>2. ASSUME NEW w \in Windows, NEW t \in Tabs, TimerFires(w, t) PROVE TerminalInv'
  <2> DEFINE requests == <<Msg("cancel"), Msg("down")>>
  <2>1. win[w] = "open" /\ tab[t].win = w /\ tab[t].st = "closed" /\ Replace(w, t, requests)
    BY <1>2 DEF TimerFires, Calm, TerminalInv, TabInv, Placed
  <2>2. requests \in Seq(Request) /\ \A x : ~Creates(requests, x)
    BY CloseAsks
  <2> HIDE DEF requests
  <2> QED
    BY <2>1, <2>2, ReplaceKeeps
<1> QED
  BY <1>1, <1>2, OpensTab, CloseWindowKeeps, CloseTabKeeps DEF WindowNext

-----------------------------------------------------------------------------
(* What the page does with an answer or an event                            *)

(* The tab t of window w moves on to the record r, and w sends u.           *)
LEMMA TabMoves ==
  ASSUME TerminalInv, NEW w \in Windows, NEW t \in Tabs, tab[t].win = w,
         NEW u \in Seq(Request), Sends(w, u), \A x : ~Creates(u, x),
         NEW r \in Tab, tab' = [tab EXCEPT ![t] = r], tab[t].st # "orphan", TabInv(t)',
         UNCHANGED <<confVars, mainVars, link, win, auto>>,
         reply' \in [Tabs -> {"none", "ok", "err"}], closeEvent' \in [Tabs -> BOOLEAN],
         \A x \in Tabs \ {t} : reply'[x] = reply[x] /\ closeEvent'[x] = closeEvent[x],
         \/ TakenBack(u) /\ (LiveIn(w) => LiveIn(w)')
         \/ LiveIn(w)'
         \/ u # <<>> /\ u[Len(u)].op = "down" /\ Reports(u)
  PROVE  TerminalInv'
<1>1. TypeInv /\ tab \in [Tabs -> Tab] /\ w # None /\ win[w] = "open"
  BY TermAssumption DEF TerminalInv, TypeInv, TermTypeOK, TabInv, Placed
<1>2. tab' \in [Tabs -> Tab] /\ tab'[t] = r /\ \A x \in Tabs \ {t} : tab'[x] = tab[x]
  BY <1>1
<1>3. TypeInv'
  BY <1>1, <1>2, PageStepTypes DEF TypeInv, TermTypeOK
<1>4. WindowInv'
  BY <1>1, LoadsNothing DEF TerminalInv
<1>5. ASSUME NEW x \in Tabs \ {t} PROVE TabInv(x)'
  <2>1. TabInv(x) /\ tab'[x] = tab[x] /\ (tab[x].win # None => win'[tab[x].win] = "open")
    BY <1>2 DEF TerminalInv, TabInv, Placed
  <2> QED
    BY <1>1, <2>1, OtherTab DEF confVars
<1>6. ReportInv'
  <2>1. SomeOrphan => SomeOrphan'
    BY <1>2 DEF SomeOrphan
  <2>2. \A v \in Windows \ {w} : LiveIn(v) => LiveIn(v)'
    BY <1>2 DEF LiveIn
  <2> QED
    BY <1>1, <2>1, <2>2, ReportsKept DEF TerminalInv, mainVars
<1> QED
  BY <1>3, <1>4, <1>5, <1>6 DEF TerminalInv

LEMMA AfterCreateAre ==
  ASSUME NEW t \in Tabs, NEW ok \in BOOLEAN, NEW u, u = AfterCreate(t, ok)
  PROVE  /\ u \in Seq(Request) /\ \A x : ~Creates(u, x)
         /\ tab[t].st = "cancelled" /\ ok => Holds(u, MsgOn("close", t))
         /\ tab[t].st = "cancelled" \/ tab[t].kind = "sftp" => TakenBack(u)
         /\ tab[t].st # "cancelled" /\ tab[t].kind # "sftp" /\ ~ok
              => u # <<>> /\ u[Len(u)].op = "down" /\ Reports(u)
<1>1. CASE tab[t].st = "cancelled" \/ tab[t].kind = "sftp"
  <2>1. u = <<>> \/ (tab[t].st = "cancelled" /\ u = <<MsgOn("close", t)>>)
    BY <1>1 DEF AfterCreate
  <2>2. tab[t].st = "cancelled" /\ ok => u = <<MsgOn("close", t)>>
    BY DEF AfterCreate
  <2> QED
    BY <1>1, <2>1, <2>2, CloseAsks
<1>2. CASE tab[t].st # "cancelled" /\ tab[t].kind # "sftp"
  <2> DEFINE m == Msg(IF ok THEN "up" ELSE "down")
  <2>1. u = <<m>>
    BY <1>2 DEF AfterCreate
  <2>2. m \in Request /\ (~ok => m.op = "down")
    BY RequestTypes
  <2>3. \A x : ~IsCreate(m, x)
    BY NoCreate
  <2> HIDE DEF m
  <2> QED
    BY <1>2, <2>1, <2>2, <2>3, OneSent
<1> QED
  BY <1>1, <1>2

LEMMA CreateSettlesKeeps ==
  ASSUME TerminalInv, NEW t \in Tabs, CreateSettles(t)
  PROVE  TerminalInv'
<1> DEFINE ok == reply[t] = "ok"
           u == AfterCreate(t, ok)
           r == IF tab[t].st = "cancelled" THEN NoTab
                ELSE [tab[t] EXCEPT !.st = IF ok THEN "open" ELSE "failed"]
<1>1. /\ TypeInv /\ TabInv(t) /\ Awaiting(t) /\ ~Waits(t) /\ tab[t] \in Tab
      /\ tab \in [Tabs -> Tab] /\ tab[t].st # "orphan"
      /\ reply \in [Tabs -> {"none", "ok", "err"}] /\ closeEvent \in [Tabs -> BOOLEAN]
  BY Types DEF TerminalInv, TabInv, SessionInv, CreateSettles, Waits, Awaiting
<1>2. PICK w \in Windows : w = tab[t].win /\ win[w] = "open"
  BY <1>1 DEF TabInv, Placed, Awaiting, Tab
<1>3. /\ u \in Seq(Request) /\ \A x : ~Creates(u, x)
      /\ tab[t].st = "cancelled" /\ ok => Holds(u, MsgOn("close", t))
      /\ tab[t].st = "cancelled" \/ tab[t].kind = "sftp" => TakenBack(u)
      /\ tab[t].st # "cancelled" /\ tab[t].kind # "sftp" /\ ~ok
           => u # <<>> /\ u[Len(u)].op = "down" /\ Reports(u)
  BY AfterCreateAre
<1>4. Sends(w, u) /\ UNCHANGED <<confVars, mainVars, link, win, auto>>
  BY <1>2 DEF CreateSettles, Sends
<1>5. r \in Tab /\ tab' = [tab EXCEPT ![t] = r] /\ tab'[t] = r
  <2>1. NoTab \in Tab
    BY TermAssumption DEF NoTab, Tab
  <2> QED
    BY <1>1, <2>1 DEF CreateSettles, Tab
<1>6. /\ reply' \in [Tabs -> {"none", "ok", "err"}] /\ reply'[t] = "none"
      /\ closeEvent' \in [Tabs -> BOOLEAN]
      /\ \A x \in Tabs \ {t} : reply'[x] = reply[x] /\ closeEvent'[x] = closeEvent[x]
  BY <1>1 DEF CreateSettles
<1>7. closeEvent'[t] = (closeEvent[t] /\ r.st = "open")
  BY <1>1, <1>5 DEF CreateSettles
<1>8. CASE tab[t].st = "cancelled"
  <2>1. r = NoTab /\ ~closeEvent'[t]
    BY <1>7, <1>8 DEF NoTab
  <2>2. link[t].st = "open" => ok
    BY <1>1 DEF TabInv, SessionInv, Waits
  <2>3. TabInv(t)'
    BY <1>1, <1>2, <1>3, <1>4, <1>5, <1>6, <1>8, <2>1, <2>2, TabGone DEF confVars
  <2>4. LiveIn(w) => LiveIn(w)'
    BY <1>1, <1>2, <1>5, <1>8 DEF LiveIn
  <2> QED
    BY <1>1, <1>2, <1>3, <1>4, <1>5, <1>6, <1>8, <2>3, <2>4, TabMoves
<1>9. CASE tab[t].st # "cancelled"
  <2>1. /\ r.st = IF ok THEN "open" ELSE "failed"
        /\ r.win = w /\ r.kind = tab[t].kind /\ r.timer = tab[t].timer
    BY <1>1, <1>2, <1>9 DEF Tab
  <2>2. tab[t].st = "creating"
    BY <1>1, <1>9 DEF Awaiting
  <2>3. Placed(t)'
    BY <1>1, <1>2, <1>4, <1>5, <2>1, <2>2 DEF TabInv, Placed
  <2>4. ~CreateSent(t) /\ ~Awaiting(t)'
    BY <1>1, <1>5, <2>1 DEF TabInv, CreateInv, Awaiting
  <2>5. CreateInv(t)'
    BY <1>1, <1>2, <1>3, <1>4, <2>4, CreateKept DEF TabInv
  <2>6. SessionInv(t)'
    <3>1. CASE ok
      BY <1>1, <1>4, <1>5, <1>6, <1>7, <2>1, <3>1
         DEF TabInv, SessionInv, HasAnswer, Waits, Awaiting, Flight, confVars
    <3>2. CASE ~ok
      <4>1. link[t].st \in {"none", "leak"} /\ ~closeEvent'[t] /\ tab'[t].st = "failed"
        <5>1. reply[t] = "err"
          BY <1>1, <3>2 DEF CreateSettles
        <5>2. r.st = "failed"
          BY <2>1, <3>2
        <5>3. ~closeEvent'[t]
          BY <1>7, <5>2
        <5> QED
          BY <1>1, <1>5, <5>1, <5>2, <5>3 DEF TabInv, SessionInv
      <4> QED
        BY <1>1, <1>4, <1>5, <1>6, <2>1, <2>2, <4>1
           DEF TabInv, SessionInv, HasAnswer, Waits, Awaiting, Flight, confVars
    <3> QED
      BY <3>1, <3>2
  <2>7. TabInv(t)'
    BY <2>3, <2>5, <2>6 DEF TabInv
  <2>8. \/ TakenBack(u) /\ (LiveIn(w) => LiveIn(w)')
        \/ LiveIn(w)'
        \/ u # <<>> /\ u[Len(u)].op = "down" /\ Reports(u)
    <3>1. CASE tab[t].kind = "sftp"
      <4>1. LiveIn(w) => LiveIn(w)'
        BY <1>1, <1>2, <1>5, <2>1, <2>2, <3>1 DEF LiveIn
      <4> QED
        BY <1>3, <3>1, <4>1
    <3>2. CASE tab[t].kind # "sftp" /\ ok
      <4>1. tab'[t].win = w /\ tab'[t].kind = "term" /\ tab'[t].st = "open"
        BY <1>1, <1>2, <1>5, <2>1, <3>2 DEF Tab
      <4> QED
        BY <4>1 DEF LiveIn
    <3>3. CASE tab[t].kind # "sftp" /\ ~ok
      BY <1>3, <1>9, <3>3
    <3> QED
      BY <3>1, <3>2, <3>3
  <2> QED
    BY <1>1, <1>2, <1>3, <1>4, <1>5, <1>6, <2>7, <2>8, TabMoves
<1> QED
  BY <1>8, <1>9

LEMMA CloseSeenKeeps ==
  ASSUME TerminalInv, NEW t \in Tabs, CloseSeen(t)
  PROVE  TerminalInv'
<1>1. /\ TypeInv /\ TabInv(t) /\ tab[t] \in Tab /\ tab \in [Tabs -> Tab]
      /\ closeEvent[t] /\ reply[t] = "none" /\ tab[t].st = "open"
      /\ reply \in [Tabs -> {"none", "ok", "err"}] /\ closeEvent \in [Tabs -> BOOLEAN]
      /\ auto \in [Windows -> BOOLEAN]
  BY Types DEF TerminalInv, TypeInv, TermTypeOK, CloseSeen
<1>2. PICK w \in Windows : w = tab[t].win /\ win[w] = "open"
  BY <1>1 DEF TabInv, Placed, Tab
<1> DEFINE u == IF LiveTerms(w) \subseteq {t} THEN <<Msg("down")>> ELSE <<>>
           r == [tab[t] EXCEPT !.st = "closed", !.timer = Retries(t),
                               !.attempt = tab[t].attempt + IF Retries(t) THEN 1 ELSE 0]
<1>3. /\ Sends(w, u) /\ UNCHANGED <<confVars, mainVars, link, reply, win, auto>>
      /\ closeEvent' = [closeEvent EXCEPT ![t] = FALSE]
  BY <1>2 DEF CloseSeen, Sends
<1>4. tab' = [tab EXCEPT ![t] = r]
  BY <1>1 DEF CloseSeen
<1>5. /\ r \in Tab /\ r.st = "closed" /\ r.win = w /\ r.kind = tab[t].kind
  <2>1. Retries(t) \in BOOLEAN /\ (Retries(t) => tab[t].attempt < MaxAttempts)
    BY <1>1, <1>2 DEF Retries
  <2>2. tab[t].attempt + (IF Retries(t) THEN 1 ELSE 0) \in 0..MaxAttempts
    BY <1>1, <2>1, TermAssumption DEF Tab
  <2>3. \A b \in BOOLEAN, n \in 0..MaxAttempts :
          LET q == [tab[t] EXCEPT !.st = "closed", !.timer = b, !.attempt = n] IN
          q \in Tab /\ q.st = "closed" /\ q.win = tab[t].win /\ q.kind = tab[t].kind
    BY <1>1 DEF Tab
  <2> QED
    BY <1>2, <2>1, <2>2, <2>3
<1>6. /\ u \in Seq(Request) /\ \A x : ~Creates(u, x)
      /\ LiveTerms(w) \subseteq {t} => u # <<>> /\ u[Len(u)].op = "down" /\ Reports(u)
      /\ ~(LiveTerms(w) \subseteq {t}) => TakenBack(u)
  <2> DEFINE m == Msg("down")
  <2>1. m \in Request /\ m.op = "down" /\ \A x : ~IsCreate(m, x)
    BY RequestTypes, NoCreate
  <2> HIDE DEF m
  <2>2. u = IF LiveTerms(w) \subseteq {t} THEN <<m>> ELSE <<>>
    BY DEF m
  <2> HIDE DEF u
  <2> QED
    BY <2>1, <2>2, OneSent, NothingSent
<1> HIDE DEF u, r
<1>7. tab'[t] = r /\ closeEvent' \in [Tabs -> BOOLEAN] /\ ~closeEvent'[t]
      /\ \A x \in Tabs \ {t} : closeEvent'[x] = closeEvent[x] /\ tab'[x] = tab[x]
  BY <1>1, <1>3, <1>4
<1>8. TabInv(t)'
  <2>1. link[t].st \in {"none", "stray"}
    BY <1>1 DEF TabInv, SessionInv
  <2>2. Placed(t)'
    BY <1>2, <1>3, <1>5, <1>7, TermAssumption DEF Placed
  <2>3. ~CreateSent(t) /\ ~Awaiting(t)'
    BY <1>1, <1>5, <1>7 DEF TabInv, CreateInv, Waits, Awaiting
  <2>4. CreateInv(t)'
    BY <1>1, <1>3, <1>6, <2>3, CreateKept DEF TabInv
  <2>5. SessionInv(t)'
    BY <1>1, <1>3, <1>5, <1>7, <2>1
       DEF TabInv, SessionInv, HasAnswer, Waits, Awaiting, Flight, confVars
  <2> QED
    BY <2>2, <2>4, <2>5 DEF TabInv
<1>9. LiveIn(w)' \/ (u # <<>> /\ u[Len(u)].op = "down" /\ Reports(u))
  <2>1. ASSUME NEW x \in LiveTerms(w), x # t PROVE LiveIn(w)'
    BY <1>7, <2>1 DEF LiveIn, LiveTerms, Listed
  <2> QED
    BY <1>6, <2>1
<1> QED
  BY <1>1, <1>2, <1>3, <1>4, <1>5, <1>6, <1>7, <1>8, <1>9, TabMoves

LEMMA PageStep ==
  ASSUME TerminalInv, PageNext
  PROVE  TerminalInv'
<1>1. ASSUME SettingsSaved PROVE TerminalInv'
  <2>1. TypeInv'
    BY <1>1 DEF TerminalInv, TypeInv, TermTypeOK, SettingsSaved, confVars, mainVars
  <2>2. WindowInv'
    BY <1>1 DEF TerminalInv, WindowInv, SettingsSaved
  <2>3. \A t \in Tabs : TabInv(t)'
    BY <1>1 DEF TerminalInv, TabInv, Placed, CreateInv, SessionInv, CreateSent, CloseSent,
                HasAnswer, Waits, Awaiting, SettingsSaved, confVars
  <2>4. ReportInv'
    BY <1>1 DEF TerminalInv, ReportInv, LiveIn, SomeOrphan, SettingsSaved, mainVars
  <2> QED
    BY <2>1, <2>2, <2>3, <2>4 DEF TerminalInv
<1> QED
  BY <1>1, CreateSettlesKeeps, CloseSeenKeeps DEF PageNext

-----------------------------------------------------------------------------
(* The steps of the main process                                            *)

(* It takes the first request of w.                                         *)
LEMMA TakesKeeps ==
  ASSUME TerminalInv, NEW w \in Windows, NEW op, Takes(w, op),
         UNCHANGED <<confVars, closeEvent, win, auto, tab>>,
         source' = source, entry' \in {"none", "fresh", "stamped"},
         status' \in {"disconnected", "connecting", "connected"},
         status' = "connected" => op = "up" \/ (status = "connected" /\ op # "down"),
         link' \in [Tabs -> Link], reply' \in [Tabs -> {"none", "ok", "err"}],
         \A x \in Tabs : SessionInv(x)',
         \A x \in Tabs : CreateSent(x)' => link'[x] = link[x] /\ reply'[x] = reply[x]
  PROVE  TerminalInv'
<1>1. /\ TypeInv /\ outbox[w] # <<>> /\ Head(outbox[w]).op = op
      /\ outbox' = [outbox EXCEPT ![w] = Tail(@)]
  BY DEF TerminalInv, Takes
<1>2. /\ outbox' \in [Windows -> Seq(Message)] /\ \A v \in Windows : outbox'[v] \in Seq(Request)
      /\ \A t : CreateSent(t)' => CreateSent(t)
      /\ outbox'[w] = Tail(outbox[w]) /\ \A v \in Windows \ {w} : outbox'[v] = outbox[v]
      /\ outbox[w] \in Seq(Request)
  BY <1>1, TakesOne DEF TypeInv
<1>3. TypeInv'
  BY <1>1, <1>2 DEF TypeInv, TermTypeOK, confVars
<1>4. WindowInv'
  BY <1>1, <1>2 DEF TerminalInv, WindowInv
<1>5. ASSUME NEW x \in Tabs PROVE TabInv(x)'
  <2>1. Placed(x)'
    BY DEF TerminalInv, TabInv, Placed
  <2>2. CreateSent(x)' => StillAwaited(x)
    BY <1>2 DEF TerminalInv, TabInv, CreateInv, StillAwaited, Waits, Awaiting
  <2>3. CreateInv(x)'
    BY <1>1, <2>2, CreateTaken DEF TerminalInv, TabInv, Awaiting
  <2> QED
    BY <2>1, <2>3 DEF TabInv
<1>6. ReportInv'
  <2>1. /\ \A v \in Windows : LiveIn(v)' <=> LiveIn(v)
        /\ SomeOrphan' <=> SomeOrphan
    BY DEF LiveIn, SomeOrphan
  <2>2. /\ TakenBack(outbox[w]) => TakenBack(outbox'[w]) /\ (op = "up" => Reports(outbox'[w]))
        /\ Reports(outbox[w]) => op = "down" \/ Reports(outbox'[w])
    BY <1>1, <1>2, TakenHolds
  <2>3. \A v \in Windows : TakenBack(outbox'[v]) \/ LiveIn(v)' \/ SomeOrphan'
    BY <1>2, <2>1, <2>2 DEF TerminalInv, ReportInv
  <2>4. ASSUME status' = "connected"
        PROVE  (\E v \in Windows : LiveIn(v)' \/ Reports(outbox'[v])) \/ SomeOrphan'
    <3>1. CASE op = "up"
      BY <2>1, <2>2, <3>1 DEF TerminalInv, ReportInv
    <3>2. CASE op # "up"
      BY <1>2, <2>1, <2>2, <2>4, <3>2 DEF TerminalInv, ReportInv
    <3> QED
      BY <3>1, <3>2
  <2> QED
    BY <2>3, <2>4 DEF ReportInv
<1> QED
  BY <1>3, <1>4, <1>5, <1>6 DEF TerminalInv

(* The sessions a request says nothing of.                                  *)
LEMMA SessionLeft ==
  ASSUME TypeInv, NEW w \in Windows, NEW op, Takes(w, op), NEW x \in Tabs, SessionInv(x),
         UNCHANGED <<confVars, closeEvent, tab>>, link'[x] = link[x], reply'[x] = reply[x],
         op # "close" \/ Head(outbox[w]).tab # x
  PROVE  SessionInv(x)'
<1>1. outbox[w] # <<>> /\ Head(outbox[w]) # MsgOn("close", x)
  BY DEF Takes, MsgOn
<1>2. CloseSent(x) => CloseSent(x)'
  BY <1>1, TakesOne DEF Takes
<1> QED
  BY <1>2 DEF SessionInv, HasAnswer, Waits, Awaiting, confVars

LEMMA CreateSessionKeeps ==
  ASSUME TerminalInv, NEW w \in Windows, NEW kind \in {"term", "sftp"}, CreateSession(w, kind)
  PROVE  TerminalInv'
<1>1. /\ TypeInv /\ Takes(w, kind) /\ outbox[w] # <<>> /\ Head(outbox[w]).op = kind
      /\ outbox' = [outbox EXCEPT ![w] = Tail(@)]
      /\ UNCHANGED <<confVars, mainVars, closeEvent, win, auto, tab>>
  BY DEF TerminalInv, CreateSession, Takes
<1>2. /\ Head(outbox[w]) \in Request
      /\ \A x : CreateSent(x) <=> CreateSent(x)' \/ IsCreate(Head(outbox[w]), x)
  BY <1>1, TakesOne
<1>3. PICK t \in Tabs : t = Head(outbox[w]).tab /\ IsCreate(Head(outbox[w]), t)
  BY <1>1, <1>2, RequestTypes DEF IsCreate
<1>4. /\ TabInv(t) /\ link[t].st = "none" /\ (Waits(t) \/ tab[t].st = "orphan")
      /\ Awaiting(t) => kind = tab[t].kind
      /\ ~CreateSent(t)'
  <2>1. TabInv(t) /\ CreateSent(t)
    BY <1>2, <1>3 DEF TerminalInv
  <2>2. Awaiting(t) => \A v \in Windows : CreatesKind(outbox[v], t, tab[t].kind)
    BY <2>1 DEF TabInv, CreateInv
  <2>3. Awaiting(t) => kind = tab[t].kind
    <3>1. outbox[w] \in Seq(Request)
      BY <1>1 DEF TypeInv
    <3>2. \A k : CreatesKind(outbox[w], t, k) => Head(outbox[w]).op = k
      BY <1>1, <1>3, <3>1, TakenHolds
    <3> QED
      BY <1>1, <2>2, <3>2
  <2>4. ~CreateSent(t)'
    BY <1>1, <1>3, <2>1, CreateTaken DEF TabInv
  <2> QED
    BY <2>1, <2>3, <2>4 DEF TabInv, CreateInv
<1>5. link \in [Tabs -> Link] /\ reply \in [Tabs -> {"none", "ok", "err"}]
      /\ proto \in {"ssh", "telnet", "serial"} /\ hasJump \in BOOLEAN
  BY <1>1 DEF TypeInv, TermTypeOK
<1>6. CASE source = "own"
  <2>1. link' = [link EXCEPT ![t] = Dial(kind)] /\ reply' = reply
    BY <1>3, <1>6 DEF CreateSession
  <2>2. Dial(kind) \in Link /\ Dial(kind).st \in Flight /\ Dial(kind).kind = kind
    BY <1>5 DEF Dial, SshDial, TelnetDial, SerialDial, Link, Flight
  <2>3. link' \in [Tabs -> Link] /\ link'[t] = Dial(kind) /\ \A x \in Tabs \ {t} : link'[x] = link[x]
    BY <1>3, <1>5, <2>1, <2>2
  <2>4. SessionInv(t)'
    BY <1>1, <1>4, <2>1, <2>2, <2>3
       DEF TabInv, SessionInv, HasAnswer, Waits, Awaiting, Flight, confVars
  <2>5. \A x \in Tabs \ {t} : SessionInv(x)'
    BY <1>1, <2>1, <2>3, SessionLeft DEF TerminalInv, TabInv
  <2> QED
    BY <1>1, <1>4, <1>5, <2>1, <2>3, <2>4, <2>5, TakesKeeps DEF TypeInv, TermTypeOK, mainVars
<1>7. CASE source # "own"
  <2>1. link' = link /\ Answer(t, "err")
    BY <1>3, <1>7 DEF CreateSession
  <2>2. /\ reply' \in [Tabs -> {"none", "ok", "err"}]
        /\ reply'[t] = IF Awaiting(t) THEN "err" ELSE reply[t]
        /\ \A x \in Tabs \ {t} : reply'[x] = reply[x]
    BY <1>3, <1>5, <2>1 DEF Answer
  <2>3. SessionInv(t)'
    BY <1>1, <1>4, <2>1, <2>2
       DEF TabInv, SessionInv, HasAnswer, Waits, Awaiting, Flight, confVars
  <2>4. \A x \in Tabs \ {t} : SessionInv(x)'
    BY <1>1, <2>1, <2>2, SessionLeft DEF TerminalInv, TabInv
  <2> QED
    BY <1>1, <1>4, <1>5, <2>1, <2>2, <2>3, <2>4, TakesKeeps DEF TypeInv, TermTypeOK, mainVars
<1> QED
  BY <1>6, <1>7

(* An open session that is closed; its tab, if it still has one, is told.   *)
LEMMA ClosedKeeps ==
  ASSUME TypeInv, NEW x \in Tabs, SessionInv(x),
         link'[x] = Closed(link[x]), reply'[x] = reply[x],
         UNCHANGED <<confVars, closeEvent, tab>>,
         link[x].st # "open" /\ CloseSent(x) => CloseSent(x)'
  PROVE  SessionInv(x)'
<1>1. /\ proto \in {"ssh", "telnet", "serial"} /\ link[x] \in Link
  BY DEF TypeInv, TermTypeOK
<1>2. CASE link[x].st = "open"
  <2>1. link'[x].st = "ending" /\ link'[x].kind = link[x].kind
    BY <1>1, <1>2 DEF Closed, SshClosed, TelnetClosed, SerialClosed, Link
  <2> QED
    BY <1>2, <2>1 DEF SessionInv, HasAnswer, Waits, Awaiting, Flight, confVars
<1>3. CASE link[x].st # "open"
  <2>1. link'[x] = link[x]
    BY <1>1, <1>3 DEF Closed, SshClosed, TelnetClosed, SerialClosed
  <2> QED
    BY <1>3, <2>1 DEF SessionInv, HasAnswer, Waits, Awaiting, confVars
<1> QED
  BY <1>2, <1>3

LEMMA ClosedTypes ==
  ASSUME TypeInv, NEW x \in Tabs
  PROVE  Closed(link[x]) \in Link /\ (link[x].st = "none" => Closed(link[x]) = link[x])
<1>1. proto \in {"ssh", "telnet", "serial"} /\ link[x] \in Link
  BY DEF TypeInv, TermTypeOK
<1> QED
  BY <1>1 DEF Closed, SshClosed, TelnetClosed, SerialClosed, Link

LEMMA CloseSessionKeeps ==
  ASSUME TerminalInv, NEW w \in Windows, CloseSession(w)
  PROVE  TerminalInv'
<1>1. /\ TypeInv /\ Takes(w, "close") /\ outbox[w] # <<>> /\ Head(outbox[w]).op = "close"
      /\ outbox' = [outbox EXCEPT ![w] = Tail(@)]
      /\ UNCHANGED <<confVars, mainVars, reply, closeEvent, win, auto, tab>>
  BY DEF TerminalInv, CloseSession, Takes
<1>2. /\ Head(outbox[w]) \in Request
      /\ \A x : CreateSent(x)' => CreateSent(x)
  BY <1>1, TakesOne
<1>3. PICK t \in Tabs : t = Head(outbox[w]).tab
  BY <1>1, <1>2, RequestTypes
<1>4. link \in [Tabs -> Link] /\ reply \in [Tabs -> {"none", "ok", "err"}]
  BY <1>1 DEF TypeInv, TermTypeOK
<1>5. /\ link' \in [Tabs -> Link] /\ link'[t] = Closed(link[t])
      /\ \A x \in Tabs \ {t} : link'[x] = link[x]
  BY <1>1, <1>3, <1>4, ClosedTypes DEF CloseSession
<1>6. SessionInv(t)'
  <2>1. SessionInv(t)
    BY DEF TerminalInv, TabInv
  <2>2. CASE link[t].st = "open"
    BY <1>1, <1>5, <2>1, <2>2, ClosedKeeps
  <2>3. CASE link[t].st # "open"
    <3>1. link'[t].st # "open"
      BY <1>1, <1>4, <1>5, <2>3
         DEF Closed, SshClosed, TelnetClosed, SerialClosed, TypeInv, TermTypeOK
    <3>2. link'[t] = link[t]
      BY <1>1, <1>4, <1>5, <2>3
         DEF Closed, SshClosed, TelnetClosed, SerialClosed, TypeInv, TermTypeOK
    <3> QED
      BY <1>1, <2>1, <3>1, <3>2 DEF SessionInv, HasAnswer, Waits, Awaiting, confVars
  <2> QED
    BY <2>2, <2>3
<1>7. \A x \in Tabs \ {t} : SessionInv(x)'
  BY <1>1, <1>3, <1>5, SessionLeft DEF TerminalInv, TabInv
<1>8. \A x \in Tabs : CreateSent(x)' => link'[x] = link[x] /\ reply'[x] = reply[x]
  BY <1>1, <1>2, <1>5, ClosedTypes DEF TerminalInv, TabInv, CreateInv
<1> QED
  BY <1>1, <1>4, <1>5, <1>6, <1>7, <1>8, TakesKeeps DEF TypeInv, TermTypeOK, mainVars

(* The clients that are dialing are destroyed, and their promises are       *)
(* rejected or settle never.                                                *)
LEMMA CancelConnectKeeps ==
  ASSUME TerminalInv, NEW w \in Windows, CancelConnect(w)
  PROVE  TerminalInv'
<1>1. /\ TypeInv /\ Takes(w, "cancel") /\ outbox[w] # <<>> /\ Head(outbox[w]).op = "cancel"
      /\ outbox' = [outbox EXCEPT ![w] = Tail(@)]
      /\ UNCHANGED <<confVars, mainVars, closeEvent, win, auto, tab>> /\ CancelPending
  BY DEF TerminalInv, CancelConnect, Takes
<1>2. \A x : CreateSent(x)' => CreateSent(x)
  BY <1>1, TakesOne
<1>3. /\ link \in [Tabs -> Link] /\ reply \in [Tabs -> {"none", "ok", "err"}]
      /\ \A x \in Tabs : /\ LeftOf(link[x]) \in Link /\ LeftOf(link[x]).st \in {"none", "leak"}
                         /\ LeftOf(link[x]).st # "none" => LeftOf(link[x]).kind = link[x].kind
                         /\ [link[x] EXCEPT !.st = "lost"] \in Link
  <2>1. link \in [Tabs -> Link] /\ reply \in [Tabs -> {"none", "ok", "err"}]
    BY <1>1 DEF TypeInv, TermTypeOK
  <2>2. \A x \in Tabs : [link[x] EXCEPT !.st = "lost"] \in Link
    BY <2>1 DEF Link
  <2> QED
    BY <1>1, <2>1, <2>2, Types
<1>4. ASSUME NEW x \in Tabs
      PROVE  /\ link'[x] \in Link /\ reply'[x] \in {"none", "ok", "err"}
             /\ \/ link'[x] = link[x] /\ reply'[x] = reply[x]
                \/ /\ link[x].st = "dialing" /\ link'[x] = LeftOf(link[x])
                   /\ reply'[x] = IF Awaiting(x) THEN "err" ELSE reply[x]
                \/ /\ link[x].st = "dialing" /\ link'[x] = [link[x] EXCEPT !.st = "lost"]
                   /\ reply'[x] = reply[x]
  BY <1>1, <1>3 DEF CancelPending
<1>5. link' \in [Tabs -> Link] /\ reply' \in [Tabs -> {"none", "ok", "err"}]
  <2>1. link' = [x \in Tabs |-> link'[x]]
    BY <1>1 DEF CancelPending
  <2>2. reply' = [x \in Tabs |-> reply'[x]]
    BY <1>1, <1>3 DEF CancelPending
  <2> QED
    BY <1>4, <2>1, <2>2
<1>6. ASSUME NEW x \in Tabs PROVE SessionInv(x)'
  <2>1. SessionInv(x)
    BY DEF TerminalInv, TabInv
  <2>2. CASE link'[x] = link[x] /\ reply'[x] = reply[x]
    BY <1>1, <2>1, <2>2, SessionLeft
  <2>3. CASE /\ link[x].st = "dialing" /\ link'[x] = LeftOf(link[x])
             /\ reply'[x] = IF Awaiting(x) THEN "err" ELSE reply[x]
    BY <1>1, <1>3, <2>1, <2>3
       DEF SessionInv, HasAnswer, Waits, Awaiting, Flight, confVars
  <2>4. CASE /\ link[x].st = "dialing" /\ link'[x] = [link[x] EXCEPT !.st = "lost"]
             /\ reply'[x] = reply[x]
    <3>1. link'[x].st = "lost" /\ link'[x].kind = link[x].kind
      BY <1>3, <2>4 DEF Link
    <3> QED
      BY <1>1, <2>1, <2>4, <3>1
         DEF SessionInv, HasAnswer, Waits, Awaiting, Flight, confVars
  <2> QED
    BY <1>4, <2>2, <2>3, <2>4
<1>7. \A x \in Tabs : CreateSent(x)' => link'[x] = link[x] /\ reply'[x] = reply[x]
  BY <1>2, <1>4 DEF TerminalInv, TabInv, CreateInv
<1> QED
  BY <1>1, <1>5, <1>6, <1>7, TakesKeeps DEF TypeInv, TermTypeOK, mainVars

LEMMA ReportKeeps ==
  ASSUME TerminalInv, NEW w \in Windows, ReportUp(w) \/ ReportDown(w)
  PROVE  TerminalInv'
<1>1. PICK op \in {"up", "down"} :
        /\ Takes(w, op) /\ UNCHANGED <<confVars, source, link, reply, closeEvent, win, auto, tab>>
        /\ entry' \in {"none", "fresh", "stamped"}
        /\ status' \in {"disconnected", "connecting", "connected"}
        /\ status' = "connected" => op = "up"
  BY DEF TerminalInv, TypeInv, TermTypeOK, ReportUp, ReportDown
<1>2. TypeInv /\ link \in [Tabs -> Link] /\ reply \in [Tabs -> {"none", "ok", "err"}]
  BY DEF TerminalInv, TypeInv, TermTypeOK
<1>3. \A x \in Tabs : SessionInv(x)'
  BY <1>1, <1>2, SessionLeft DEF TerminalInv, TabInv
<1> QED
  BY <1>1, <1>2, <1>3, TakesKeeps

(* The program acts on the connection: nothing is taken from a window.      *)
LEMMA ConnectKeeps ==
  ASSUME TerminalInv, UNCHANGED <<confVars, reply, closeEvent, outbox, auto, tab>>,
         source' \in {"own", "managed", "deleted"}, entry' \in {"none", "fresh", "stamped"},
         status' \in {"disconnected", "connecting", "connected"},
         status' = "connected" => status = "connected",
         win' = win \/ \E w \in Windows : OpenWindow(w),
         \/ link' = link
         \/ link' = [t \in Tabs |-> Closed(link[t])]
  PROVE  TerminalInv'
<1>1. /\ TypeInv /\ win \in [Windows -> {"none", "loading", "open"}]
      /\ link \in [Tabs -> Link]
  BY DEF TerminalInv, TypeInv, TermTypeOK
<1>2. /\ win' \in [Windows -> {"none", "loading", "open"}]
      /\ \A w \in Windows : win[w] = "open" => win'[w] = "open"
      /\ \A w \in Windows : win'[w] = "loading" => win[w] = "loading" \/ outbox[w] = <<>>
  BY <1>1 DEF OpenWindow
<1>3. \A x \in Tabs : link'[x] = link[x] \/ link'[x] = Closed(link[x])
  BY <1>1
<1>4. link' \in [Tabs -> Link]
  BY <1>1, ClosedTypes
<1>5. TypeInv'
  BY <1>1, <1>2, <1>4 DEF TypeInv, TermTypeOK, confVars
<1>6. WindowInv'
  BY <1>2 DEF TerminalInv, WindowInv
<1>7. ASSUME NEW x \in Tabs PROVE TabInv(x)'
  <2>1. TabInv(x) /\ tab[x] \in Tab
    BY <1>1, Types DEF TerminalInv
  <2>2. Placed(x)'
    BY <1>2, <2>1 DEF TabInv, Placed, Tab
  <2>3. link[x].st = "none" => link'[x] = link[x]
    BY <1>1, <1>3, ClosedTypes
  <2>4. CreateSent(x) => StillAwaited(x)
    BY <2>1, <2>3 DEF TabInv, CreateInv, StillAwaited, Waits, Awaiting
  <2>5. CreateInv(x)'
    BY <2>1, <2>4, CreateStays DEF TabInv, Awaiting
  <2>6. CloseSent(x) => CloseSent(x)'
    BY DEF CloseSent
  <2>7. SessionInv(x)'
    <3>1. CASE link'[x] = link[x]
      BY <2>1, <2>6, <3>1 DEF TabInv, SessionInv, HasAnswer, Waits, Awaiting, confVars
    <3>2. CASE link'[x] = Closed(link[x])
      BY <1>1, <2>1, <2>6, <3>2, ClosedKeeps DEF TabInv
    <3> QED
      BY <1>3, <3>1, <3>2
  <2> QED
    BY <2>2, <2>5, <2>7 DEF TabInv
<1>8. ReportInv'
  BY DEF TerminalInv, ReportInv, LiveIn, SomeOrphan
<1> QED
  BY <1>5, <1>6, <1>7, <1>8 DEF TerminalInv

LEMMA MainStep ==
  ASSUME TerminalInv, MainNext
  PROVE  TerminalInv'
<1>1. /\ source \in {"own", "managed", "deleted"} /\ entry \in {"none", "fresh", "stamped"}
      /\ status \in {"disconnected", "connecting", "connected"}
  BY DEF TerminalInv, TypeInv, TermTypeOK
<1>2. ASSUME NEW w \in Windows, Handle(w) PROVE TerminalInv'
  BY <1>2, CreateSessionKeeps, CloseSessionKeeps, CancelConnectKeeps, ReportKeeps DEF Handle
<1>3. ASSUME NEW w \in Windows, Connect(w) \/ OpenTerminal(w) PROVE TerminalInv'
  BY <1>1, <1>3, ConnectKeeps DEF Connect, OpenTerminal, BeginConnect, mainVars
<1>4. ASSUME TrayConnect PROVE TerminalInv'
  BY <1>1, <1>4, ConnectKeeps DEF TrayConnect, BeginConnect
<1>5. ASSUME Disconnect PROVE TerminalInv'
  BY <1>1, <1>5, ConnectKeeps DEF Disconnect, winVars
<1>6. ASSUME Delete PROVE TerminalInv'
  BY <1>1, <1>6, ConnectKeeps DEF Delete, winVars
<1> QED
  BY <1>2, <1>3, <1>4, <1>5, <1>6 DEF MainNext

-----------------------------------------------------------------------------
(* The invariant, and the properties it carries                             *)

LEMMA InitKeeps == Init => TerminalInv
<1> SUFFICES ASSUME Init PROVE TerminalInv
  OBVIOUS
<1> USE DEF Init, TermInit
<1>1. 0 \in 0..MaxAttempts
  BY TermAssumption
<1>2. NoLink \in Link /\ NoTab \in Tab
  BY <1>1 DEF NoLink, Link, NoTab, Tab
<1>3. proto \in {"ssh", "telnet", "serial"} /\ hasJump \in BOOLEAN /\ source \in {"own", "managed"}
  BY TermAssumption
<1>4. \A w \in Windows : outbox[w] = <<>> /\ outbox[w] \in Seq(Request) /\ outbox[w] \in Seq(Message)
  BY NothingSent
<1>5. TypeInv
  BY <1>2, <1>3, <1>4 DEF TypeInv, TermTypeOK
<1>6. \A x \in Tabs : /\ tab[x].st = "off" /\ tab[x].win = None /\ ~tab[x].timer
                      /\ link[x].st = "none" /\ reply[x] = "none" /\ ~closeEvent[x]
  BY DEF NoTab, NoLink
<1>7. \A x \in Tabs : ~CreateSent(x) /\ \A w \in Windows : CreatesOnce(outbox[w], x)
  BY <1>4, NothingSent DEF CreateSent
<1>8. ASSUME NEW x \in Tabs PROVE TabInv(x)
  BY <1>6, <1>7 DEF TabInv, Placed, CreateInv, SessionInv, CreateSent, HasAnswer, Waits,
                    Awaiting, Flight
<1>9. ReportInv
  BY <1>4, NothingSent DEF ReportInv
<1> QED
  BY <1>4, <1>5, <1>8, <1>9 DEF TerminalInv, WindowInv

LEMMA StepKeeps == TerminalInv /\ [Next]_termVars => TerminalInv'
<1>1. ASSUME TerminalInv, Next PROVE TerminalInv'
  BY <1>1, WindowStep, PageStep, MainStep, EventStep DEF Next
<1>2. ASSUME TerminalInv, UNCHANGED termVars PROVE TerminalInv'
  <2> USE <1>2 DEF termVars, confVars, mainVars, winVars
  <2>1. TypeInv'
    BY DEF TerminalInv, TypeInv, TermTypeOK
  <2>2. WindowInv' /\ ReportInv'
    BY DEF TerminalInv, WindowInv, ReportInv, LiveIn, SomeOrphan
  <2>3. \A x \in Tabs : TabInv(x)'
    BY DEF TerminalInv, TabInv, Placed, CreateInv, SessionInv, CreateSent, CloseSent,
           HasAnswer, Waits, Awaiting
  <2> QED
    BY <2>1, <2>2, <2>3 DEF TerminalInv
<1> QED
  BY <1>1, <1>2

(* In every state the invariant above holds, whatever the order of the      *)
(* requests of the windows, the events of the sessions and the answers.     *)
THEOREM TerminalCorrect == Spec => []TerminalInv
BY InitKeeps, StepKeeps, PTL DEF Spec

LEMMA Implied ==
  ASSUME TerminalInv
  PROVE  TypeOK /\ SessionHasTab /\ OpenTabBacked /\ ConnectedBacked
<1>1. \A w \in Windows : DOMAIN outbox[w] = 1..Len(outbox[w])
  BY LenProperties DEF TerminalInv, TypeInv
<1>2. TypeOK
  BY DEF TerminalInv, TypeInv, TypeOK
<1>3. SessionHasTab
  BY <1>1 DEF TerminalInv, TabInv, SessionInv, SessionHasTab, HasAnswer, Awaiting, CloseSent, Holds
<1>4. OpenTabBacked
  BY DEF TerminalInv, TabInv, SessionInv, OpenTabBacked
<1>5. ConnectedBacked
  BY <1>1 DEF TerminalInv, ReportInv, ConnectedBacked, LiveIn, SomeOrphan, Reports
<1> QED
  BY <1>2, <1>3, <1>4, <1>5

(* Every variable keeps to its type: an attempt count never passes the      *)
(* limit, and every message is one the other side knows.                    *)
THEOREM TerminalTypesHold == Spec => []TypeOK
BY TerminalCorrect, Implied, PTL

(* No window loses a session (closeTermTab, addTermTab, initTerminalWindow):*)
(* one that is open is shown by a tab, will be announced to one, or its end *)
(* was asked for, unless the window was closed over it.                     *)
THEOREM SessionsHaveTabs == Spec => []SessionHasTab
BY TerminalCorrect, Implied, PTL

(* A terminal tab that shows an SSH or Telnet session has one, or is about  *)
(* to hear that it is over (onClose of the sessions).                       *)
THEOREM OpenTabsBacked == Spec => []OpenTabBacked
BY TerminalCorrect, Implied, PTL

(* A connection that counts as connected (ssh-report-status) has a terminal *)
(* tab, or a report to the contrary is on its way, unless a window was      *)
(* closed over its tabs.                                                    *)
THEOREM ConnectedTerminalsBacked == Spec => []ConnectedBacked
BY TerminalCorrect, Implied, PTL
=============================================================================
