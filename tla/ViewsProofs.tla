---------------------------- MODULE ViewsProofs ----------------------------
(***************************************************************************)
(* Proofs about Views, for any connections and any number of overlapping   *)
(* refreshes: with nothing under way the page shows main's statuses and    *)
(* every connection of the user.                                           *)
(***************************************************************************)
EXTENDS Views, Queues, FiniteSetTheorems

(* What can be under way, in both directions.                               *)
Question ==
  [who : Refreshes, what : {"own", "managed", "statuses"}, id : {NoId}]
    \cup [who : {"user"}, what : {"own", "save"}, id : {NoId}]
    \cup [who : {"user"}, what : {"delete"}, id : Ids]

Message ==
  [who : Refreshes \cup {"user"}, what : {"own"}, value : SUBSET Ids]
    \cup [who : Refreshes \cup {"all"}, what : {"managed"}, value : SUBSET Ids]
    \cup [who : Refreshes, what : {"statuses"}, value : [Ids -> Status]]
    \cup [who : {"all"}, what : {"status"}, value : Ids \X Status]
    \cup [who : {"all"}, what : {"saved"}, value : {NoId}]

ViewType == [loaded : BOOLEAN, own : SUBSET Ids, managed : SUBSET Ids, status : [Ids -> Status]]
RefreshType == [st : {"idle", "own", "managed", "statuses"}, own : SUBSET Ids]

Typed ==
  /\ own \in SUBSET Ids /\ managed \in SUBSET Ids
  /\ mainStatus \in [Ids -> Status]
  /\ view \in ViewType
  /\ refresh \in [Refreshes -> RefreshType]
  /\ edit \in {"none", "delete", "save", "load"}
  /\ asked \in Seq(Question) /\ channel \in Seq(Message)

(* Refresh r has at most one message in queue s, about what it waits for.   *)
No(s, r) == \A i \in 1..Len(s) : s[i].who # r
Fits(s, r, st) ==
  /\ \A i \in 1..Len(s) : s[i].who = r => s[i].what = st
  /\ \A i, j \in 1..Len(s) : s[i].who = r /\ s[j].who = r => i = j

OneEach ==
  \A r \in Refreshes :
    /\ Fits(asked, r, refresh[r].st) /\ Fits(channel, r, refresh[r].st)
    /\ No(asked, r) \/ No(channel, r)

(* Queue s says nothing of c; the last it says of c, if anything, is v.     *)
About(m, c) == m.what = "statuses" \/ (m.what = "status" /\ m.value[1] = c)
Says(m, c) == IF m.what = "statuses" THEN m.value[c] ELSE m.value[2]
Silent(s, c) == \A i \in 1..Len(s) : ~About(s[i], c)
Told(s, c, v) ==
  \A i \in 1..Len(s) :
    About(s[i], c) /\ (\A j \in (i + 1)..Len(s) : ~About(s[j], c)) => Says(s[i], c) = v

Refreshing == \E r \in Refreshes : refresh[r].st # "idle"

StatusInv ==
  /\ ~view.loaded => asked = <<>> /\ channel = <<>> /\ view.own \cup view.managed = {}
  /\ view.loaded => \A c \in Ids :
       /\ Told(channel, c, mainStatus[c])
       /\ Silent(channel, c) => view.status[c] = mainStatus[c] \/ Refreshing

ViewsInv == Typed /\ OneEach /\ StatusInv

-----------------------------------------------------------------------------
(* Queues *)

(* What a queue holds for r is not disturbed by a message for another; a    *)
(* queue with nothing for r takes one that fits.                            *)
LEMMA AppendedFits ==
  ASSUME NEW S, NEW s \in Seq(S), NEW m \in S, NEW r, NEW st
  PROVE  /\ m.who # r /\ Fits(s, r, st) => Fits(Append(s, m), r, st)
         /\ m.who # r /\ No(s, r) => No(Append(s, m), r)
         /\ No(s, r) /\ m.what = st => Fits(Append(s, m), r, st)
<1>1. \A i \in 1..Len(Append(s, m)) : i \in 1..Len(s) \/ i = Len(s) + 1
  BY Appended
<1> QED
  BY <1>1, Appended DEF Fits, No

LEMMA TakenFits ==
  ASSUME NEW S, NEW s \in Seq(S), s # <<>>, NEW r, NEW st
  PROVE  /\ Fits(s, r, st) => Fits(Tail(s), r, st)
         /\ No(s, r) => No(Tail(s), r) /\ Head(s).who # r
         /\ Fits(s, r, st) /\ Head(s).who = r => No(Tail(s), r) /\ Head(s).what = st
<1>1. \A i \in 1..Len(Tail(s)) : i + 1 \in 1..Len(s) /\ i + 1 # 1 /\ Tail(s)[i] = s[i + 1]
  BY Taken
<1>2. 1 \in 1..Len(s) /\ Head(s) = s[1]
  BY Taken
<1>3. Fits(s, r, st) => Fits(Tail(s), r, st)
  <2>1. \A i, j \in 1..Len(Tail(s)) : i + 1 = j + 1 => i = j
    BY Taken
  <2> QED
    BY <1>1, <2>1 DEF Fits
<1> QED
  BY <1>1, <1>2, <1>3 DEF Fits, No

(* Nothing is under way for r, whatever it waits for.                       *)
LEMMA NoFits ==
  ASSUME NEW s, NEW r, No(s, r), NEW st
  PROVE  Fits(s, r, st)
BY DEF No, Fits

(* A refresh that is idle has nothing under way.                            *)
LEMMA IdleHasNone ==
  ASSUME Typed, NEW r \in Refreshes
  PROVE  /\ Fits(asked, r, "idle") => No(asked, r)
         /\ Fits(channel, r, "idle") => No(channel, r)
<1>1. \A i \in 1..Len(asked) : asked[i] \in Question
  BY ElementOfSeq DEF Typed
<1>2. \A i \in 1..Len(channel) : channel[i] \in Message
  BY ElementOfSeq DEF Typed
<1>3. \A q \in Question : q.what # "idle"
  BY DEF Question
<1>4. \A m \in Message : m.what # "idle"
  BY DEF Message
<1> QED
  BY <1>1, <1>2, <1>3, <1>4 DEF Fits, No

(* What a queue says of c after a message was appended.                     *)
LEMMA AppendedSays ==
  ASSUME NEW S, NEW s \in Seq(S), NEW m \in S, NEW c, NEW v
  PROVE  /\ About(m, c) /\ Says(m, c) = v => Told(Append(s, m), c, v)
         /\ ~Silent(Append(s, m), c) \/ ~About(m, c)
         /\ ~About(m, c) /\ Told(s, c, v) => Told(Append(s, m), c, v)
         /\ Silent(Append(s, m), c) => Silent(s, c)
<1>1. \A i \in 1..Len(Append(s, m)) : i \in 1..Len(s) \/ i = Len(s) + 1
  BY Appended
<1>2. \A i \in 1..Len(s) : i \in 1..Len(Append(s, m)) /\ Append(s, m)[i] = s[i]
  BY Appended
<1>3. Len(s) + 1 \in 1..Len(Append(s, m)) /\ Append(s, m)[Len(s) + 1] = m
  BY Appended
<1>4. \A i \in 1..Len(s) : Len(s) + 1 \in (i + 1)..Len(Append(s, m))
  BY Appended
<1>5. \A i \in 1..Len(s) : \A j \in (i + 1)..Len(s) :
        j \in (i + 1)..Len(Append(s, m)) /\ j \in 1..Len(s)
  BY Appended
<1>6. About(m, c) /\ Says(m, c) = v => Told(Append(s, m), c, v)
  BY <1>1, <1>2, <1>3, <1>4 DEF Told
<1>7. ~About(m, c) /\ Told(s, c, v) => Told(Append(s, m), c, v)
  BY <1>1, <1>2, <1>3, <1>5 DEF Told
<1> QED
  BY <1>2, <1>3, <1>6, <1>7 DEF Silent

(* And after its first message was taken.                                   *)
LEMMA TakenSays ==
  ASSUME NEW S, NEW s \in Seq(S), s # <<>>, NEW c, NEW v, Told(s, c, v)
  PROVE  /\ Told(Tail(s), c, v)
         /\ Silent(Tail(s), c) /\ About(Head(s), c) => Says(Head(s), c) = v
         /\ Silent(Tail(s), c) /\ ~About(Head(s), c) => Silent(s, c)
<1>1. \A i \in 1..Len(Tail(s)) : i + 1 \in 1..Len(s) /\ Tail(s)[i] = s[i + 1]
  BY Taken
<1>2. \A i \in 2..Len(s) : i - 1 \in 1..Len(Tail(s)) /\ Tail(s)[i - 1] = s[i]
  BY Taken
<1>3. 1 \in 1..Len(s) /\ Head(s) = s[1] /\ \A i \in 1..Len(s) : i = 1 \/ i \in 2..Len(s)
  BY Taken
<1>4. Told(Tail(s), c, v)
  <2> SUFFICES ASSUME NEW i \in 1..Len(Tail(s)), About(Tail(s)[i], c),
                      \A j \in (i + 1)..Len(Tail(s)) : ~About(Tail(s)[j], c)
               PROVE  Says(Tail(s)[i], c) = v
    BY DEF Told
  <2>1. \A j \in ((i + 1) + 1)..Len(s) : ~About(s[j], c)
    <3> TAKE j \in ((i + 1) + 1)..Len(s)
    <3>1. j - 1 \in (i + 1)..Len(Tail(s)) /\ j \in 2..Len(s)
      BY Taken
    <3> QED
      BY <1>2, <3>1
  <2> QED
    BY <1>1, <2>1 DEF Told
<1>5. Silent(Tail(s), c) => \A j \in (1 + 1)..Len(s) : ~About(s[j], c)
  BY <1>2 DEF Silent
<1> QED
  BY <1>3, <1>4, <1>5 DEF Told, Silent

-----------------------------------------------------------------------------
(* What is sent *)

LEMMA OneMore ==
  ASSUME NEW S, NEW s \in Seq(S), NEW m \in S
  PROVE  s \o <<m>> = Append(s, m) /\ s \o <<>> = s
BY AppendIsConcat, ConcatEmptySeq

(* A refresh asks for what it awaits next, or has no more to ask.           *)
LEMMA AsksNext ==
  ASSUME Typed, NEW r \in Refreshes, NEW st, st = NextAwait(refresh[r].st)
  PROVE  \/ st = "idle" /\ refresh[r].st = "statuses" /\ asked \o Asks(r) = asked
         \/ /\ st \in {"own", "managed", "statuses"}
            /\ Ask(r, st) \in Question /\ Ask(r, st).who = r /\ Ask(r, st).what = st
            /\ asked \o Asks(r) = Append(asked, Ask(r, st))
<1>1. refresh[r].st \in {"idle", "own", "managed", "statuses"}
  BY DEF Typed, RefreshType
<1>2. st \in {"idle", "own", "managed", "statuses"} /\ (st = "idle" <=> refresh[r].st = "statuses")
  BY <1>1 DEF NextAwait
<1>3. st # "idle" => /\ Ask(r, st) \in Question
                     /\ Ask(r, st).who = r /\ Ask(r, st).what = st
  BY <1>2 DEF Ask, Question
<1>4. CASE st = "idle"
  <2>1. Asks(r) = <<>>
    BY <1>4 DEF Asks
  <2> QED
    BY <1>2, <1>4, <2>1, ConcatEmptySeq DEF Typed
<1>5. CASE st # "idle"
  <2>1. Asks(r) = <<Ask(r, st)>>
    BY <1>5 DEF Asks
  <2> QED
    BY <1>2, <1>3, <1>5, <2>1, OneMore DEF Typed
<1> QED
  BY <1>4, <1>5

(* A broadcast reaches a page that has loaded.                              *)
LEMMA SentOne ==
  ASSUME Typed, NEW m \in Message
  PROVE  Sent(<<m>>) = IF view.loaded THEN Append(channel, m) ELSE channel
BY OneMore DEF Sent, Listening, Typed

LEMMA Broadcasts ==
  /\ \A c \in Ids, s \in Status : Broadcast("status", <<c, s>>) \in Message
  /\ \A list \in SUBSET Ids : Broadcast("managed", list) \in Message
  /\ Broadcast("saved", NoId) \in Message
BY DEF Broadcast, ToPage, Message

(* A question is answered to whom it came from.                             *)
LEMMA Answer ==
  ASSUME Typed, HandleGet
  PROVE  \E q \in Question, m \in Message :
           /\ asked # <<>> /\ q = Head(asked) /\ asked' = Tail(asked)
           /\ channel' = Append(channel, m)
           /\ m.who = q.who /\ m.what = q.what
           /\ m.what \in {"own", "managed", "statuses"}
           /\ m.what = "statuses" => m.value = mainStatus
           /\ m.what = "own" => m.value = own
<1>1. PICK q \in Question : /\ asked # <<>> /\ q = Head(asked)
                            /\ q.what \in {"own", "managed", "statuses"}
  BY Taken DEF HandleGet, Typed
<1>2. PICK value : value = CASE q.what = "own" -> own
                             [] q.what = "managed" -> managed
                             [] q.what = "statuses" -> mainStatus
  OBVIOUS
<1>3. ToPage(q.who, q.what, value) \in Message
  BY <1>1, <1>2 DEF ToPage, Message, Question, Typed
<1>4. channel' = Append(channel, ToPage(q.who, q.what, value)) /\ asked' = Tail(asked)
  BY <1>1, <1>2 DEF HandleGet
<1>5. (q.what = "statuses" => value = mainStatus) /\ (q.what = "own" => value = own)
  BY <1>2
<1> QED
  BY <1>1, <1>3, <1>4, <1>5 DEF ToPage

(* A deletion is broadcast, and answered with what remains.                 *)
LEMMA Deletion ==
  ASSUME Typed, HandleDelete
  PROVE  \E c \in Ids, b \in Message, m \in Message :
           /\ asked # <<>> /\ asked' = Tail(asked)
           /\ Head(asked) \in Question /\ Head(asked).who = "user"
           /\ Head(asked).what = "delete"
           /\ channel' = Append(Sent(<<b>>), m)
           /\ b.who = "all" /\ b.what = "status"
           /\ m.who = "user" /\ m.what = "own" /\ m.value = own'
           /\ own' = own \ {c} /\ UNCHANGED <<view, refresh, edit>>
<1>1. Head(asked) \in Question /\ Head(asked).what = "delete" /\ asked # <<>>
  BY Taken DEF HandleDelete, Typed
<1>2. PICK c \in Ids : c = Head(asked).id
  BY <1>1 DEF Question
<1>3. own' = own \ {c} /\ own' \in SUBSET Ids
  BY <1>2 DEF HandleDelete, Typed
<1>4. ToPage("user", "own", own') \in Message
  BY <1>3 DEF ToPage, Message
<1>5. Broadcast("status", <<c, "disconnected">>) \in Message
  BY Broadcasts DEF Status
<1>6. Head(asked).who = "user"
  BY <1>1 DEF Question
<1>7. channel' = Append(Sent(<<Broadcast("status", <<c, "disconnected">>)>>),
                        ToPage("user", "own", own'))
  BY <1>2 DEF HandleDelete
<1>8. asked' = Tail(asked) /\ UNCHANGED <<view, refresh, edit>>
  BY DEF HandleDelete
<1>9. /\ ToPage("user", "own", own').who = "user" /\ ToPage("user", "own", own').what = "own"
      /\ ToPage("user", "own", own').value = own'
      /\ Broadcast("status", <<c, "disconnected">>).who = "all"
      /\ Broadcast("status", <<c, "disconnected">>).what = "status"
  BY DEF ToPage, Broadcast
<1> QED
  BY <1>1, <1>3, <1>4, <1>5, <1>6, <1>7, <1>8, <1>9

-----------------------------------------------------------------------------
(* Types *)

LEMMA TypedStep ==
  ASSUME Typed, [ViewsNext]_viewsVars
  PROVE  Typed'
<1> USE ViewsAssumption DEF Typed
<1>a. asked # <<>> => Head(asked) \in Question /\ Tail(asked) \in Seq(Question)
  BY Taken
<1>b. channel # <<>> => Head(channel) \in Message /\ Tail(channel) \in Seq(Message)
  BY Taken
<1>c. ASSUME NEW m \in Message PROVE Sent(<<m>>) \in Seq(Message)
  <2>1. Append(channel, m) \in Seq(Message)
    BY Appended
  <2> QED
    BY <2>1, SentOne
<1>1. ASSUME NEW c \in Ids, NEW s \in Status, UpdateStatus(c, s) PROVE Typed'
  BY <1>1, <1>c, Broadcasts DEF UpdateStatus
<1>2. ASSUME NEW c \in Ids, Saved(c) PROVE Typed'
  BY <1>2, <1>c, Broadcasts DEF Saved
<1>3. ASSUME NEW list \in SUBSET Ids, Fetched(list) PROVE Typed'
  BY <1>3, <1>c, Broadcasts DEF Fetched
<1>4. CASE HandleGet
  <2>1. channel' \in Seq(Message)
    <3>1. PICK m \in Message : channel' = Append(channel, m)
      BY <1>4, Answer
    <3>2. Append(channel, m) \in Seq(Message)
      BY Appended
    <3> QED
      BY <3>1, <3>2
  <2> QED
    BY <1>4, <1>a, <2>1 DEF HandleGet
<1>5. CASE HandleDelete
  <2>1. Head(asked).id \in Ids
    BY <1>5, <1>a DEF HandleDelete, Question
  <2>2. own' \in SUBSET Ids /\ mainStatus' \in [Ids -> Status]
    BY <1>5, <2>1 DEF HandleDelete, Status
  <2>3. ToPage("user", "own", own') \in Message
    BY <2>2 DEF ToPage, Message
  <2>4. channel' \in Seq(Message)
    <3>1. Sent(<<Broadcast("status", <<Head(asked).id, "disconnected">>)>>) \in Seq(Message)
      BY <1>c, <2>1, Broadcasts DEF Status
    <3> QED
      BY <1>5, <2>3, <3>1, Appended DEF HandleDelete
  <2> QED
    BY <1>5, <1>a, <2>2, <2>4 DEF HandleDelete
<1>6. CASE HandleSave
  <2>1. ToPage("user", "own", {}) \in Message
    BY DEF ToPage, Message
  <2>2. channel' \in Seq(Message)
    BY <1>6, <1>c, <2>1, Broadcasts, Appended DEF HandleSave
  <2> QED
    BY <1>6, <1>a, <2>2 DEF HandleSave
<1>d. ASSUME NEW r \in Refreshes
      PROVE  asked \o Asks(r) \in Seq(Question) /\ Advanced(r) \in RefreshType
  <2>1. NextAwait(refresh[r].st) \in {"idle", "own", "managed", "statuses"}
    BY DEF NextAwait, RefreshType
  <2>2. asked \o Asks(r) \in Seq(Question)
    <3>1. PICK st : st = NextAwait(refresh[r].st)
      OBVIOUS
    <3>2. \/ asked \o Asks(r) = asked
          \/ Ask(r, st) \in Question /\ asked \o Asks(r) = Append(asked, Ask(r, st))
      BY <3>1, AsksNext
    <3>3. Ask(r, st) \in Question => Append(asked, Ask(r, st)) \in Seq(Question)
      BY Appended
    <3> QED
      BY <3>2, <3>3
  <2> QED
    BY <2>1, <2>2 DEF Advanced, RefreshType
<1>7. CASE PageLoads
  <2>1. PICK r \in Refreshes : /\ refresh' = [refresh EXCEPT ![r] = Advanced(r)]
                               /\ asked' = asked \o Asks(r)
    BY <1>7 DEF PageLoads, IdleRefreshes
  <2>2. refresh' \in [Refreshes -> RefreshType] /\ asked' \in Seq(Question)
    BY <1>d, <2>1
  <2> QED
    BY <1>7, <2>2 DEF PageLoads, ViewType
<1>8. CASE HearSaved
  <2>1. refresh' \in [Refreshes -> RefreshType] /\ asked' \in Seq(Question)
    BY <1>8, <1>d DEF HearSaved, IdleRefreshes
  <2> QED
    BY <1>8, <1>b, <2>1 DEF HearSaved
<1>9. CASE HearUpdate
  <2>1. PICK m \in Message : m = Head(channel) /\ m.who = "all" /\ m.what \in {"status", "managed"}
    BY <1>9, <1>b DEF HearUpdate
  <2>2. /\ m.what = "status" => m.value \in Ids \X Status
        /\ m.what = "managed" => m.value \in SUBSET Ids
    BY <2>1 DEF Message
  <2>3. view' \in ViewType
    BY <1>9, <2>1, <2>2 DEF HearUpdate, ViewType
  <2> QED
    BY <1>9, <1>b, <2>3 DEF HearUpdate
<1>10. ASSUME NEW r \in Refreshes, RefreshContinues(r) PROVE Typed'
  <2>1. PICK m \in Message : m = Head(channel) /\ m.who = r
    BY <1>10, <1>b DEF RefreshContinues
  <2>2. /\ m.what \in {"own", "managed", "statuses"}
        /\ m.what = "statuses" => m.value \in [Ids -> Status]
        /\ m.what # "statuses" => m.value \in SUBSET Ids
    BY <2>1 DEF Message
  <2>3. view' \in ViewType
    BY <1>10, <2>1, <2>2 DEF RefreshContinues, ViewType, RefreshType
  <2>4. refresh' \in [Refreshes -> RefreshType]
    <3>1. m.what = "own" => [Advanced(r) EXCEPT !.own = m.value] \in RefreshType
      BY <1>d, <2>2 DEF RefreshType
    <3>2. NoRefresh \in RefreshType
      BY DEF NoRefresh, RefreshType
    <3> QED
      BY <1>10, <1>d, <2>1, <3>1, <3>2 DEF RefreshContinues
  <2> QED
    BY <1>10, <1>b, <1>d, <2>3, <2>4 DEF RefreshContinues
<1>11. ASSUME NEW c \in Ids, UserDeletes(c) PROVE Typed'
  <2>1. AskFor("user", "delete", c) \in Question
    BY DEF AskFor, Ask, Question
  <2> QED
    BY <1>11, <2>1, Appended DEF UserDeletes
<1>12. CASE UserDuplicates
  <2>1. Ask("user", "save") \in Question
    BY DEF Ask, Question
  <2> QED
    BY <1>12, <2>1, Appended DEF UserDuplicates
<1>13. CASE EditAnswered
  <2>1. Ask("user", "own") \in Question
    BY DEF Ask, Question
  <2>2. Head(channel).value \in SUBSET Ids
    BY <1>13, <1>b DEF EditAnswered, Message
  <2>3. asked' \in Seq(Question)
    <3>1. Append(asked, Ask("user", "own")) \in Seq(Question)
      BY <2>1, Appended
    <3> QED
      BY <1>13, <3>1 DEF EditAnswered
  <2>4. view' \in ViewType
    BY <1>13, <2>2 DEF EditAnswered, ViewType
  <2> QED
    BY <1>13, <1>b, <2>3, <2>4 DEF EditAnswered
<1>14. CASE UNCHANGED viewsVars
  BY <1>14 DEF viewsVars
<1> QED
  BY <1>1, <1>2, <1>3, <1>4, <1>5, <1>6, <1>7, <1>8, <1>9, <1>10, <1>11, <1>12, <1>13, <1>14
     DEF ViewsNext

-----------------------------------------------------------------------------
(* One message at most for each refresh *)

(* Queue t holds nothing new for a refresh.                                 *)
Keeps(s, t) ==
  \A r \in Refreshes : /\ \A st : Fits(s, r, st) => Fits(t, r, st)
                       /\ No(s, r) => No(t, r)

LEMMA KeepsEach ==
  ASSUME NEW S, NEW s \in Seq(S)
  PROVE  /\ Keeps(s, s)
         /\ s # <<>> => Keeps(s, Tail(s))
         /\ \A m \in S : m.who \notin Refreshes => Keeps(s, Append(s, m))
<1>1. s # <<>> => Keeps(s, Tail(s))
  BY TakenFits DEF Keeps
<1>2. ASSUME NEW m \in S, m.who \notin Refreshes PROVE Keeps(s, Append(s, m))
  <2>1. ASSUME NEW r \in Refreshes, NEW st
        PROVE  /\ Fits(s, r, st) => Fits(Append(s, m), r, st)
               /\ No(s, r) => No(Append(s, m), r)
    BY <1>2, <2>1, AppendedFits
  <2> QED
    BY <2>1 DEF Keeps
<1> QED
  BY <1>1, <1>2 DEF Keeps

(* Queues that hold nothing new, and the refreshes wait for the same.       *)
LEMMA KeptOneEach ==
  ASSUME OneEach, Keeps(asked, asked'), Keeps(channel, channel'), UNCHANGED refresh
  PROVE  OneEach'
BY DEF OneEach, Keeps

(* Refresh r goes on to st; both queues hold nothing of it by then, and it  *)
(* asks for st unless it has ended.                                         *)
LEMMA NextOneEach ==
  ASSUME Typed, OneEach, NEW r \in Refreshes, NEW st, st = NextAwait(refresh[r].st),
         No(asked, r), No(channel', r), Keeps(channel, channel'),
         asked' = asked \o Asks(r),
         refresh'[r].st = st, \A q \in Refreshes \ {r} : refresh'[q] = refresh[q]
  PROVE  OneEach'
<1>1. \/ asked' = asked
      \/ /\ Ask(r, st) \in Question /\ Ask(r, st).who = r /\ Ask(r, st).what = st
         /\ asked' = Append(asked, Ask(r, st))
  BY AsksNext
<1>2. asked \in Seq(Question)
  BY DEF Typed
<1>3. Fits(asked', r, st)
  <2>1. CASE asked' = asked
    BY <2>1, NoFits
  <2>2. CASE Ask(r, st) \in Question /\ Ask(r, st).what = st /\ asked' = Append(asked, Ask(r, st))
    BY <1>2, <2>2, AppendedFits
  <2> QED
    BY <1>1, <2>1, <2>2
<1>4. ASSUME NEW q \in Refreshes \ {r}
      PROVE  /\ \A x : Fits(asked, q, x) => Fits(asked', q, x)
             /\ No(asked, q) => No(asked', q)
  <2>1. CASE asked' = asked
    BY <2>1
  <2>2. CASE Ask(r, st) \in Question /\ Ask(r, st).who = r /\ asked' = Append(asked, Ask(r, st))
    <3>1. Ask(r, st).who # q
      BY <1>4, <2>2
    <3> QED
      BY <1>2, <2>2, <3>1, AppendedFits
  <2> QED
    BY <1>1, <2>1, <2>2
<1>5. Fits(channel', r, st)
  BY NoFits
<1> QED
  BY <1>3, <1>4, <1>5 DEF OneEach, Keeps

LEMMA OneEachStep ==
  ASSUME Typed, OneEach, [ViewsNext]_viewsVars
  PROVE  OneEach'
<1>a. asked \in Seq(Question) /\ channel \in Seq(Message)
  BY DEF Typed
<1>b. /\ Keeps(asked, asked) /\ Keeps(channel, channel)
      /\ asked # <<>> => Keeps(asked, Tail(asked))
      /\ channel # <<>> => Keeps(channel, Tail(channel))
  BY <1>a, KeepsEach
<1>c. ASSUME NEW m \in Message, m.who \notin Refreshes
      PROVE  Keeps(channel, Append(channel, m)) /\ Keeps(channel, Sent(<<m>>))
  <2>1. Keeps(channel, Append(channel, m))
    BY <1>a, <1>c, KeepsEach
  <2> QED
    BY <1>b, <2>1, SentOne
<1>d. ASSUME NEW what, NEW value PROVE Broadcast(what, value).who \notin Refreshes
  BY ViewsAssumption DEF Broadcast, ToPage
<1>e. ASSUME NEW q \in Question, q.who = "user" PROVE Keeps(asked, Append(asked, q))
  BY <1>a, <1>e, KeepsEach, ViewsAssumption
<1>1. ASSUME NEW c \in Ids, NEW s \in Status, UpdateStatus(c, s) PROVE OneEach'
  BY <1>1, <1>b, <1>c, <1>d, Broadcasts, KeptOneEach DEF UpdateStatus
<1>2. ASSUME NEW c \in Ids, Saved(c) PROVE OneEach'
  BY <1>2, <1>b, <1>c, <1>d, Broadcasts, KeptOneEach DEF Saved
<1>3. ASSUME NEW list \in SUBSET Ids, Fetched(list) PROVE OneEach'
  BY <1>3, <1>b, <1>c, <1>d, Broadcasts, KeptOneEach DEF Fetched
(* A question of a refresh becomes an answer to it.                         *)
<1>4. CASE HandleGet
  <2>1. PICK q \in Question, m \in Message :
          /\ asked # <<>> /\ q = Head(asked) /\ asked' = Tail(asked)
          /\ channel' = Append(channel, m)
          /\ m.who = q.who /\ m.what = q.what
    BY <1>4, Answer
  <2>2. UNCHANGED refresh
    BY <1>4 DEF HandleGet
  <2>3. ASSUME NEW r \in Refreshes, q.who = r
        PROVE  /\ Fits(asked', r, refresh[r].st) /\ No(asked', r)
               /\ Fits(channel', r, refresh[r].st)
    <3>1. Fits(asked, r, refresh[r].st) /\ ~No(asked, r) /\ No(channel, r)
      BY <1>a, <2>1, <2>3, TakenFits DEF OneEach
    <3>2. No(asked', r) /\ m.what = refresh[r].st
      BY <1>a, <2>1, <2>3, <3>1, TakenFits
    <3>3. Fits(channel', r, refresh[r].st)
      BY <1>a, <2>1, <3>1, <3>2, AppendedFits
    <3> QED
      BY <3>2, <3>3, NoFits
  <2>4. ASSUME NEW r \in Refreshes, q.who # r
        PROVE  /\ Fits(asked', r, refresh[r].st) /\ Fits(channel', r, refresh[r].st)
               /\ No(asked', r) \/ No(channel', r)
    <3>1. /\ Fits(asked, r, refresh[r].st) => Fits(asked', r, refresh[r].st)
          /\ No(asked, r) => No(asked', r)
      BY <1>b, <2>1 DEF Keeps
    <3>2. /\ Fits(channel, r, refresh[r].st) => Fits(channel', r, refresh[r].st)
          /\ No(channel, r) => No(channel', r)
      BY <1>a, <2>1, <2>4, AppendedFits
    <3> QED
      BY <3>1, <3>2 DEF OneEach
  <2> QED
    BY <2>2, <2>3, <2>4 DEF OneEach
<1>5. CASE HandleDelete
  <2>1. PICK b \in Message, m \in Message :
          /\ channel' = Append(Sent(<<b>>), m)
          /\ b.who \notin Refreshes /\ m.who \notin Refreshes
    <3>1. Head(asked).id \in Ids /\ own' \in SUBSET Ids
      <4>1. Head(asked) \in Question /\ Head(asked).what = "delete"
        BY <1>5, <1>a, Taken DEF HandleDelete
      <4>2. Head(asked).id \in Ids
        BY <4>1 DEF Question
      <4> QED
        BY <1>5, <4>2 DEF HandleDelete, Typed
    <3>2. ToPage("user", "own", own') \in Message
      BY <3>1 DEF ToPage, Message
    <3>3. Broadcast("status", <<Head(asked).id, "disconnected">>) \in Message
      BY <3>1, Broadcasts DEF Status
    <3>4. ToPage("user", "own", own').who \notin Refreshes
      BY ViewsAssumption DEF ToPage
    <3> QED
      BY <1>5, <1>d, <3>2, <3>3, <3>4 DEF HandleDelete
  <2>2. Keeps(channel, channel')
    <3>1. Sent(<<b>>) \in Seq(Message)
      BY <1>a, <2>1, SentOne, AppendProperties
    <3>2. Keeps(Sent(<<b>>), channel')
      BY <2>1, <3>1, KeepsEach
    <3> QED
      BY <1>c, <2>1, <3>2 DEF Keeps
  <2> QED
    BY <1>5, <1>b, <2>2, KeptOneEach DEF HandleDelete
<1>6. CASE HandleSave
  <2>1. ToPage("user", "own", {}) \in Message /\ ToPage("user", "own", {}).who \notin Refreshes
    BY ViewsAssumption DEF ToPage, Message
  <2>2. Sent(<<Broadcast("saved", NoId)>>) \in Seq(Message)
    BY <1>a, Broadcasts, SentOne, AppendProperties
  <2>3. Keeps(channel, Sent(<<Broadcast("saved", NoId)>>))
    BY <1>c, <1>d, Broadcasts
  <2>4. Keeps(Sent(<<Broadcast("saved", NoId)>>), channel')
    BY <1>6, <2>1, <2>2, KeepsEach DEF HandleSave
  <2>5. Keeps(channel, channel')
    BY <2>3, <2>4 DEF Keeps
  <2> QED
    BY <1>6, <1>b, <2>5, KeptOneEach DEF HandleSave
(* A refresh begins: nothing of it is under way while it is idle.           *)
<1>f. ASSUME NEW r \in IdleRefreshes, Keeps(channel, channel'),
             refresh' = [refresh EXCEPT ![r] = Advanced(r)], asked' = asked \o Asks(r)
      PROVE  OneEach'
  <2>1. r \in Refreshes /\ refresh[r].st = "idle" /\ refresh[r] \in RefreshType
    BY DEF IdleRefreshes, Typed
  <2>2. No(asked, r) /\ No(channel', r)
    BY <1>f, <2>1, IdleHasNone DEF OneEach, Keeps
  <2>3. /\ refresh'[r].st = NextAwait(refresh[r].st)
        /\ \A q \in Refreshes \ {r} : refresh'[q] = refresh[q]
    BY <1>f, <2>1 DEF Advanced, Typed, RefreshType
  <2> QED
    BY <1>f, <2>1, <2>2, <2>3, NextOneEach
<1>7. CASE PageLoads
  BY <1>7, <1>b, <1>f DEF PageLoads
<1>8. CASE HearSaved
  <2>1. Keeps(channel, channel')
    BY <1>8, <1>b DEF HearSaved
  <2>2. CASE UNCHANGED <<refresh, asked>>
    BY <1>b, <2>1, <2>2, KeptOneEach
  <2> QED
    BY <1>8, <1>f, <2>1, <2>2 DEF HearSaved
<1>9. CASE HearUpdate
  BY <1>9, <1>b, KeptOneEach DEF HearUpdate
<1>10. ASSUME NEW r \in Refreshes, RefreshContinues(r) PROVE OneEach'
  <2>1. /\ channel # <<>> /\ Head(channel).who = r /\ channel' = Tail(channel)
        /\ asked' = asked \o Asks(r)
    BY <1>10 DEF RefreshContinues
  <2>2. Fits(channel, r, refresh[r].st) /\ ~No(channel, r) /\ No(asked, r)
    BY <1>a, <2>1, TakenFits DEF OneEach
  <2>3. No(channel', r)
    BY <1>a, <2>1, <2>2, TakenFits
  <2>4. /\ refresh'[r].st = NextAwait(refresh[r].st)
        /\ \A q \in Refreshes \ {r} : refresh'[q] = refresh[q]
    BY <1>10 DEF RefreshContinues, Advanced, NoRefresh, Typed, RefreshType
  <2> QED
    BY <1>b, <2>1, <2>2, <2>3, <2>4, NextOneEach
<1>11. ASSUME NEW c \in Ids, UserDeletes(c) PROVE OneEach'
  <2>1. AskFor("user", "delete", c) \in Question /\ AskFor("user", "delete", c).who = "user"
    BY DEF AskFor, Ask, Question
  <2> QED
    BY <1>11, <1>b, <1>e, <2>1, KeptOneEach DEF UserDeletes
<1>12. CASE UserDuplicates
  <2>1. Ask("user", "save") \in Question /\ Ask("user", "save").who = "user"
    BY DEF Ask, Question
  <2> QED
    BY <1>12, <1>b, <1>e, <2>1, KeptOneEach DEF UserDuplicates
<1>13. CASE EditAnswered
  <2>1. Ask("user", "own") \in Question /\ Ask("user", "own").who = "user"
    BY DEF Ask, Question
  <2>2. Keeps(asked, asked')
    BY <1>13, <1>b, <1>e, <2>1 DEF EditAnswered
  <2> QED
    BY <1>13, <1>b, <2>2, KeptOneEach DEF EditAnswered
<1>14. CASE UNCHANGED viewsVars
  BY <1>14, <1>b, KeptOneEach DEF viewsVars
<1> QED
  BY <1>1, <1>2, <1>3, <1>4, <1>5, <1>6, <1>7, <1>8, <1>9, <1>10, <1>11, <1>12, <1>13, <1>14
     DEF ViewsNext
-----------------------------------------------------------------------------
(* What the page shows, or will show once it has heard queue s              *)

Right(s, main) ==
  \A c \in Ids : /\ Told(s, c, main[c])
                 /\ Silent(s, c) => view.status[c] = main[c] \/ Refreshing

(* Main says what it has changed, and nothing else.                         *)
LEMMA Spoken ==
  ASSUME NEW s \in Seq(Message), NEW m \in Message, NEW main, NEW now, Right(s, main),
         \A c \in Ids : \/ About(m, c) /\ Says(m, c) = now[c]
                        \/ ~About(m, c) /\ now[c] = main[c]
  PROVE  Right(Append(s, m), now)
<1> SUFFICES ASSUME NEW c \in Ids
             PROVE  /\ Told(Append(s, m), c, now[c])
                    /\ Silent(Append(s, m), c) => view.status[c] = now[c] \/ Refreshing
  BY DEF Right
<1>1. Told(s, c, main[c]) /\ (Silent(s, c) => view.status[c] = main[c] \/ Refreshing)
  BY DEF Right
<1>2. CASE About(m, c) /\ Says(m, c) = now[c]
  BY <1>2, AppendedSays
<1>3. CASE ~About(m, c) /\ now[c] = main[c]
  <2>1. Told(Append(s, m), c, main[c]) /\ (Silent(Append(s, m), c) => Silent(s, c))
    BY <1>1, <1>3, AppendedSays
  <2> QED
    BY <1>1, <1>3, <2>1
<1> QED
  BY <1>2, <1>3

(* What main broadcasts, to a page that has loaded or to none.              *)
LEMMA SpokenInv ==
  ASSUME Typed, StatusInv, NEW m \in Message, channel' = Sent(<<m>>),
         UNCHANGED <<view, refresh, asked>>,
         \A c \in Ids : \/ About(m, c) /\ Says(m, c) = mainStatus'[c]
                        \/ ~About(m, c) /\ mainStatus'[c] = mainStatus[c]
  PROVE  StatusInv'
<1>1. CASE ~view.loaded
  BY <1>1, SentOne DEF StatusInv
<1>2. CASE view.loaded
  <2>1. Right(channel, mainStatus) /\ channel \in Seq(Message)
    BY <1>2 DEF StatusInv, Right, Typed
  <2>2. Right(Append(channel, m), mainStatus')
    BY <2>1, Spoken
  <2>3. channel' = Append(channel, m)
    BY <1>2, SentOne
  <2> QED
    BY <1>2, <2>2, <2>3 DEF StatusInv, Right, Refreshing
<1> QED
  BY <1>1, <1>2

(* The page takes in a message: it shows what that says, or is still to be  *)
(* told everything by a refresh.                                            *)
LEMMA Heard ==
  ASSUME Typed, StatusInv, channel # <<>>, channel' = Tail(channel),
         UNCHANGED mainStatus, view'.loaded = view.loaded,
         \A c \in Ids :
           \/ Refreshing'
           \/ About(Head(channel), c) /\ view'.status[c] = Says(Head(channel), c)
           \/ /\ ~About(Head(channel), c) /\ view'.status[c] = view.status[c]
              /\ ~Refreshing
  PROVE  StatusInv'
<1>1. view.loaded /\ channel \in Seq(Message)
  BY DEF StatusInv, Typed
<1>2. ASSUME NEW c \in Ids
      PROVE  /\ Told(channel', c, mainStatus'[c])
             /\ Silent(channel', c) => view'.status[c] = mainStatus'[c] \/ Refreshing'
  <2>1. Told(channel, c, mainStatus[c])
    BY <1>1 DEF StatusInv
  <2>2. /\ Told(Tail(channel), c, mainStatus[c])
        /\ Silent(Tail(channel), c) /\ About(Head(channel), c)
             => Says(Head(channel), c) = mainStatus[c]
        /\ Silent(Tail(channel), c) /\ ~About(Head(channel), c) => Silent(channel, c)
    BY <1>1, <2>1, TakenSays
  <2>3. Silent(channel, c) => view.status[c] = mainStatus[c] \/ Refreshing
    BY <1>1 DEF StatusInv
  <2> QED
    BY <2>2, <2>3
<1> QED
  BY <1>1, <1>2 DEF StatusInv

(* Nothing is said or heard.                                                *)
LEMMA Still ==
  ASSUME StatusInv, view.loaded, UNCHANGED <<mainStatus, view, refresh, channel>>
  PROVE  StatusInv'
BY DEF StatusInv, Refreshing, Told, Silent

LEMMA StatusStep ==
  ASSUME Typed, OneEach, StatusInv, [ViewsNext]_viewsVars
  PROVE  StatusInv'
<1>a. asked \in Seq(Question) /\ channel \in Seq(Message) /\ mainStatus \in [Ids -> Status]
  BY DEF Typed
<1>b. channel # <<>> => Head(channel) \in Message
  BY <1>a, Taken
<1>c. asked # <<>> \/ channel # <<>> \/ view.own \cup view.managed # {} => view.loaded
  BY DEF StatusInv
<1>d. view.loaded => Right(channel, mainStatus)
  BY DEF StatusInv, Right
<1>1. ASSUME NEW c \in Ids, NEW s \in Status, UpdateStatus(c, s) PROVE StatusInv'
  <2>1. ASSUME NEW x \in Ids
        PROVE  \/ /\ About(Broadcast("status", <<c, s>>), x)
                  /\ Says(Broadcast("status", <<c, s>>), x) = mainStatus'[x]
               \/ ~About(Broadcast("status", <<c, s>>), x) /\ mainStatus'[x] = mainStatus[x]
    BY <1>1, <1>a DEF UpdateStatus, Broadcast, ToPage, About, Says
  <2>2. /\ channel' = Sent(<<Broadcast("status", <<c, s>>)>>)
        /\ UNCHANGED <<view, refresh, asked>>
    BY <1>1 DEF UpdateStatus
  <2> QED
    BY <2>1, <2>2, Broadcasts, SpokenInv
<1>2. ASSUME NEW c \in Ids, Saved(c) PROVE StatusInv'
  <2>1. \A x \in Ids : ~About(Broadcast("saved", NoId), x) /\ mainStatus'[x] = mainStatus[x]
    BY <1>2 DEF Saved, Broadcast, ToPage, About
  <2>2. /\ channel' = Sent(<<Broadcast("saved", NoId)>>)
        /\ UNCHANGED <<view, refresh, asked>>
    BY <1>2 DEF Saved
  <2> QED
    BY <2>1, <2>2, Broadcasts, SpokenInv
<1>3. ASSUME NEW list \in SUBSET Ids, Fetched(list) PROVE StatusInv'
  <2>1. \A x \in Ids : ~About(Broadcast("managed", list), x) /\ mainStatus'[x] = mainStatus[x]
    BY <1>3 DEF Fetched, Broadcast, ToPage, About
  <2>2. /\ channel' = Sent(<<Broadcast("managed", list)>>)
        /\ UNCHANGED <<view, refresh, asked>>
    BY <1>3 DEF Fetched
  <2> QED
    BY <2>1, <2>2, Broadcasts, SpokenInv
(* Main answers with the statuses it has by then.                           *)
<1>4. CASE HandleGet
  <2>1. PICK m \in Message :
          /\ asked # <<>> /\ channel' = Append(channel, m)
          /\ m.what \in {"own", "managed", "statuses"}
          /\ m.what = "statuses" => m.value = mainStatus
    BY <1>4, Answer
  <2>2. UNCHANGED <<mainStatus, view, refresh>>
    BY <1>4 DEF HandleGet
  <2>3. \A c \in Ids : \/ About(m, c) /\ Says(m, c) = mainStatus[c]
                       \/ ~About(m, c) /\ mainStatus[c] = mainStatus[c]
    BY <2>1 DEF About, Says
  <2>4. Right(Append(channel, m), mainStatus)
    BY <1>a, <1>c, <1>d, <2>1, <2>3, Spoken
  <2> QED
    BY <1>c, <2>1, <2>2, <2>4 DEF StatusInv, Right, Refreshing
(* The status is broadcast before the deletion is answered.                 *)
<1>5. CASE HandleDelete
  <2> DEFINE c == Head(asked).id
             b == Broadcast("status", <<c, "disconnected">>)
             m == ToPage("user", "own", own')
  <2>1. /\ view.loaded /\ UNCHANGED <<view, refresh>>
        /\ mainStatus' = [mainStatus EXCEPT ![c] = "disconnected"]
        /\ own' = own \ {c}
        /\ channel' = Append(Sent(<<b>>), m)
    BY <1>5, <1>c DEF HandleDelete
  <2>2. c \in Ids
    <3>1. Head(asked) \in Question /\ Head(asked).what = "delete"
      BY <1>5, <1>a, Taken DEF HandleDelete
    <3> QED
      BY <3>1 DEF Question
  <2>3. b \in Message /\ m \in Message
    <3>1. b \in Message
      BY <2>2, Broadcasts DEF Status
    <3>2. own' \in SUBSET Ids
      BY <2>1 DEF Typed
    <3> QED
      BY <3>1, <3>2 DEF ToPage, Message
  <2>4. \A x \in Ids : \/ About(b, x) /\ Says(b, x) = mainStatus'[x]
                       \/ ~About(b, x) /\ mainStatus'[x] = mainStatus[x]
    BY <1>a, <2>1, <2>2 DEF Broadcast, ToPage, About, Says
  <2>5. \A x \in Ids : ~About(m, x)
    BY DEF ToPage, About
  <2> HIDE DEF c, b, m
  <2>6. Sent(<<b>>) = Append(channel, b) /\ Append(channel, b) \in Seq(Message)
    BY <1>a, <2>1, <2>3, SentOne, Appended
  <2>7. Right(Append(channel, b), mainStatus')
    <3>1. Right(channel, mainStatus)
      BY <1>d, <2>1
    <3>2. PICK now : now = mainStatus'
      OBVIOUS
    <3>3. \A x \in Ids : \/ About(b, x) /\ Says(b, x) = now[x]
                         \/ ~About(b, x) /\ now[x] = mainStatus[x]
      BY <2>4, <3>2
    <3>4. Right(Append(channel, b), now)
      BY <1>a, <2>3, <3>1, <3>3, Spoken
    <3> QED
      BY <3>2, <3>4
  <2>8. Right(Append(Append(channel, b), m), mainStatus')
    BY <2>3, <2>5, <2>6, <2>7, Spoken
  <2> QED
    BY <2>1, <2>6, <2>8 DEF StatusInv, Right, Refreshing
<1>6. CASE HandleSave
  <2> DEFINE b == Broadcast("saved", NoId)
             m == ToPage("user", "own", {})
  <2>1. /\ view.loaded /\ UNCHANGED <<view, refresh, mainStatus>>
        /\ channel' = Append(Sent(<<b>>), m)
    BY <1>6, <1>c DEF HandleSave
  <2>2. b \in Message /\ m \in Message
    BY Broadcasts DEF ToPage, Message
  <2>3. \A x \in Ids : ~About(b, x) /\ ~About(m, x)
    BY DEF Broadcast, ToPage, About
  <2> HIDE DEF b, m
  <2>4. Sent(<<b>>) = Append(channel, b) /\ Append(channel, b) \in Seq(Message)
    BY <1>a, <2>1, <2>2, SentOne, Appended
  <2>5. Right(Append(channel, b), mainStatus)
    BY <1>a, <1>d, <2>1, <2>2, <2>3, Spoken
  <2>6. Right(Append(Append(channel, b), m), mainStatus)
    BY <2>2, <2>3, <2>4, <2>5, Spoken
  <2> QED
    BY <2>1, <2>4, <2>6 DEF StatusInv, Right, Refreshing
(* A refresh that begins will ask for every status.                         *)
<1>e. ASSUME NEW r \in IdleRefreshes, refresh' = [refresh EXCEPT ![r] = Advanced(r)]
      PROVE  Refreshing'
  <2>1. r \in Refreshes /\ refresh[r].st = "idle" /\ refresh[r] \in RefreshType
    BY DEF IdleRefreshes, Typed
  <2>2. refresh'[r].st = "own"
    BY <1>e, <2>1 DEF Advanced, NextAwait, Typed, RefreshType
  <2> QED
    BY <2>1, <2>2 DEF Refreshing
<1>7. CASE PageLoads
  <2>1. Refreshing'
    BY <1>7, <1>e DEF PageLoads
  <2>2. channel' = <<>> /\ view'.loaded
    BY <1>7 DEF PageLoads, StatusInv, Typed, ViewType
  <2>3. \A c \in Ids : Told(channel', c, mainStatus'[c])
    BY <2>2, EmptySeq DEF Told
  <2> QED
    BY <2>1, <2>2, <2>3 DEF StatusInv
<1>8. CASE HearSaved
  <2>1. /\ channel # <<>> /\ channel' = Tail(channel) /\ Head(channel).what = "saved"
        /\ UNCHANGED <<mainStatus, view>>
    BY <1>8 DEF HearSaved
  <2>2. \A c \in Ids : ~About(Head(channel), c)
    BY <2>1 DEF About
  <2>3. Refreshing' \/ ~Refreshing
    BY <1>8, <1>e DEF HearSaved, Refreshing
  <2> QED
    BY <2>1, <2>2, <2>3, Heard
<1>9. CASE HearUpdate
  <2>1. PICK m \in Message :
          /\ channel # <<>> /\ m = Head(channel) /\ channel' = Tail(channel)
          /\ m.what \in {"status", "managed"}
          /\ view' = IF m.what = "status" THEN [view EXCEPT !.status[m.value[1]] = m.value[2]]
                     ELSE [view EXCEPT !.managed = m.value \ view.own]
          /\ UNCHANGED <<mainStatus, refresh>>
    BY <1>9, <1>b DEF HearUpdate
  <2>2. view'.loaded = view.loaded
    BY <2>1 DEF Typed, ViewType
  <2>3. ASSUME NEW c \in Ids
        PROVE  \/ About(m, c) /\ view'.status[c] = Says(m, c)
               \/ ~About(m, c) /\ view'.status[c] = view.status[c]
    <3>1. CASE m.what = "status"
      <4>1. m.value \in Ids \X Status
        BY <3>1 DEF Message
      <4>2. view'.status = [view.status EXCEPT ![m.value[1]] = m.value[2]]
        BY <2>1, <3>1 DEF Typed, ViewType
      <4>3. view.status \in [Ids -> Status]
        BY DEF Typed, ViewType
      <4> QED
        BY <3>1, <4>1, <4>2, <4>3 DEF About, Says
    <3>2. CASE m.what = "managed"
      BY <2>1, <3>2 DEF About, Typed, ViewType
    <3> QED
      BY <2>1, <3>1, <3>2
  <2>4. Refreshing' \/ ~Refreshing
    BY <2>1 DEF Refreshing
  <2> QED
    BY <2>1, <2>2, <2>3, <2>4, Heard DEF About
(* The last answer a refresh waits for is the one with the statuses.        *)
<1>10. ASSUME NEW r \in Refreshes, RefreshContinues(r) PROVE StatusInv'
  <2>1. PICK m \in Message :
          /\ channel # <<>> /\ m = Head(channel) /\ m.who = r
          /\ channel' = Tail(channel) /\ UNCHANGED mainStatus
    BY <1>10, <1>b DEF RefreshContinues
  <2>2. m.what = refresh[r].st
    BY <1>a, <2>1, TakenFits DEF OneEach
  <2>3. m.what \in {"own", "managed", "statuses"}
    BY <2>1, ViewsAssumption DEF Message
  <2>4. view'.loaded = view.loaded
    BY <1>10, <2>1, <2>3 DEF RefreshContinues, Typed, ViewType
  <2>5. CASE m.what = "statuses"
    <3>1. view'.status = m.value
      BY <1>10, <2>1, <2>5 DEF RefreshContinues, Typed, ViewType
    <3>2. \A c \in Ids : About(m, c) /\ view'.status[c] = Says(m, c)
      BY <2>5, <3>1 DEF About, Says
    <3> QED
      BY <2>1, <2>4, <3>2, Heard
  <2>6. CASE m.what # "statuses"
    <3>1. refresh'[r].st \in {"managed", "statuses"}
      BY <1>10, <2>1, <2>2, <2>3, <2>6
         DEF RefreshContinues, Advanced, NextAwait, Typed, RefreshType
    <3>2. Refreshing'
      BY <3>1 DEF Refreshing
    <3> QED
      BY <2>1, <2>4, <3>2, Heard
  <2> QED
    BY <2>5, <2>6
<1>11. ASSUME NEW c \in Ids, UserDeletes(c) PROVE StatusInv'
  <2>1. view.loaded /\ UNCHANGED <<mainStatus, view, refresh, channel>>
    BY <1>11, <1>c DEF UserDeletes
  <2> QED
    BY <2>1, Still
<1>12. CASE UserDuplicates
  <2>1. view.loaded /\ UNCHANGED <<mainStatus, view, refresh, channel>>
    BY <1>12, <1>c DEF UserDuplicates
  <2> QED
    BY <2>1, Still
<1>13. CASE EditAnswered
  <2>1. PICK m \in Message :
          /\ channel # <<>> /\ m = Head(channel) /\ m.who = "user"
          /\ channel' = Tail(channel) /\ UNCHANGED <<mainStatus, refresh>>
    BY <1>13, <1>b DEF EditAnswered
  <2>2. m.what = "own"
    BY <2>1, ViewsAssumption DEF Message
  <2>3. view'.loaded = view.loaded /\ view'.status = view.status
    BY <1>13 DEF EditAnswered, Typed, ViewType
  <2>4. \A c \in Ids : ~About(m, c)
    BY <2>2 DEF About
  <2>5. Refreshing' \/ ~Refreshing
    BY <2>1 DEF Refreshing
  <2> QED
    BY <2>1, <2>3, <2>4, <2>5, Heard
<1>14. CASE UNCHANGED viewsVars
  BY <1>14 DEF viewsVars, StatusInv, Refreshing, Told, Silent
<1> QED
  BY <1>1, <1>2, <1>3, <1>4, <1>5, <1>6, <1>7, <1>8, <1>9, <1>10, <1>11, <1>12, <1>13, <1>14
     DEF ViewsNext

-----------------------------------------------------------------------------
(* The page's view of the statuses, in every state.  What is under way may  *)
(* contradict it, but the last message about a connection is always right,  *)
(* and a status no message corrects is right or about to be refreshed.      *)
THEOREM ViewsCorrect == ViewsSpec => []ViewsInv
<1>1. ViewsInit => ViewsInv
  <2> SUFFICES ASSUME ViewsInit PROVE ViewsInv
    OBVIOUS
  <2>1. Typed
    BY EmptySeq DEF ViewsInit, Typed, ViewType, RefreshType, NoRefresh, Status
  <2>2. OneEach
    BY EmptySeq DEF ViewsInit, OneEach, Fits, No
  <2>3. StatusInv
    BY DEF ViewsInit, StatusInv
  <2> QED
    BY <2>1, <2>2, <2>3 DEF ViewsInv
<1>2. ViewsInv /\ [ViewsNext]_viewsVars => ViewsInv'
  BY TypedStep, OneEachStep, StatusStep DEF ViewsInv
<1> QED
  BY <1>1, <1>2, PTL DEF ViewsSpec

(* Every reachable state of the page and its queues is well typed.          *)
THEOREM ViewsTypesHold == ViewsSpec => []ViewsTypeOK
<1>1. Typed => ViewsTypeOK
  <2> SUFFICES ASSUME Typed PROVE ViewsTypeOK
    OBVIOUS
  <2>1. /\ \A i \in DOMAIN asked : asked[i] \in Question
        /\ \A i \in DOMAIN channel : channel[i] \in Message
    BY ElementOfSeq, LenProperties DEF Typed
  <2>2. /\ \A q \in Question : q.who \in Refreshes \cup {"user"}
        /\ \A m \in Message : m.what \in {"own", "managed", "status", "statuses", "saved"}
    BY DEF Question, Message
  <2> QED
    BY <2>1, <2>2 DEF Typed, ViewsTypeOK, ViewType, RefreshType
<1>2. ViewsInv => Typed
  BY DEF ViewsInv
<1> QED
  BY <1>1, <1>2, ViewsCorrect, PTL

(* With nothing under way the page shows main's status of every connection: *)
(* neither the order of refreshes, deletions and updates (main.ts,          *)
(* refreshConnections and onStatusUpdate) nor their number matters.         *)
THEOREM StatusesShown == ViewsSpec => []StatusShown
<1>1. ViewsInv => StatusShown
  <2> SUFFICES ASSUME ViewsInv, ViewsQuiet PROVE view.status = mainStatus
    BY DEF StatusShown
  <2>1. view.loaded /\ ~Refreshing
    BY DEF ViewsQuiet, Refreshing
  <2>2. \A c \in Ids : Silent(channel, c)
    BY EmptySeq DEF ViewsQuiet, Silent
  <2>3. \A c \in Ids : view.status[c] = mainStatus[c]
    BY <2>1, <2>2 DEF ViewsInv, StatusInv
  <2>4. view.status \in [Ids -> Status] /\ mainStatus \in [Ids -> Status]
    BY DEF ViewsInv, Typed, ViewType
  <2> QED
    BY <2>3, <2>4
<1> QED
  BY <1>1, ViewsCorrect, PTL

-----------------------------------------------------------------------------
(* At least as many refreshes are idle as saves are to be heard of          *)

SavedIn(s) == {i \in DOMAIN s : s[i].what = "saved"}
SavedRoom == SavedSent <= Cardinality(IdleRefreshes)

LEMMA SavedFinite ==
  ASSUME NEW S, NEW s \in Seq(S)
  PROVE  IsFiniteSet(SavedIn(s)) /\ Cardinality(SavedIn(s)) \in Nat
<1>1. IsFiniteSet(1..Len(s)) /\ DOMAIN s = 1..Len(s)
  BY LenProperties, FS_Interval
<1>2. SavedIn(s) \in SUBSET (1..Len(s))
  BY <1>1 DEF SavedIn
<1> QED
  BY <1>1, <1>2, FS_Subset, FS_CardinalityType

LEMMA SavedAppended ==
  ASSUME NEW S, NEW s \in Seq(S), NEW m \in S
  PROVE  /\ m.what = "saved" =>
              Cardinality(SavedIn(Append(s, m))) <= Cardinality(SavedIn(s)) + 1
         /\ m.what # "saved" => SavedIn(Append(s, m)) = SavedIn(s)
<1>1. DOMAIN s = 1..Len(s) /\ DOMAIN Append(s, m) = 1..(Len(s) + 1)
  BY LenProperties, Appended
<1>2. \A i \in 1..(Len(s) + 1) : i \in 1..Len(s) \/ i = Len(s) + 1
  BY Appended
<1>3. CASE m.what = "saved"
  <2>1. SavedIn(Append(s, m)) = SavedIn(s) \cup {Len(s) + 1}
    BY <1>1, <1>2, <1>3, Appended DEF SavedIn
  <2>2. IsFiniteSet(SavedIn(s)) /\ Cardinality(SavedIn(s)) \in Nat
    BY SavedFinite
  <2>3. Cardinality(SavedIn(s) \cup {Len(s) + 1}) \in
          {Cardinality(SavedIn(s)), Cardinality(SavedIn(s)) + 1}
    BY <2>2, FS_AddElement
  <2> QED
    BY <1>3, <2>1, <2>2, <2>3
<1>4. CASE m.what # "saved"
  BY <1>1, <1>2, <1>4, Appended DEF SavedIn
<1> QED
  BY <1>3, <1>4

LEMMA SavedTaken ==
  ASSUME NEW S, NEW s \in Seq(S), s # <<>>
  PROVE  /\ Cardinality(SavedIn(Tail(s))) <= Cardinality(SavedIn(s))
         /\ Head(s).what = "saved" =>
              Cardinality(SavedIn(Tail(s))) <= Cardinality(SavedIn(s)) - 1
<1> DEFINE f == [i \in SavedIn(Tail(s)) |-> i + 1]
           Later == SavedIn(s) \ {1}
<1>1. /\ Tail(s) \in Seq(S) /\ DOMAIN s = 1..Len(s) /\ DOMAIN Tail(s) = 1..Len(Tail(s))
      /\ Head(s) = s[1] /\ 1 \in 1..Len(s)
  BY Taken, LenProperties
<1>2. \A i \in SavedIn(Tail(s)) : i \in Nat /\ i + 1 \in Later
  BY <1>1, Taken DEF SavedIn
<1>3. f \in Injection(SavedIn(Tail(s)), Later)
  BY <1>2 DEF Injection, IsInjective
<1>4. IsFiniteSet(SavedIn(s)) /\ Cardinality(SavedIn(s)) \in Nat
  BY SavedFinite
<1>5. /\ IsFiniteSet(Later) /\ Cardinality(Later) \in Nat
      /\ Cardinality(Later) =
           IF 1 \in SavedIn(s) THEN Cardinality(SavedIn(s)) - 1 ELSE Cardinality(SavedIn(s))
  BY <1>4, FS_RemoveElement, FS_CardinalityType
<1>6. Cardinality(SavedIn(Tail(s))) <= Cardinality(Later)
  BY <1>3, <1>5, FS_Injection
<1>7. Cardinality(SavedIn(Tail(s))) \in Nat
  BY <1>1, SavedFinite
<1>8. Head(s).what = "saved" => 1 \in SavedIn(s)
  BY <1>1 DEF SavedIn
<1> QED
  BY <1>4, <1>5, <1>6, <1>7, <1>8

LEMMA IdleFinite == IsFiniteSet(IdleRefreshes) /\ Cardinality(IdleRefreshes) \in Nat
<1>1. IdleRefreshes \in SUBSET Refreshes
  BY DEF IdleRefreshes
<1> QED
  BY <1>1, ViewsAssumption, FS_Subset, FS_CardinalityType

LEMMA SavedRoomStep ==
  ASSUME Typed, OneEach, SavedRoom, StatusInv, [ViewsNext]_viewsVars
  PROVE  SavedRoom'
<1>a. channel \in Seq(Message) /\ Cardinality(SavedIn(channel)) \in Nat
      /\ SavedSent = Cardinality(SavedIn(channel))
  BY SavedFinite DEF Typed, SavedSent, SavedIn
<1>b. IsFiniteSet(IdleRefreshes) /\ Cardinality(IdleRefreshes) \in Nat
  BY IdleFinite
<1>c. SavedSent' = Cardinality(SavedIn(channel'))
  BY DEF SavedSent, SavedIn
(* With the same refreshes idle, no more saves are to be heard of.          *)
<1>d. ASSUME UNCHANGED refresh, Cardinality(SavedIn(channel')) <= Cardinality(SavedIn(channel))
      PROVE  SavedRoom'
  <2>1. IdleRefreshes' = IdleRefreshes
    BY <1>d DEF IdleRefreshes
  <2>2. Cardinality(SavedIn(channel')) \in Nat
    <3>1. Typed'
      BY TypedStep
    <3> QED
      BY <3>1, SavedFinite DEF Typed
  <2> QED
    BY <1>a, <1>b, <1>c, <1>d, <2>1, <2>2 DEF SavedRoom
<1>e. ASSUME NEW m \in Message, m.what # "saved"
      PROVE  SavedIn(Append(channel, m)) = SavedIn(channel)
             /\ SavedIn(Sent(<<m>>)) = SavedIn(channel)
  BY <1>a, <1>e, SavedAppended, SentOne
<1>f. Cardinality(SavedIn(channel)) <= Cardinality(SavedIn(channel))
  BY <1>a
<1>1. ASSUME NEW c \in Ids, NEW s \in Status, UpdateStatus(c, s) PROVE SavedRoom'
  <2>1. Broadcast("status", <<c, s>>).what # "saved"
    BY DEF Broadcast, ToPage
  <2>2. SavedIn(channel') = SavedIn(channel) /\ UNCHANGED refresh
    BY <1>1, <1>e, <2>1, Broadcasts DEF UpdateStatus
  <2> QED
    BY <1>d, <1>f, <2>2
<1>g. ASSUME NEW m \in Message, m.what = "saved", SavedSent < Cardinality(IdleRefreshes)
      PROVE  Cardinality(SavedIn(Sent(<<m>>))) <= Cardinality(IdleRefreshes)
  <2>1. Cardinality(SavedIn(Append(channel, m))) <= Cardinality(SavedIn(channel)) + 1
    BY <1>a, <1>g, SavedAppended
  <2>2. Append(channel, m) \in Seq(Message)
    BY <1>a, Appended
  <2>3. Cardinality(SavedIn(Append(channel, m))) \in Nat
    BY <2>2, SavedFinite
  <2>4. SavedIn(Sent(<<m>>)) \in {SavedIn(channel), SavedIn(Append(channel, m))}
    BY SentOne
  <2> QED
    BY <1>a, <1>b, <1>g, <2>1, <2>3, <2>4
<1>2. ASSUME NEW c \in Ids, Saved(c) PROVE SavedRoom'
  <2>1. SavedSent < Cardinality(IdleRefreshes)
    BY <1>2, <1>a, <1>b DEF Saved, RoomForRefresh
  <2>2. Broadcast("saved", NoId) \in Message /\ Broadcast("saved", NoId).what = "saved"
    BY Broadcasts DEF Broadcast, ToPage
  <2>3. channel' = Sent(<<Broadcast("saved", NoId)>>) /\ UNCHANGED refresh
    BY <1>2 DEF Saved
  <2> QED
    BY <1>c, <1>g, <2>1, <2>2, <2>3 DEF SavedRoom, IdleRefreshes
<1>3. ASSUME NEW list \in SUBSET Ids, Fetched(list) PROVE SavedRoom'
  <2>1. Broadcast("managed", list).what # "saved"
    BY DEF Broadcast, ToPage
  <2>2. SavedIn(channel') = SavedIn(channel) /\ UNCHANGED refresh
    BY <1>3, <1>e, <2>1, Broadcasts DEF Fetched
  <2> QED
    BY <1>d, <1>f, <2>2
<1>4. CASE HandleGet
  <2>1. PICK m \in Message : /\ channel' = Append(channel, m)
                             /\ m.what \in {"own", "managed", "statuses"}
    BY <1>4, Answer
  <2>2. m.what # "saved"
    BY <2>1
  <2>3. SavedIn(channel') = SavedIn(channel)
    BY <1>e, <2>1, <2>2
  <2>4. UNCHANGED refresh
    BY <1>4 DEF HandleGet
  <2> QED
    BY <1>d, <1>f, <2>3, <2>4
<1>5. CASE HandleDelete
  <2>1. PICK b \in Message, m \in Message :
          channel' = Append(Sent(<<b>>), m) /\ b.what # "saved" /\ m.what # "saved"
    BY <1>5, Deletion
  <2>2. Sent(<<b>>) \in Seq(Message)
    BY <1>a, SentOne, Appended
  <2>3. SavedIn(channel') = SavedIn(Sent(<<b>>))
    BY <2>1, <2>2, SavedAppended
  <2>4. SavedIn(Sent(<<b>>)) = SavedIn(channel)
    BY <1>e, <2>1
  <2>5. UNCHANGED refresh
    BY <1>5 DEF HandleDelete
  <2> QED
    BY <1>d, <1>f, <2>3, <2>4, <2>5
<1>6. CASE HandleSave
  <2>1. SavedSent < Cardinality(IdleRefreshes)
    BY <1>6, <1>a, <1>b DEF HandleSave
  <2>2. Broadcast("saved", NoId) \in Message /\ Broadcast("saved", NoId).what = "saved"
    BY Broadcasts DEF Broadcast, ToPage
  <2>3. /\ channel' = Append(Sent(<<Broadcast("saved", NoId)>>), ToPage("user", "own", {}))
        /\ UNCHANGED refresh
    BY <1>6 DEF HandleSave
  <2>4. Sent(<<Broadcast("saved", NoId)>>) \in Seq(Message)
    BY <1>a, <2>2, SentOne, Appended
  <2>5. ToPage("user", "own", {}) \in Message /\ ToPage("user", "own", {}).what # "saved"
    BY DEF ToPage, Message
  <2>6. SavedIn(channel') = SavedIn(Sent(<<Broadcast("saved", NoId)>>))
    BY <2>3, <2>4, <2>5, SavedAppended
  <2> QED
    BY <1>c, <1>g, <2>1, <2>2, <2>3, <2>6 DEF SavedRoom, IdleRefreshes
(* A refresh that begins is one idle refresh less.                          *)
<1>h. ASSUME NEW r \in IdleRefreshes, refresh' = [refresh EXCEPT ![r] = Advanced(r)]
      PROVE  Cardinality(IdleRefreshes') = Cardinality(IdleRefreshes) - 1
  <2>1. r \in Refreshes /\ refresh[r].st = "idle" /\ refresh[r] \in RefreshType
    BY DEF IdleRefreshes, Typed
  <2>2. /\ refresh'[r].st = "own"
        /\ \A q \in Refreshes \ {r} : refresh'[q] = refresh[q]
    BY <1>h, <2>1 DEF Advanced, NextAwait, Typed, RefreshType
  <2>3. IdleRefreshes' = IdleRefreshes \ {r}
    BY <2>2 DEF IdleRefreshes
  <2> QED
    BY <1>b, <2>3, FS_RemoveElement
<1>7. CASE PageLoads
  <2>1. channel' = <<>> /\ SavedIn(channel') = {}
    BY <1>7, EmptySeq DEF PageLoads, StatusInv, SavedIn
  <2>2. Cardinality(IdleRefreshes') \in Nat
    <3>1. IdleRefreshes' \in SUBSET Refreshes
      BY DEF IdleRefreshes
    <3> QED
      BY <3>1, ViewsAssumption, FS_Subset, FS_CardinalityType
  <2>3. SavedSent' = 0
    BY <1>c, <2>1, FS_EmptySet
  <2> QED
    BY <2>2, <2>3 DEF SavedRoom
<1>8. CASE HearSaved
  <2>1. /\ channel # <<>> /\ channel' = Tail(channel) /\ Head(channel).what = "saved"
    BY <1>8 DEF HearSaved
  <2>2. Cardinality(SavedIn(channel')) <= Cardinality(SavedIn(channel)) - 1
        /\ Cardinality(SavedIn(channel')) \in Nat
    BY <1>a, <2>1, SavedTaken, Taken, SavedFinite
  <2>3. CASE UNCHANGED refresh
    BY <1>a, <1>d, <2>2, <2>3
  <2>4. CASE \E r \in IdleRefreshes : refresh' = [refresh EXCEPT ![r] = Advanced(r)]
    <3>1. Cardinality(IdleRefreshes') = Cardinality(IdleRefreshes) - 1
      BY <1>h, <2>4
    <3> QED
      BY <1>a, <1>b, <1>c, <2>2, <3>1 DEF SavedRoom
  <2> QED
    BY <1>8, <2>3, <2>4 DEF HearSaved
<1>9. CASE HearUpdate
  BY <1>9, <1>a, <1>d, SavedTaken DEF HearUpdate
(* A refresh that ends is one more.                                         *)
<1>10. ASSUME NEW r \in Refreshes, RefreshContinues(r) PROVE SavedRoom'
  <2>1. /\ channel # <<>> /\ channel' = Tail(channel)
        /\ \A q \in Refreshes \ {r} : refresh'[q] = refresh[q]
    BY <1>10 DEF RefreshContinues, Typed
  <2>2. Cardinality(SavedIn(channel')) <= Cardinality(SavedIn(channel))
        /\ Cardinality(SavedIn(channel')) \in Nat
    BY <1>a, <2>1, SavedTaken, Taken, SavedFinite
  <2>3. Cardinality(IdleRefreshes) <= Cardinality(IdleRefreshes')
        /\ Cardinality(IdleRefreshes') \in Nat
    <3>1. CASE refresh[r].st = "idle"
      <4>1. Head(channel).who = r /\ ~No(channel, r)
        BY <1>10, <1>a, TakenFits DEF RefreshContinues
      <4> QED
        BY <3>1, <4>1, IdleHasNone DEF OneEach
    <3>2. CASE refresh[r].st # "idle"
      <4>1. IdleRefreshes' = IdleRefreshes \/ IdleRefreshes' = IdleRefreshes \cup {r}
        BY <2>1, <3>2 DEF IdleRefreshes
      <4> QED
        BY <1>b, <4>1, FS_AddElement
    <3> QED
      BY <3>1, <3>2
  <2> QED
    BY <1>a, <1>b, <1>c, <2>2, <2>3 DEF SavedRoom
<1>11. ASSUME NEW c \in Ids, UserDeletes(c) PROVE SavedRoom'
  BY <1>11, <1>d, <1>f DEF UserDeletes
<1>12. CASE UserDuplicates
  BY <1>12, <1>d, <1>f DEF UserDuplicates
<1>13. CASE EditAnswered
  BY <1>13, <1>a, <1>d, SavedTaken DEF EditAnswered
<1>14. CASE UNCHANGED viewsVars
  BY <1>14, <1>d, <1>f DEF viewsVars
<1> QED
  BY <1>1, <1>2, <1>3, <1>4, <1>5, <1>6, <1>7, <1>8, <1>9, <1>10, <1>11, <1>12, <1>13, <1>14
     DEF ViewsNext

-----------------------------------------------------------------------------
(* The sidebar has one thing under way at most                              *)

Wanted == CASE edit = "load" -> "own" [] OTHER -> edit

UserInv ==
  /\ Fits(asked, "user", Wanted) /\ Fits(channel, "user", "own")
  /\ No(asked, "user") \/ No(channel, "user")
  /\ edit = "none" => No(asked, "user") /\ No(channel, "user")

KeepsUser(s, t) ==
  /\ \A st : Fits(s, "user", st) => Fits(t, "user", st)
  /\ No(s, "user") => No(t, "user")

LEMMA KeepsUserEach ==
  ASSUME NEW S, NEW s \in Seq(S)
  PROVE  /\ KeepsUser(s, s)
         /\ s # <<>> => KeepsUser(s, Tail(s))
         /\ \A m \in S : m.who # "user" => KeepsUser(s, Append(s, m))
<1>1. s # <<>> => KeepsUser(s, Tail(s))
  BY TakenFits DEF KeepsUser
<1>2. ASSUME NEW m \in S, m.who # "user" PROVE KeepsUser(s, Append(s, m))
  <2>1. ASSUME NEW st
        PROVE  /\ Fits(s, "user", st) => Fits(Append(s, m), "user", st)
               /\ No(s, "user") => No(Append(s, m), "user")
    BY <1>2, <2>1, AppendedFits
  <2> QED
    BY <2>1 DEF KeepsUser
<1> QED
  BY <1>1, <1>2 DEF KeepsUser

LEMMA KeptUser ==
  ASSUME UserInv, KeepsUser(asked, asked'), KeepsUser(channel, channel'), UNCHANGED edit
  PROVE  UserInv'
BY DEF UserInv, KeepsUser, Wanted

(* A question of the user is answered by main.                              *)
LEMMA UserAnswered ==
  ASSUME Typed, UserInv, asked # <<>>, Head(asked).who = "user", asked' = Tail(asked),
         NEW s \in Seq(Message), KeepsUser(channel, s),
         NEW m \in Message, m.what = "own", channel' = Append(s, m), UNCHANGED edit
  PROVE  UserInv'
<1>1. asked \in Seq(Question)
  BY DEF Typed
<1>2. ~No(asked, "user") /\ No(asked', "user")
  BY <1>1, TakenFits DEF UserInv
<1>3. No(s, "user")
  BY <1>2 DEF UserInv, KeepsUser
<1>4. Fits(channel', "user", "own")
  BY <1>3, AppendedFits
<1>5. Fits(asked', "user", Wanted')
  BY <1>2, NoFits
<1> QED
  BY <1>2, <1>4, <1>5 DEF UserInv

LEMMA UserStep ==
  ASSUME Typed, UserInv, [ViewsNext]_viewsVars
  PROVE  UserInv'
<1>a. asked \in Seq(Question) /\ channel \in Seq(Message)
  BY DEF Typed
<1>b. /\ KeepsUser(asked, asked) /\ KeepsUser(channel, channel)
      /\ asked # <<>> => KeepsUser(asked, Tail(asked))
      /\ channel # <<>> => KeepsUser(channel, Tail(channel))
  BY <1>a, KeepsUserEach
<1>c. ASSUME NEW m \in Message, m.who # "user"
      PROVE  /\ KeepsUser(channel, Append(channel, m)) /\ KeepsUser(channel, Sent(<<m>>))
             /\ Sent(<<m>>) \in Seq(Message)
  <2>1. KeepsUser(channel, Append(channel, m)) /\ Append(channel, m) \in Seq(Message)
    BY <1>a, <1>c, KeepsUserEach, Appended
  <2> QED
    BY <1>a, <1>b, <2>1, SentOne
<1>d. \A what, value : Broadcast(what, value).who # "user"
  BY DEF Broadcast, ToPage
<1>e. ASSUME NEW r \in Refreshes PROVE KeepsUser(asked, asked \o Asks(r))
  <2>1. PICK st : st = NextAwait(refresh[r].st)
    OBVIOUS
  <2>2. \/ asked \o Asks(r) = asked
        \/ /\ Ask(r, st) \in Question /\ Ask(r, st).who = r
           /\ asked \o Asks(r) = Append(asked, Ask(r, st))
    BY <2>1, AsksNext
  <2>3. r # "user"
    BY ViewsAssumption
  <2> QED
    BY <1>a, <1>b, <2>2, <2>3, KeepsUserEach
<1>1. ASSUME NEW c \in Ids, NEW s \in Status, UpdateStatus(c, s) PROVE UserInv'
  BY <1>1, <1>b, <1>c, <1>d, Broadcasts, KeptUser DEF UpdateStatus
<1>2. ASSUME NEW c \in Ids, Saved(c) PROVE UserInv'
  BY <1>2, <1>b, <1>c, <1>d, Broadcasts, KeptUser DEF Saved
<1>3. ASSUME NEW list \in SUBSET Ids, Fetched(list) PROVE UserInv'
  BY <1>3, <1>b, <1>c, <1>d, Broadcasts, KeptUser DEF Fetched
<1>4. CASE HandleGet
  <2>1. PICK q \in Question, m \in Message :
          /\ asked # <<>> /\ q = Head(asked) /\ asked' = Tail(asked)
          /\ channel' = Append(channel, m)
          /\ m.who = q.who /\ m.what = q.what /\ m.what \in {"own", "managed", "statuses"}
    BY <1>4, Answer
  <2>2. UNCHANGED edit
    BY <1>4 DEF HandleGet
  <2>3. CASE q.who = "user"
    <3>1. m.what = "own"
      BY <2>1, <2>3, ViewsAssumption DEF Question
    <3> QED
      BY <1>a, <1>b, <2>1, <2>2, <2>3, <3>1, UserAnswered
  <2>4. CASE q.who # "user"
    BY <1>b, <1>c, <2>1, <2>2, <2>4, KeptUser
  <2> QED
    BY <2>3, <2>4
<1>5. CASE HandleDelete
  <2>1. PICK b \in Message, m \in Message :
          /\ asked # <<>> /\ asked' = Tail(asked) /\ Head(asked).who = "user"
          /\ channel' = Append(Sent(<<b>>), m) /\ b.who = "all" /\ m.what = "own"
          /\ UNCHANGED edit
    BY <1>5, Deletion
  <2> QED
    BY <1>c, <2>1, UserAnswered
<1>6. CASE HandleSave
  <2>1. Head(asked) \in Question /\ Head(asked).what = "save" /\ asked # <<>>
    BY <1>6, <1>a, Taken DEF HandleSave
  <2>2. Head(asked).who = "user"
    BY <2>1 DEF Question
  <2>3. /\ asked' = Tail(asked) /\ UNCHANGED edit
        /\ channel' = Append(Sent(<<Broadcast("saved", NoId)>>), ToPage("user", "own", {}))
    BY <1>6 DEF HandleSave
  <2>4. ToPage("user", "own", {}) \in Message /\ ToPage("user", "own", {}).what = "own"
    BY DEF ToPage, Message
  <2> QED
    BY <1>c, <1>d, <2>1, <2>2, <2>3, <2>4, Broadcasts, UserAnswered
<1>7. CASE PageLoads
  BY <1>7, <1>b, <1>e, KeptUser DEF PageLoads, IdleRefreshes
<1>8. CASE HearSaved
  BY <1>8, <1>b, <1>e, KeptUser DEF HearSaved, IdleRefreshes
<1>9. CASE HearUpdate
  BY <1>9, <1>b, KeptUser DEF HearUpdate
<1>10. ASSUME NEW r \in Refreshes, RefreshContinues(r) PROVE UserInv'
  BY <1>10, <1>b, <1>e, KeptUser DEF RefreshContinues
(* The user asks for one thing at a time.                                   *)
<1>f. ASSUME edit = "none", NEW q \in Question, q.who = "user", asked' = Append(asked, q),
             edit' # "none", Wanted' = q.what, UNCHANGED channel
      PROVE  UserInv'
  <2>1. No(asked, "user") /\ No(channel, "user")
    BY <1>f DEF UserInv
  <2>2. Fits(asked', "user", Wanted')
    BY <1>a, <1>f, <2>1, AppendedFits
  <2> QED
    BY <1>f, <2>1, <2>2, NoFits DEF UserInv
<1>11. ASSUME NEW c \in Ids, UserDeletes(c) PROVE UserInv'
  <2>1. /\ AskFor("user", "delete", c) \in Question
        /\ AskFor("user", "delete", c).who = "user"
        /\ AskFor("user", "delete", c).what = "delete"
    BY DEF AskFor, Ask, Question
  <2>2. /\ edit = "none" /\ edit' = "delete" /\ UNCHANGED channel
        /\ asked' = Append(asked, AskFor("user", "delete", c))
    BY <1>11 DEF UserDeletes
  <2> QED
    BY <1>f, <2>1, <2>2 DEF Wanted
<1>12. CASE UserDuplicates
  <2>1. /\ Ask("user", "save") \in Question
        /\ Ask("user", "save").who = "user" /\ Ask("user", "save").what = "save"
    BY DEF Ask, Question
  <2>2. /\ edit = "none" /\ edit' = "save" /\ UNCHANGED channel
        /\ asked' = Append(asked, Ask("user", "save"))
    BY <1>12 DEF UserDuplicates
  <2> QED
    BY <1>f, <2>1, <2>2 DEF Wanted
<1>13. CASE EditAnswered
  <2>1. /\ channel # <<>> /\ Head(channel).who = "user" /\ channel' = Tail(channel)
    BY <1>13 DEF EditAnswered
  <2>2. No(asked, "user") /\ No(channel', "user")
    BY <1>a, <2>1, TakenFits DEF UserInv
  <2>3. CASE edit = "save"
    <3>1. Ask("user", "own") \in Question /\ Ask("user", "own").what = "own"
      BY DEF Ask, Question
    <3>2. edit' = "load" /\ asked' = Append(asked, Ask("user", "own"))
      BY <1>13, <2>3 DEF EditAnswered
    <3>3. Fits(asked', "user", "own")
      BY <1>a, <2>2, <3>1, <3>2, AppendedFits
    <3> QED
      BY <2>2, <3>2, <3>3, NoFits DEF UserInv, Wanted
  <2>4. CASE edit # "save"
    <3>1. UNCHANGED asked
      BY <1>13, <2>4 DEF EditAnswered
    <3> QED
      BY <2>2, <3>1, NoFits DEF UserInv
  <2> QED
    BY <2>3, <2>4
<1>14. CASE UNCHANGED viewsVars
  BY <1>14, <1>b, KeptUser DEF viewsVars
<1> QED
  BY <1>1, <1>2, <1>3, <1>4, <1>5, <1>6, <1>7, <1>8, <1>9, <1>10, <1>11, <1>12, <1>13, <1>14
     DEF ViewsNext

-----------------------------------------------------------------------------
(* The user's own connections                                               *)
(*                                                                          *)
(* The page's own list is set by an answer to the sidebar, or by a refresh  *)
(* that hears of the managed list, with the own list it got before that.    *)
(* Whatever sets it last must bring every connection of the user.  What     *)
(* sets it later: a setter that is in the channel, by its place; then a     *)
(* refresh whose question for the managed list is under way; then one that  *)
(* is still to be answered its own list; then one that is still to ask.     *)

Savings == {m \in Message : m.what = "saved"}
OwnQuestions == {q \in Question : q.who \in Refreshes /\ q.what = "own"}
OwnAnswers == {m \in Message : m.who \in Refreshes /\ m.what = "own"}
ManagedQuestions == {q \in Question : q.what = "managed"}
Setters == {m \in Message : \/ m.who \in Refreshes /\ m.what = "managed"
                            \/ m.who = "user" /\ edit # "save"}

\* Those of them that bring c.
Listing(c) == {m \in Message : m.what = "own" /\ c \in m.value}
AskedWith(c) == {q \in Question : q.who \in Refreshes /\ c \in refresh[q.who].own}
SetWith(c) == {m \in Message : c \in IF m.who = "user" THEN m.value ELSE refresh[m.who].own}

OwnedIn(ch, as, c) ==
  /\ LastIn(ch, OwnAnswers, Listing(c))
  /\ Without(ch, OwnAnswers) => LastIn(as, ManagedQuestions, AskedWith(c))
  /\ Without(ch, OwnAnswers) /\ Without(as, ManagedQuestions) =>
       /\ LastIn(ch, Setters, SetWith(c))
       /\ Without(ch, Setters) => c \in view.own

NobodyWillAsk(ch, as) == Without(ch, Savings) /\ Without(as, OwnQuestions)

OwnInv ==
  view.loaded /\ NobodyWillAsk(channel, asked) => \A c \in own : OwnedIn(channel, asked, c)

\* A queue from which its first entry may have been taken.
TakenOrNot(s, t) == t = s \/ (s # <<>> /\ t = Tail(s))

(* Main says something that is not an answer with the own list to a         *)
(* refresh; a question for the managed list may have become a setter.       *)
LEMMA OwnedSpoken ==
  ASSUME NEW ch \in Seq(Message), NEW as \in Seq(Question), NEW c, OwnedIn(ch, as, c),
         NEW left, TakenOrNot(as, left),
         NEW m \in Message, m \notin OwnAnswers,
         \/ m \notin Setters /\ (Without(left, ManagedQuestions) => Without(as, ManagedQuestions))
         \/ /\ m \in Setters
            /\ Without(ch, OwnAnswers) /\ Without(left, ManagedQuestions) => m \in SetWith(c)
  PROVE  OwnedIn(Append(ch, m), left, c)
<1>1. /\ LastIn(Append(ch, m), OwnAnswers, Listing(c))
      /\ Without(Append(ch, m), OwnAnswers) => Without(ch, OwnAnswers)
  BY AppendedLast DEF OwnedIn
<1>2. LastIn(as, ManagedQuestions, AskedWith(c)) => LastIn(left, ManagedQuestions, AskedWith(c))
  <2>1. CASE left = as
    BY <2>1
  <2>2. CASE as # <<>> /\ left = Tail(as)
    BY <2>2, TakenLast
  <2> QED
    BY <2>1, <2>2 DEF TakenOrNot
<1>3. ASSUME Without(ch, OwnAnswers), Without(left, ManagedQuestions)
      PROVE  /\ LastIn(Append(ch, m), Setters, SetWith(c))
             /\ Without(Append(ch, m), Setters) => c \in view.own
  <2>1. CASE m \notin Setters /\ Without(as, ManagedQuestions)
    <3>1. LastIn(ch, Setters, SetWith(c)) /\ (Without(ch, Setters) => c \in view.own)
      BY <1>3, <2>1 DEF OwnedIn
    <3> QED
      BY <2>1, <3>1, AppendedLast
  <2>2. CASE m \in Setters /\ m \in SetWith(c)
    BY <2>2, AppendedLast
  <2> QED
    BY <1>3, <2>1, <2>2
<1> QED
  BY <1>1, <1>2, <1>3 DEF OwnedIn

(* The same, in the next state.                                             *)
LEMMA OwnedSame ==
  ASSUME UNCHANGED <<view, refresh, edit>>, NEW ch, NEW as, NEW c, OwnedIn(ch, as, c),
         channel' = ch, asked' = as
  PROVE  OwnedIn(channel, asked, c)'
BY DEF OwnedIn, Setters, SetWith, AskedWith

(* A refresh that is to ask leaves nothing to show.                         *)
LEMMA WillAsk ==
  ASSUME Typed, NEW q \in OwnQuestions, asked' = Append(asked, q)
  PROVE  OwnInv'
<1>1. asked \in Seq(Question) /\ q \in Question
  BY DEF Typed, OwnQuestions
<1>2. ~Without(asked', OwnQuestions)
  BY <1>1, AppendedLast
<1> QED
  BY <1>2 DEF OwnInv, NobodyWillAsk

(* Main answers a question of the page.                                     *)
LEMMA OwnedAnswer ==
  ASSUME Typed, UserInv, OwnInv, HandleGet
  PROVE  OwnInv'
<1>a. asked \in Seq(Question) /\ channel \in Seq(Message)
  BY DEF Typed
<1>1. PICK q \in Question, m \in Message :
        /\ asked # <<>> /\ q = Head(asked) /\ asked' = Tail(asked)
        /\ channel' = Append(channel, m)
        /\ m.who = q.who /\ m.what = q.what /\ m.what \in {"own", "managed", "statuses"}
        /\ m.what = "own" => m.value = own
  BY Answer
<1>2. UNCHANGED <<own, view, refresh, edit>>
  BY DEF HandleGet
<1>3. q.who \in Refreshes \cup {"user"} /\ (q.who = "user" => q.what = "own")
  <2>1. q.what \in {"own", "managed", "statuses"}
    BY <1>1
  <2> QED
    BY <2>1, ViewsAssumption DEF Question
<1> SUFFICES ASSUME view.loaded, NobodyWillAsk(channel', asked'), NEW c \in own
             PROVE  OwnedIn(channel', asked', c)
  BY <1>1, <1>2, OwnedSame DEF OwnInv
(* A refresh is told the own list: it will be the last to show it.          *)
<1>4. CASE q \in OwnQuestions
  <2>1. m \in OwnAnswers /\ m \in Listing(c)
    BY <1>1, <1>4 DEF OwnQuestions, OwnAnswers, Listing
  <2>2. ~Without(channel', OwnAnswers) /\ LastIn(channel', OwnAnswers, Listing(c))
    BY <1>a, <1>1, <2>1, AppendedLast
  <2> QED
    BY <2>2 DEF OwnedIn
<1>5. CASE q \notin OwnQuestions
  <2>1. NobodyWillAsk(channel, asked)
    <3>1. Without(channel, Savings)
      BY <1>a, <1>1, AppendedLast DEF NobodyWillAsk
    <3>2. Without(asked, OwnQuestions)
      BY <1>a, <1>1, <1>5, TakenLast DEF NobodyWillAsk
    <3> QED
      BY <3>1, <3>2 DEF NobodyWillAsk
  <2>2. OwnedIn(channel, asked, c) /\ TakenOrNot(asked, asked')
    BY <1>1, <2>1 DEF OwnInv, TakenOrNot
  <2>3. m \notin OwnAnswers
    BY <1>1, <1>3, <1>5 DEF OwnQuestions, OwnAnswers
  <2>4. CASE q \in ManagedQuestions
    <3>1. m \in Setters /\ q.who \in Refreshes /\ m.who # "user"
      BY <1>1, <1>3, <2>4, ViewsAssumption DEF Setters, ManagedQuestions
    <3>2. Without(channel, OwnAnswers) /\ Without(asked', ManagedQuestions) => m \in SetWith(c)
      <4> SUFFICES ASSUME Without(channel, OwnAnswers), Without(asked', ManagedQuestions)
                   PROVE  m \in SetWith(c)
        OBVIOUS
      <4>1. LastIn(asked, ManagedQuestions, AskedWith(c))
        BY <2>2 DEF OwnedIn
      <4>2. q \in AskedWith(c)
        BY <1>a, <1>1, <2>4, <4>1, TakenLast
      <4> QED
        BY <1>1, <3>1, <4>2 DEF AskedWith, SetWith
    <3> QED
      BY <1>a, <1>1, <2>2, <2>3, <3>1, <3>2, OwnedSpoken
  <2>5. CASE q.who = "user"
    <3>1. q.what = Wanted
      BY <1>a, <1>1, <2>5, TakenFits DEF UserInv
    <3>2. edit # "save"
      BY <1>3, <2>5, <3>1 DEF Wanted
    <3>3. m \in Setters /\ m \in SetWith(c)
      BY <1>1, <1>3, <2>5, <3>2 DEF Setters, SetWith
    <3> QED
      BY <1>a, <1>1, <2>2, <2>3, <3>3, OwnedSpoken
  <2>6. CASE q \notin ManagedQuestions /\ q.who # "user"
    <3>1. m \notin Setters
      BY <1>1, <2>6 DEF Setters, ManagedQuestions
    <3>2. Without(asked', ManagedQuestions) => Without(asked, ManagedQuestions)
      BY <1>a, <1>1, <2>6, TakenLast
    <3> QED
      BY <1>a, <1>1, <2>2, <2>3, <3>1, <3>2, OwnedSpoken
  <2> QED
    BY <2>4, <2>5, <2>6
<1> QED
  BY <1>4, <1>5

(* A refresh hears an answer.                                               *)
LEMMA OwnedRefresh ==
  ASSUME Typed, OneEach, OwnInv, NEW r \in Refreshes, RefreshContinues(r)
  PROVE  OwnInv'
<1>a. asked \in Seq(Question) /\ channel \in Seq(Message)
  BY DEF Typed
<1>1. PICK m \in Message :
        /\ channel # <<>> /\ m = Head(channel) /\ m.who = r
        /\ channel' = Tail(channel) /\ asked' = asked \o Asks(r)
        /\ UNCHANGED <<own, edit>>
  BY <1>a, Taken DEF RefreshContinues
<1>2. m.what = refresh[r].st /\ m.what \in {"own", "managed", "statuses"} /\ r # "user"
  <2>1. m.what = refresh[r].st
    BY <1>a, <1>1, TakenFits DEF OneEach
  <2> QED
    BY <1>1, <2>1, ViewsAssumption DEF Message
<1>3. \/ m.what = "statuses" /\ asked' = asked
      \/ \E q \in Question : /\ asked' = Append(asked, q) /\ q.who = r
                             /\ m.what = "own" => q.what = "managed"
                             /\ m.what = "managed" => q.what = "statuses"
                             /\ m.what \in {"own", "managed"}
  <2>1. PICK st : st = NextAwait(refresh[r].st)
    OBVIOUS
  <2>2. /\ m.what = "own" => st = "managed"
        /\ m.what = "managed" => st = "statuses"
        /\ m.what = "statuses" => st = "idle"
    BY <1>2, <2>1 DEF NextAwait
  <2> QED
    BY <1>1, <1>2, <2>1, <2>2, AsksNext
<1>4. NobodyWillAsk(channel', asked') => NobodyWillAsk(channel, asked)
  <2>1. m \notin Savings
    BY <1>2 DEF Savings
  <2>2. Without(channel', Savings) => Without(channel, Savings)
    BY <1>a, <1>1, <2>1, TakenLast
  <2>3. Without(asked', OwnQuestions) => Without(asked, OwnQuestions)
    BY <1>a, <1>3, AppendedLast
  <2> QED
    BY <2>2, <2>3 DEF NobodyWillAsk
<1>5. /\ view'.loaded = view.loaded
      /\ m.what # "managed" => view'.own = view.own
      /\ m.what = "managed" => view'.own = refresh[r].own
      /\ \A p \in Refreshes \ {r} : refresh'[p] = refresh[p]
      /\ m.what = "own" => refresh'[r].own = m.value
      /\ m.what = "managed" => refresh'[r].own = refresh[r].own
  <2>1. /\ m.what # "managed" => view'.own = view.own
        /\ m.what = "managed" => view'.own = refresh[r].own
        /\ view'.loaded = view.loaded
    BY <1>1, <1>2 DEF RefreshContinues, Typed, ViewType
  <2>2. \A p \in Refreshes \ {r} : refresh'[p] = refresh[p]
    BY DEF RefreshContinues, Typed
  <2>3. /\ m.what = "own" => refresh'[r].own = m.value
        /\ m.what = "managed" => refresh'[r].own = refresh[r].own
    BY <1>1, <1>2 DEF RefreshContinues, Advanced, NextAwait, Typed, RefreshType
  <2> QED
    BY <2>1, <2>2, <2>3
<1>6. No(asked, r) /\ No(channel', r)
  BY <1>a, <1>1, TakenFits DEF OneEach
<1>7. Setters' = Setters
  BY <1>1 DEF Setters
<1>8. \A i \in 1..Len(channel') : channel'[i] \in Message
  BY <1>a, <1>1, Taken, ElementOfSeq
<1>9. \A i \in 1..Len(asked) : asked[i] \in Question
  BY <1>a, ElementOfSeq
<1> SUFFICES ASSUME view.loaded, NobodyWillAsk(channel', asked'), NEW c \in own
             PROVE  OwnedIn(channel, asked, c)'
  BY <1>1, <1>5 DEF OwnInv
<1>10. OwnedIn(channel, asked, c)
  BY <1>4 DEF OwnInv
<1>11. /\ LastIn(channel', OwnAnswers, Listing(c))
       /\ m.what # "own" /\ Without(channel', OwnAnswers) => Without(channel, OwnAnswers)
  <2>1. m.what # "own" => m \notin OwnAnswers
    BY DEF OwnAnswers
  <2> QED
    BY <1>a, <1>1, <1>10, <2>1, TakenLast DEF OwnedIn
(* Whatever the other refreshes hold is as it was.                          *)
<1>12. /\ LastIn(asked, ManagedQuestions, AskedWith(c))
            => LastIn(asked, ManagedQuestions, AskedWith(c)')
       /\ LastIn(channel', Setters, SetWith(c)) => LastIn(channel', Setters, SetWith(c)')
  <2>1. \A i \in 1..Len(asked) : asked[i] \in AskedWith(c) <=> asked[i] \in AskedWith(c)'
    BY <1>5, <1>6 DEF No, AskedWith
  <2>2. \A i \in 1..Len(channel') : channel'[i] \in Setters =>
          (channel'[i] \in SetWith(c) <=> channel'[i] \in SetWith(c)')
    BY <1>5, <1>6 DEF No, SetWith, Setters
  <2> QED
    BY <2>1, <2>2 DEF LastIn
<1>13. CASE m.what = "own"
  <2>1. PICK q \in Question : asked' = Append(asked, q) /\ q.who = r /\ q.what = "managed"
    BY <1>3, <1>13
  <2>2. Without(channel', OwnAnswers) => q \in AskedWith(c)'
    <3> SUFFICES ASSUME Without(channel', OwnAnswers) PROVE q \in AskedWith(c)'
      OBVIOUS
    <3>1. m \in OwnAnswers /\ LastIn(channel, OwnAnswers, Listing(c))
      BY <1>1, <1>10, <1>13 DEF OwnAnswers, OwnedIn
    <3>2. m \in Listing(c)
      BY <1>a, <1>1, <3>1, TakenLast
    <3> QED
      BY <1>5, <1>13, <2>1, <3>2 DEF Listing, AskedWith
  <2>3. q \in ManagedQuestions
    BY <2>1 DEF ManagedQuestions
  <2>4. ~Without(asked', ManagedQuestions)
    BY <1>a, <2>1, <2>3, AppendedLast
  <2>5. Without(channel', OwnAnswers) => LastIn(asked', ManagedQuestions, AskedWith(c)')
    BY <1>a, <2>1, <2>2, <2>3, AppendedLast
  <2> QED
    BY <1>11, <2>4, <2>5 DEF OwnedIn
<1>14. CASE m.what # "own"
  <2>1. Without(channel', OwnAnswers) => LastIn(asked', ManagedQuestions, AskedWith(c)')
    <3> SUFFICES ASSUME Without(channel', OwnAnswers)
                 PROVE  LastIn(asked', ManagedQuestions, AskedWith(c)')
      OBVIOUS
    <3>1. LastIn(asked, ManagedQuestions, AskedWith(c)')
      BY <1>10, <1>11, <1>12, <1>14 DEF OwnedIn
    <3>2. \A q \in Question : q.what = "statuses" => q \notin ManagedQuestions
      BY DEF ManagedQuestions
    <3>3. CASE asked' = asked
      BY <3>1, <3>3
    <3>4. CASE m.what = "managed"
      <4>1. PICK q \in Question : asked' = Append(asked, q) /\ q.what = "statuses"
        BY <1>3, <3>4
      <4>2. q \notin ManagedQuestions
        BY <3>2, <4>1
      <4> QED
        BY <1>a, <3>1, <4>1, <4>2, AppendedLast
    <3> QED
      BY <1>3, <1>14, <3>3, <3>4
  <2>2. Without(asked', ManagedQuestions) => Without(asked, ManagedQuestions)
    BY <1>a, <1>3, AppendedLast
  <2>3. ASSUME Without(channel', OwnAnswers), Without(asked', ManagedQuestions)
        PROVE  /\ LastIn(channel', Setters', SetWith(c)')
               /\ Without(channel', Setters') => c \in view'.own
    <3>1. LastIn(channel, Setters, SetWith(c)) /\ (Without(channel, Setters) => c \in view.own)
      BY <1>10, <1>11, <1>14, <2>2, <2>3 DEF OwnedIn
    <3>2. LastIn(channel', Setters', SetWith(c)')
      BY <1>a, <1>1, <1>7, <1>12, <3>1, TakenLast
    <3>3. ASSUME Without(channel', Setters) PROVE c \in view'.own
      <4>1. CASE m.what = "managed"
        <5>1. m \in Setters
          BY <1>1, <4>1 DEF Setters
        <5>2. m \in SetWith(c)
          BY <1>a, <1>1, <3>1, <3>3, <5>1, TakenLast
        <5> QED
          BY <1>1, <1>2, <1>5, <4>1, <5>2 DEF SetWith
      <4>2. CASE m.what = "statuses"
        <5>1. m \notin Setters
          BY <1>1, <1>2, <4>2 DEF Setters
        <5>2. Without(channel, Setters)
          BY <1>a, <1>1, <3>3, <5>1, TakenLast
        <5> QED
          BY <1>5, <3>1, <4>2, <5>2
      <4> QED
        BY <1>2, <1>14, <4>1, <4>2
    <3> QED
      BY <1>7, <3>2, <3>3
  <2> QED
    BY <1>11, <2>1, <2>3 DEF OwnedIn
<1> QED
  BY <1>13, <1>14

(* The page hears an update: its own list is not touched.                   *)
LEMMA OwnedUpdate ==
  ASSUME Typed, OwnInv, HearUpdate
  PROVE  OwnInv'
<1>a. asked \in Seq(Question) /\ channel \in Seq(Message)
  BY DEF Typed
<1>1. PICK m \in Message :
        /\ channel # <<>> /\ m = Head(channel) /\ channel' = Tail(channel)
        /\ m.who = "all" /\ m.what \in {"status", "managed"}
        /\ UNCHANGED <<own, refresh, edit, asked>>
  BY <1>a, Taken DEF HearUpdate
<1>2. view'.loaded = view.loaded /\ view'.own = view.own
  BY <1>1 DEF HearUpdate, Typed, ViewType
<1>3. m \notin Savings /\ m \notin OwnAnswers /\ m \notin Setters
  BY <1>1, ViewsAssumption DEF Savings, OwnAnswers, Setters
<1> SUFFICES ASSUME view.loaded, NobodyWillAsk(channel', asked'), NEW c \in own
             PROVE  OwnedIn(channel, asked, c)'
  BY <1>1, <1>2 DEF OwnInv
<1>4. NobodyWillAsk(channel, asked)
  BY <1>a, <1>1, <1>3, TakenLast DEF NobodyWillAsk
<1>5. OwnedIn(channel, asked, c)
  BY <1>4 DEF OwnInv
<1>6. /\ Without(channel', OwnAnswers) <=> Without(channel, OwnAnswers)
      /\ Without(channel', Setters) <=> Without(channel, Setters)
      /\ LastIn(channel, OwnAnswers, Listing(c)) => LastIn(channel', OwnAnswers, Listing(c))
      /\ LastIn(channel, Setters, SetWith(c)) => LastIn(channel', Setters, SetWith(c))
  BY <1>a, <1>1, <1>3, TakenLast
<1>7. Setters' = Setters /\ SetWith(c)' = SetWith(c) /\ AskedWith(c)' = AskedWith(c)
  BY <1>1 DEF Setters, SetWith, AskedWith
<1> QED
  BY <1>1, <1>2, <1>5, <1>6, <1>7 DEF OwnedIn

(* The sidebar asks: none of its answers is under way then.                 *)
LEMMA OwnedUser ==
  ASSUME Typed, UserInv, OwnInv, edit = "none",
         NEW q \in Question, q.who = "user", asked' = Append(asked, q),
         UNCHANGED <<own, view, refresh, channel>>
  PROVE  OwnInv'
<1>a. asked \in Seq(Question) /\ channel \in Seq(Message)
  BY DEF Typed
<1>1. q \notin OwnQuestions /\ q \notin ManagedQuestions
  BY ViewsAssumption DEF OwnQuestions, ManagedQuestions, Question
<1> SUFFICES ASSUME view.loaded, NobodyWillAsk(channel', asked'), NEW c \in own
             PROVE  OwnedIn(channel, asked, c)'
  BY DEF OwnInv
<1>2. NobodyWillAsk(channel, asked)
  BY <1>a, AppendedLast DEF NobodyWillAsk
<1>3. OwnedIn(channel, asked, c)
  BY <1>2 DEF OwnInv
<1>4. No(channel, "user")
  BY DEF UserInv
<1>5. /\ Without(channel, Setters') <=> Without(channel, Setters)
      /\ LastIn(channel, Setters, SetWith(c)) => LastIn(channel, Setters', SetWith(c))
  <2>1. \A i \in 1..Len(channel) : channel[i] \in Setters <=> channel[i] \in Setters'
    BY <1>4 DEF No, Setters
  <2> QED
    BY <2>1 DEF Without, LastIn
<1>6. /\ Without(asked', ManagedQuestions) <=> Without(asked, ManagedQuestions)
      /\ LastIn(asked, ManagedQuestions, AskedWith(c))
           => LastIn(asked', ManagedQuestions, AskedWith(c))
  BY <1>a, <1>1, AppendedLast
<1>7. SetWith(c)' = SetWith(c) /\ AskedWith(c)' = AskedWith(c)
  BY DEF SetWith, AskedWith
<1> QED
  BY <1>3, <1>5, <1>6, <1>7 DEF OwnedIn

(* The sidebar is answered: a save has it ask for the list, anything else   *)
(* sets the list.                                                           *)
LEMMA OwnedEdit ==
  ASSUME Typed, UserInv, OwnInv, EditAnswered
  PROVE  OwnInv'
<1>a. asked \in Seq(Question) /\ channel \in Seq(Message)
  BY DEF Typed
<1>1. PICK m \in Message :
        /\ channel # <<>> /\ m = Head(channel) /\ m.who = "user"
        /\ channel' = Tail(channel) /\ UNCHANGED <<own, refresh>>
  BY <1>a, Taken DEF EditAnswered
<1>2. m.what = "own" /\ m \notin Savings /\ m \notin OwnAnswers
  <2>1. m.what = "own"
    BY <1>1, ViewsAssumption DEF Message
  <2> QED
    BY <1>1, <2>1, ViewsAssumption DEF Savings, OwnAnswers
<1>3. \/ /\ edit = "save" /\ edit' = "load" /\ asked' = Append(asked, Ask("user", "own"))
         /\ UNCHANGED view
      \/ /\ edit # "save" /\ edit' = "none" /\ UNCHANGED asked
         /\ view' = [view EXCEPT !.own = m.value, !.managed = {}]
  BY <1>1 DEF EditAnswered
<1>4. view'.loaded = view.loaded
  BY <1>3 DEF Typed, ViewType
<1>5. /\ Ask("user", "own") \in Question /\ Ask("user", "own") \notin OwnQuestions
      /\ Ask("user", "own") \notin ManagedQuestions
  BY ViewsAssumption DEF Ask, Question, OwnQuestions, ManagedQuestions
<1> SUFFICES ASSUME view.loaded, NobodyWillAsk(channel', asked'), NEW c \in own
             PROVE  OwnedIn(channel, asked, c)'
  BY <1>1, <1>4 DEF OwnInv
<1>6. /\ Without(channel, Savings)
      /\ Without(channel', OwnAnswers) => Without(channel, OwnAnswers)
  BY <1>a, <1>1, <1>2, TakenLast DEF NobodyWillAsk
<1>7. /\ Without(asked, OwnQuestions)
      /\ Without(asked', ManagedQuestions) => Without(asked, ManagedQuestions)
      /\ LastIn(asked, ManagedQuestions, AskedWith(c))
           => LastIn(asked', ManagedQuestions, AskedWith(c))
  <2>1. CASE asked' = asked
    BY <2>1 DEF NobodyWillAsk
  <2>2. CASE asked' = Append(asked, Ask("user", "own"))
    BY <1>a, <1>5, <2>2, AppendedLast DEF NobodyWillAsk
  <2> QED
    BY <1>3, <2>1, <2>2
<1>8. OwnedIn(channel, asked, c)
  BY <1>6, <1>7 DEF OwnInv, NobodyWillAsk
<1>9. SetWith(c)' = SetWith(c) /\ AskedWith(c)' = AskedWith(c)
  BY <1>1 DEF SetWith, AskedWith
<1>10. /\ LastIn(channel', OwnAnswers, Listing(c))
       /\ Without(channel', OwnAnswers) => LastIn(asked', ManagedQuestions, AskedWith(c))
  BY <1>a, <1>1, <1>6, <1>7, <1>8, TakenLast DEF OwnedIn
<1>11. \A i \in 1..Len(channel') : channel'[i] \in Setters <=> channel'[i] \in Setters'
  <2>1. No(channel', "user")
    BY <1>a, <1>1, TakenFits DEF UserInv
  <2> QED
    BY <2>1 DEF No, Setters
<1>12. ASSUME Without(channel', OwnAnswers), Without(asked', ManagedQuestions)
       PROVE  /\ LastIn(channel', Setters', SetWith(c))
              /\ Without(channel', Setters') => c \in view'.own
  <2>1. LastIn(channel, Setters, SetWith(c)) /\ (Without(channel, Setters) => c \in view.own)
    BY <1>6, <1>7, <1>8, <1>12 DEF OwnedIn
  <2>2. LastIn(channel', Setters', SetWith(c))
    <3>1. LastIn(channel', Setters, SetWith(c))
      BY <1>a, <1>1, <2>1, TakenLast
    <3> QED
      BY <1>11, <3>1 DEF LastIn
  <2>3. ASSUME Without(channel', Setters') PROVE c \in view'.own
    <3>1. Without(channel', Setters)
      BY <1>11, <2>3 DEF Without
    <3>2. CASE edit = "save"
      <4>1. m \notin Setters
        BY <1>1, <3>2, ViewsAssumption DEF Setters
      <4>2. Without(channel, Setters)
        BY <1>a, <1>1, <3>1, <4>1, TakenLast
      <4> QED
        BY <1>3, <2>1, <3>2, <4>2
    <3>3. CASE edit # "save"
      <4>1. m \in Setters
        BY <1>1, <3>3 DEF Setters
      <4>2. m \in SetWith(c)
        BY <1>a, <1>1, <2>1, <3>1, <4>1, TakenLast
      <4>3. c \in m.value
        BY <1>1, <4>2 DEF SetWith
      <4> QED
        BY <1>3, <3>3, <4>3 DEF Typed, ViewType
    <3> QED
      BY <3>2, <3>3
  <2> QED
    BY <2>2, <2>3
<1> QED
  BY <1>9, <1>10, <1>12 DEF OwnedIn

LEMMA OwnStep ==
  ASSUME Typed, OneEach, StatusInv, SavedRoom, UserInv, OwnInv, [ViewsNext]_viewsVars
  PROVE  OwnInv'
<1>a. asked \in Seq(Question) /\ channel \in Seq(Message)
  BY DEF Typed
<1>b. asked # <<>> \/ channel # <<>> => view.loaded
  BY DEF StatusInv
(* Main tells every window something that is neither a save nor an answer.  *)
<1>c. ASSUME NEW m \in Message, m.who = "all", m.what # "saved",
             channel' = Sent(<<m>>), UNCHANGED <<own, view, refresh, edit, asked>>
      PROVE  OwnInv'
  <2> SUFFICES ASSUME view.loaded, NobodyWillAsk(channel', asked'), NEW c \in own
               PROVE  OwnedIn(channel', asked', c)
    BY <1>c, OwnedSame DEF OwnInv
  <2>1. channel' = Append(channel, m) /\ asked' = asked
    BY <1>c, SentOne
  <2>2. NobodyWillAsk(channel, asked)
    BY <1>a, <2>1, AppendedLast DEF NobodyWillAsk
  <2>3. m \notin OwnAnswers /\ m \notin Setters
    BY <1>c, ViewsAssumption DEF OwnAnswers, Setters
  <2>4. OwnedIn(channel, asked, c) /\ TakenOrNot(asked, asked)
    BY <1>c, <2>2 DEF OwnInv, TakenOrNot
  <2>5. OwnedIn(Append(channel, m), asked, c)
    BY <1>a, <2>3, <2>4, OwnedSpoken
  <2> QED
    BY <2>1, <2>5
<1>1. ASSUME NEW c \in Ids, NEW s \in Status, UpdateStatus(c, s) PROVE OwnInv'
  <2>1. /\ Broadcast("status", <<c, s>>) \in Message
        /\ Broadcast("status", <<c, s>>).who = "all"
        /\ Broadcast("status", <<c, s>>).what # "saved"
    BY Broadcasts DEF Broadcast, ToPage
  <2> QED
    BY <1>1, <1>c, <2>1 DEF UpdateStatus
(* A save that the page will hear of leaves nothing to show.                *)
<1>d. ASSUME NEW s \in Seq(Message), NEW m \in Message, m \in Savings,
             channel' = Append(s, m) \/ \E n \in Message : channel' = Append(Append(s, m), n)
      PROVE  OwnInv'
  <2>1. ~Without(Append(s, m), Savings)
    BY <1>d, AppendedLast
  <2>2. Append(s, m) \in Seq(Message)
    BY Appended
  <2>3. CASE channel' = Append(s, m)
    BY <2>1, <2>3 DEF OwnInv, NobodyWillAsk
  <2>4. ASSUME NEW n \in Message, channel' = Append(Append(s, m), n) PROVE OwnInv'
    <3>1. ~Without(channel', Savings)
      BY <2>1, <2>2, <2>4, AppendedLast
    <3> QED
      BY <3>1 DEF OwnInv, NobodyWillAsk
  <2> QED
    BY <1>d, <2>3, <2>4
<1>e. Broadcast("saved", NoId) \in Message /\ Broadcast("saved", NoId) \in Savings
  BY Broadcasts DEF Broadcast, ToPage, Savings
<1>2. ASSUME NEW c \in Ids, Saved(c) PROVE OwnInv'
  <2>1. CASE view.loaded
    <3>1. channel' = Append(channel, Broadcast("saved", NoId))
      BY <1>2, <1>e, <2>1, SentOne DEF Saved
    <3> QED
      BY <1>a, <1>d, <1>e, <3>1
  <2>2. CASE ~view.loaded
    BY <1>2, <2>2 DEF Saved, OwnInv
  <2> QED
    BY <2>1, <2>2
<1>3. ASSUME NEW list \in SUBSET Ids, Fetched(list) PROVE OwnInv'
  <2>1. /\ Broadcast("managed", list) \in Message
        /\ Broadcast("managed", list).who = "all"
        /\ Broadcast("managed", list).what # "saved"
    BY Broadcasts DEF Broadcast, ToPage
  <2> QED
    BY <1>3, <1>c, <2>1 DEF Fetched
<1>4. CASE HandleGet
  BY <1>4, OwnedAnswer
<1>5. CASE HandleDelete
  <2>1. PICK d \in Ids, b \in Message, m \in Message :
          /\ asked # <<>> /\ asked' = Tail(asked)
          /\ Head(asked) \in Question /\ Head(asked).who = "user"
          /\ Head(asked).what = "delete"
          /\ channel' = Append(Sent(<<b>>), m)
          /\ b.who = "all" /\ b.what = "status"
          /\ m.who = "user" /\ m.what = "own" /\ m.value = own'
          /\ own' = own \ {d} /\ UNCHANGED <<view, refresh, edit>>
    BY <1>5, Deletion
  <2> SUFFICES ASSUME view.loaded, NobodyWillAsk(channel', asked'), NEW c \in own'
               PROVE  OwnedIn(channel', asked', c)
    BY <2>1, OwnedSame DEF OwnInv
  <2>2. Sent(<<b>>) = Append(channel, b) /\ Append(channel, b) \in Seq(Message)
    BY <1>a, SentOne, Appended
  <2>3. Head(asked) \notin OwnQuestions /\ Head(asked) \notin ManagedQuestions
    BY <2>1 DEF OwnQuestions, ManagedQuestions
  <2>4. edit # "save"
    <3>1. Head(asked).what = Wanted
      BY <1>a, <2>1, TakenFits DEF UserInv
    <3> QED
      BY <2>1, <3>1 DEF Wanted
  <2>5. NobodyWillAsk(channel, asked)
    <3>1. Without(channel', Savings) => Without(Append(channel, b), Savings)
      <4>1. channel' = Append(Append(channel, b), m)
        BY <2>1, <2>2
      <4>2. Append(channel, b) \in Seq(Message) /\ m \in Message
        BY <2>1, <2>2
      <4> QED
        BY <4>1, <4>2, AppendedLast
    <3>2. Without(Append(channel, b), Savings) => Without(channel, Savings)
      BY <1>a, AppendedLast
    <3>3. Without(asked', OwnQuestions) => Without(asked, OwnQuestions)
      BY <1>a, <2>1, <2>3, TakenLast
    <3> QED
      BY <3>1, <3>2, <3>3 DEF NobodyWillAsk
  <2>6. OwnedIn(channel, asked, c)
    BY <2>1, <2>5 DEF OwnInv
  <2>7. b \notin OwnAnswers /\ b \notin Setters /\ m \notin OwnAnswers
    BY <2>1, ViewsAssumption DEF OwnAnswers, Setters
  <2>8. m \in Setters /\ m \in SetWith(c)
    BY <2>1, <2>4 DEF Setters, SetWith
  <2>9. TakenOrNot(asked, asked) /\ TakenOrNot(asked, asked')
    BY <2>1 DEF TakenOrNot
  <2>10. OwnedIn(Append(channel, b), asked, c)
    BY <1>a, <2>6, <2>7, <2>9, OwnedSpoken
  <2> QED
    BY <1>a, <2>1, <2>2, <2>7, <2>8, <2>9, <2>10, OwnedSpoken
<1>6. CASE HandleSave
  <2>1. ToPage("user", "own", {}) \in Message
    BY DEF ToPage, Message
  <2>2. channel' = Append(Append(channel, Broadcast("saved", NoId)), ToPage("user", "own", {}))
    BY <1>6, <1>b, <1>e, SentOne DEF HandleSave
  <2> QED
    BY <1>a, <1>d, <1>e, <2>1, <2>2
(* A refresh that begins asks for the own list.                             *)
<1>f. ASSUME NEW r \in IdleRefreshes, asked' = asked \o Asks(r)
      PROVE  OwnInv'
  <2>1. r \in Refreshes /\ refresh[r].st = "idle"
    BY DEF IdleRefreshes
  <2>2. NextAwait(refresh[r].st) = "own"
    BY <2>1 DEF NextAwait
  <2>3. /\ Ask(r, "own") \in Question /\ Ask(r, "own").who = r /\ Ask(r, "own").what = "own"
        /\ asked' = Append(asked, Ask(r, "own"))
    BY <1>f, <2>1, <2>2, AsksNext
  <2>4. Ask(r, "own") \in OwnQuestions
    BY <2>1, <2>3 DEF OwnQuestions
  <2> QED
    BY <2>3, <2>4, WillAsk
<1>7. CASE PageLoads
  BY <1>7, <1>f DEF PageLoads
<1>8. CASE HearSaved
  <2>1. IdleRefreshes # {}
    <3>1. channel # <<>> /\ Head(channel).what = "saved"
      BY <1>8 DEF HearSaved
    <3>2. 1 \in SavedIn(channel)
      BY <1>a, <3>1, Taken, LenProperties DEF SavedIn
    <3>3. SavedSent # 0 /\ SavedSent \in Nat
      BY <1>a, <3>2, SavedFinite, FS_EmptySet DEF SavedSent, SavedIn
    <3>4. Cardinality(IdleRefreshes) # 0
      BY <3>3, IdleFinite DEF SavedRoom
    <3> QED
      BY <3>4, FS_EmptySet
  <2> QED
    BY <1>8, <1>f, <2>1 DEF HearSaved, StartedOnSaved
<1>9. CASE HearUpdate
  BY <1>9, OwnedUpdate
<1>10. ASSUME NEW r \in Refreshes, RefreshContinues(r) PROVE OwnInv'
  BY <1>10, OwnedRefresh
<1>11. ASSUME NEW c \in Ids, UserDeletes(c) PROVE OwnInv'
  <2>1. AskFor("user", "delete", c) \in Question /\ AskFor("user", "delete", c).who = "user"
    BY DEF AskFor, Ask, Question
  <2> QED
    BY <1>11, <2>1, OwnedUser DEF UserDeletes
<1>12. CASE UserDuplicates
  <2>1. Ask("user", "save") \in Question /\ Ask("user", "save").who = "user"
    BY DEF Ask, Question
  <2> QED
    BY <1>12, <2>1, OwnedUser DEF UserDuplicates
<1>13. CASE EditAnswered
  BY <1>13, OwnedEdit
<1>14. CASE UNCHANGED viewsVars
  BY <1>14 DEF viewsVars, OwnInv, OwnedIn, Setters, SetWith, AskedWith
<1> QED
  BY <1>1, <1>2, <1>3, <1>4, <1>5, <1>6, <1>7, <1>8, <1>9, <1>10, <1>11, <1>12, <1>13, <1>14
     DEF ViewsNext

(* With nothing under way every connection of the user is listed, whatever  *)
(* refreshes, saves and deletions overlapped on the way (main.ts,           *)
(* refreshConnections and the sidebar's delete and duplicate).              *)
THEOREM OwnListed == ViewsSpec => []OwnShown
<1>1. ViewsInit => SavedRoom
  <2> SUFFICES ASSUME ViewsInit PROVE SavedRoom
    OBVIOUS
  <2>1. SavedSent = 0
    <3>1. {i \in DOMAIN channel : channel[i].what = "saved"} = {}
      BY EmptySeq DEF ViewsInit
    <3> QED
      BY <3>1, FS_EmptySet DEF SavedSent
  <2> QED
    BY <2>1, IdleFinite DEF SavedRoom
<1>2. ViewsInit => UserInv
  BY EmptySeq DEF ViewsInit, UserInv, Fits, No
<1>3. ViewsInit => OwnInv
  BY DEF ViewsInit, OwnInv
<1>4. ViewsInv => Typed /\ OneEach /\ StatusInv
  BY DEF ViewsInv
<1>5. ViewsSpec => [](SavedRoom /\ UserInv /\ OwnInv)
  BY <1>1, <1>2, <1>3, <1>4, SavedRoomStep, UserStep, OwnStep, ViewsCorrect, PTL DEF ViewsSpec
<1>6. OwnInv => OwnShown
  <2> SUFFICES ASSUME OwnInv, ViewsQuiet, NEW c \in own PROVE c \in view.own
    BY DEF OwnShown
  <2>1. \A K : Without(channel, K) /\ Without(asked, K)
    BY EmptySeq DEF ViewsQuiet, Without
  <2> QED
    BY <2>1 DEF OwnInv, OwnedIn, NobodyWillAsk, ViewsQuiet
<1> QED
  BY <1>5, <1>6, PTL
=============================================================================
