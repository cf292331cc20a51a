------------------------------- MODULE Queues -------------------------------
(***************************************************************************)
(* Lemmas about queues: sequences to which messages are appended and from  *)
(* which the first is taken, as the requests and answers between the page  *)
(* and the main process are.                                               *)
(***************************************************************************)
EXTENDS Naturals, Sequences, SequenceTheorems, TLAPS

(* A message that is appended.                                              *)
LEMMA Appended ==
  ASSUME NEW S, NEW s \in Seq(S), NEW m \in S
  PROVE  /\ Append(s, m) \in Seq(S)
         /\ Len(Append(s, m)) = Len(s) + 1
         /\ Append(s, m)[Len(s) + 1] = m
         /\ \A i \in 1..Len(s) : Append(s, m)[i] = s[i]
         /\ Len(s) \in Nat
BY AppendProperties, LenProperties

(* The first message is taken.                                              *)
LEMMA Taken ==
  ASSUME NEW S, NEW s \in Seq(S), s # <<>>
  PROVE  /\ Tail(s) \in Seq(S)
         /\ Len(Tail(s)) = Len(s) - 1
         /\ Head(s) = s[1] /\ Head(s) \in S
         /\ \A i \in 1..Len(Tail(s)) : Tail(s)[i] = s[i + 1]
         /\ Len(s) \in Nat \ {0}
BY HeadTailProperties, LenProperties, EmptySeq

-----------------------------------------------------------------------------
(* What a queue holds of a kind K, and whether the last of it is in G       *)

Without(s, K) == \A i \in 1..Len(s) : s[i] \notin K
LastIn(s, K, G) ==
  \A i \in 1..Len(s) : s[i] \in K /\ (\A j \in (i + 1)..Len(s) : s[j] \notin K) => s[i] \in G

LEMMA AppendedLast ==
  ASSUME NEW S, NEW s \in Seq(S), NEW m \in S, NEW K, NEW G
  PROVE  /\ m \in K /\ m \in G => LastIn(Append(s, m), K, G)
         /\ m \notin K /\ LastIn(s, K, G) => LastIn(Append(s, m), K, G)
         /\ Without(Append(s, m), K) <=> Without(s, K) /\ m \notin K
<1>1. \A i \in 1..Len(Append(s, m)) : i \in 1..Len(s) \/ i = Len(s) + 1
  BY Appended
<1>2. \A i \in 1..Len(s) : i \in 1..Len(Append(s, m)) /\ Append(s, m)[i] = s[i]
  BY Appended
<1>3. Len(s) + 1 \in 1..Len(Append(s, m)) /\ Append(s, m)[Len(s) + 1] = m
  BY Appended
<1>4. \A i \in 1..Len(s) : Len(s) + 1 \in (i + 1)..Len(Append(s, m))
  BY Appended
<1>5. \A i \in 1..Len(s) : \A j \in (i + 1)..Len(s) :
        j \in (i + 1)..Len(Append(s, m)) /\ j \in 1..Len(s)
  BY Appended
<1>6. m \in K /\ m \in G => LastIn(Append(s, m), K, G)
  BY <1>1, <1>2, <1>3, <1>4 DEF LastIn
<1>7. m \notin K /\ LastIn(s, K, G) => LastIn(Append(s, m), K, G)
  BY <1>1, <1>2, <1>3, <1>5 DEF LastIn
<1> QED
  BY <1>1, <1>2, <1>3, <1>6, <1>7 DEF Without

LEMMA TakenLast ==
  ASSUME NEW S, NEW s \in Seq(S), s # <<>>, NEW K, NEW G
  PROVE  /\ LastIn(s, K, G) => LastIn(Tail(s), K, G)
         /\ LastIn(s, K, G) /\ Without(Tail(s), K) /\ Head(s) \in K => Head(s) \in G
         /\ Without(s, K) <=> Without(Tail(s), K) /\ Head(s) \notin K
<1>1. \A i \in 1..Len(Tail(s)) : i + 1 \in 1..Len(s) /\ Tail(s)[i] = s[i + 1]
  BY Taken
<1>2. \A i \in 2..Len(s) : i - 1 \in 1..Len(Tail(s)) /\ Tail(s)[i - 1] = s[i]
  BY Taken
<1>3. 1 \in 1..Len(s) /\ Head(s) = s[1] /\ \A i \in 1..Len(s) : i = 1 \/ i \in 2..Len(s)
  BY Taken
<1>4. ASSUME LastIn(s, K, G) PROVE LastIn(Tail(s), K, G)
  <2> SUFFICES ASSUME NEW i \in 1..Len(Tail(s)), Tail(s)[i] \in K,
                      \A j \in (i + 1)..Len(Tail(s)) : Tail(s)[j] \notin K
               PROVE  Tail(s)[i] \in G
    BY DEF LastIn
  <2>1. \A j \in ((i + 1) + 1)..Len(s) : s[j] \notin K
    <3> TAKE j \in ((i + 1) + 1)..Len(s)
    <3>1. j - 1 \in (i + 1)..Len(Tail(s)) /\ j \in 2..Len(s)
      BY Taken
    <3> QED
      BY <1>2, <3>1
  <2> QED
    BY <1>1, <1>4, <2>1 DEF LastIn
<1>5. Without(s, K) <=> Without(Tail(s), K) /\ Head(s) \notin K
  BY <1>1, <1>2, <1>3 DEF Without
<1>6. Without(Tail(s), K) => \A j \in (1 + 1)..Len(s) : s[j] \notin K
  BY <1>2 DEF Without
<1> QED
  BY <1>3, <1>4, <1>5, <1>6 DEF LastIn

(* What is not in the queue does not matter to it.                          *)
LEMMA SameLast ==
  ASSUME NEW s, NEW K, NEW H, NEW G, NEW F,
         \A i \in 1..Len(s) : (s[i] \in K <=> s[i] \in H) /\ (s[i] \in G <=> s[i] \in F)
  PROVE  /\ LastIn(s, K, G) => LastIn(s, H, F)
         /\ Without(s, K) <=> Without(s, H)
BY DEF LastIn, Without
=============================================================================
