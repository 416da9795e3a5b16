--------------------------- MODULE SequenceLemmas ---------------------------
(* What taking one element out of a sequence does, for the queues of the    *)
(* client and the entries of the cache.                                     *)
EXTENDS Integers, Sequences, TLAPS

(* s without its element at i.                                              *)
Drop(s, i) == SubSeq(s, 1, i - 1) \o SubSeq(s, i + 1, Len(s))

(* The elements before i stay where they are, those after it move up.       *)
LEMMA DropElements ==
  ASSUME NEW S, NEW s \in Seq(S), NEW i \in 1..Len(s)
  PROVE  /\ Drop(s, i) \in Seq(S)
         /\ Len(Drop(s, i)) = Len(s) - 1
         /\ \A j \in 1..(i - 1) : Drop(s, i)[j] = s[j]
         /\ \A j \in i..(Len(s) - 1) : Drop(s, i)[j] = s[j + 1]
<1> DEFINE front == SubSeq(s, 1, i - 1)
           back  == SubSeq(s, i + 1, Len(s))
<1>1. front \in Seq(S) /\ Len(front) = i - 1 /\ \A j \in 1..(i - 1) : front[j] = s[j]
  OBVIOUS
<1>2. back \in Seq(S) /\ Len(back) = Len(s) - i /\ \A j \in 1..(Len(s) - i) : back[j] = s[j + i]
  OBVIOUS
<1> HIDE DEF front, back
<1>3. (front \o back) \in Seq(S) /\ Len(front \o back) = Len(s) - 1
  BY <1>1, <1>2
<1>4. \A j \in 1..(Len(s) - 1) :
        (front \o back)[j] = IF j <= i - 1 THEN front[j] ELSE back[j - (i - 1)]
  BY <1>1, <1>2
<1>5. \A j \in i..(Len(s) - 1) : back[j - (i - 1)] = s[j + 1]
  BY <1>2
<1>6. Drop(s, i) = front \o back
  BY DEF Drop, front, back
<1> QED
  BY <1>1, <1>3, <1>4, <1>5, <1>6

(* The last n elements of s.                                                *)
LEMMA LastElements ==
  ASSUME NEW S, NEW s \in Seq(S), NEW n \in Nat, n < Len(s)
  PROVE  LET t == SubSeq(s, Len(s) - n + 1, Len(s))
         IN t \in Seq(S) /\ Len(t) = n /\ \A j \in 1..n : t[j] = s[j + (Len(s) - n)]
OBVIOUS
=============================================================================
