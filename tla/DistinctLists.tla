----------------------------- MODULE DistinctLists -----------------------------
(***************************************************************************)
(* Lists without repetition: the packets in an AVPacketQueue, the entries  *)
(* in an AVBufferPool.  What taking the first element, adding one in front *)
(* and adding one at the end do to the set of their elements.              *)
(***************************************************************************)
EXTENDS Integers, Sequences, TLAPS

Elements(q) == {q[i] : i \in 1 .. Len(q)}
Distinct(q) == \A i, j \in 1 .. Len(q) : i # j => q[i] # q[j]

LEMMA EmptyList ==
  ASSUME NEW S
  PROVE  <<>> \in Seq(S) /\ Elements(<<>>) = {} /\ Distinct(<<>>)
  BY DEF Elements, Distinct

LEMMA ElementOf ==
  ASSUME NEW S, NEW q \in Seq(S)
  PROVE  \A i \in 1 .. Len(q) : q[i] \in S
  OBVIOUS

LEMMA OneInList ==
  ASSUME NEW S, NEW q \in Seq(S), Len(q) = 1
  PROVE  Tail(q) = <<>> /\ <<Head(q)>> = q
  <1> DEFINE t == Tail(q)
  <1>1. t \in Seq(S) /\ Len(t) = 0
    OBVIOUS
  <1> HIDE DEF t
  <1>2. <<Head(q)>> \in Seq(S) /\ Len(<<Head(q)>>) = 1 /\ <<Head(q)>>[1] = q[1]
    OBVIOUS
  <1>3. t = <<>>
    BY <1>1
  <1>4. <<Head(q)>> = q
    BY <1>2
  <1>5. QED
    BY <1>3, <1>4 DEF t

LEMMA PopList ==
  ASSUME NEW S, NEW q \in Seq(S), q # <<>>, Distinct(q)
  PROVE  /\ Head(q) \in S /\ Head(q) \in Elements(q)
         /\ Tail(q) \in Seq(S) /\ Distinct(Tail(q))
         /\ Elements(Tail(q)) = Elements(q) \ {Head(q)}
  <1>1. /\ Len(q) \in Nat /\ Len(q) > 0 /\ Head(q) = q[1] /\ Tail(q) \in Seq(S)
        /\ Len(Tail(q)) = Len(q) - 1
        /\ \A i \in 1 .. Len(q) - 1 : Tail(q)[i] = q[i + 1]
        /\ \A i \in 1 .. Len(q) : q[i] \in S
    OBVIOUS
  <1>2. Head(q) \in Elements(q) /\ Head(q) \in S
    BY <1>1 DEF Elements
  <1>3. Distinct(Tail(q))
    BY <1>1 DEF Distinct
  <1>4. Elements(Tail(q)) \subseteq Elements(q) \ {Head(q)}
    <2> SUFFICES ASSUME NEW i \in 1 .. Len(q) - 1
                 PROVE  Tail(q)[i] \in Elements(q) \ {q[1]}
      BY <1>1 DEF Elements
    <2>1. Tail(q)[i] = q[i + 1] /\ i + 1 \in 1 .. Len(q) /\ i + 1 # 1 /\ 1 \in 1 .. Len(q)
      BY <1>1
    <2>2. QED
      BY <2>1 DEF Elements, Distinct
  <1>5. Elements(q) \ {Head(q)} \subseteq Elements(Tail(q))
    <2> SUFFICES ASSUME NEW i \in 1 .. Len(q), q[i] # q[1] PROVE q[i] \in Elements(Tail(q))
      BY <1>1 DEF Elements
    <2>1. i - 1 \in 1 .. Len(Tail(q)) /\ Tail(q)[i - 1] = q[i]
      BY <1>1
    <2>2. QED
      BY <2>1 DEF Elements
  <1>6. QED
    BY <1>1, <1>2, <1>3, <1>4, <1>5

LEMMA PushList ==
  ASSUME NEW S, NEW q \in Seq(S), NEW e \in S, e \notin Elements(q), Distinct(q)
  PROVE  /\ <<e>> \o q \in Seq(S) /\ Distinct(<<e>> \o q)
         /\ Elements(<<e>> \o q) = Elements(q) \cup {e}
  <1> DEFINE p == <<e>> \o q
  <1>1. /\ Len(q) \in Nat /\ p \in Seq(S) /\ Len(p) = Len(q) + 1 /\ p[1] = e
        /\ \A i \in 2 .. Len(p) : p[i] = q[i - 1] /\ i - 1 \in 1 .. Len(q)
        /\ \A i \in 1 .. Len(q) : p[i + 1] = q[i] /\ i + 1 \in 2 .. Len(p)
    OBVIOUS
  <1> HIDE DEF p
  <1>2. \A i \in 2 .. Len(p) : p[i] \in Elements(q)
    BY <1>1 DEF Elements
  <1>3. Distinct(p)
    <2> SUFFICES ASSUME NEW i \in 1 .. Len(p), NEW j \in 1 .. Len(p), i # j PROVE p[i] # p[j]
      BY DEF Distinct
    <2>1. CASE i = 1
      BY <2>1, <1>1, <1>2
    <2>2. CASE j = 1
      BY <2>2, <1>1, <1>2
    <2>3. CASE i # 1 /\ j # 1
      <3>1. i \in 2 .. Len(p) /\ j \in 2 .. Len(p) /\ i - 1 # j - 1
        BY <2>3, <1>1
      <3>2. q[i - 1] # q[j - 1]
        BY <3>1, <1>1 DEF Distinct
      <3>3. QED
        BY <3>1, <3>2, <1>1
    <2>4. QED
      BY <2>1, <2>2, <2>3
  <1>4. Elements(p) \subseteq Elements(q) \cup {e}
    <2> SUFFICES ASSUME NEW i \in 1 .. Len(p) PROVE p[i] \in Elements(q) \cup {e}
      BY DEF Elements
    <2>1. i = 1 \/ i \in 2 .. Len(p)
      BY <1>1
    <2>2. QED
      BY <2>1, <1>1, <1>2
  <1>5. Elements(q) \cup {e} \subseteq Elements(p)
    <2>1. e \in Elements(p)
      BY <1>1 DEF Elements
    <2>2. ASSUME NEW i \in 1 .. Len(q) PROVE q[i] \in Elements(p)
      <3>1. p[i + 1] = q[i] /\ i + 1 \in 1 .. Len(p)
        BY <1>1
      <3>2. QED
        BY <3>1 DEF Elements
    <2>3. QED
      BY <2>1, <2>2 DEF Elements
  <1>6. QED
    BY <1>1, <1>3, <1>4, <1>5 DEF p

LEMMA AppendList ==
  ASSUME NEW S, NEW q \in Seq(S), NEW e \in S, e \notin Elements(q), Distinct(q)
  PROVE  /\ Append(q, e) \in Seq(S) /\ Distinct(Append(q, e))
         /\ Elements(Append(q, e)) = Elements(q) \cup {e}
  <1> DEFINE p == Append(q, e)
  <1>1. /\ Len(q) \in Nat /\ p \in Seq(S) /\ Len(p) = Len(q) + 1 /\ p[Len(q) + 1] = e
        /\ \A i \in 1 .. Len(q) : p[i] = q[i] /\ i # Len(q) + 1
        /\ 1 .. Len(p) = (1 .. Len(q)) \cup {Len(q) + 1}
    OBVIOUS
  <1> HIDE DEF p
  <1>2. \A i \in 1 .. Len(q) : p[i] \in Elements(q)
    BY <1>1 DEF Elements
  <1>3. Distinct(p)
    BY <1>1, <1>2 DEF Distinct
  <1>4. Elements(p) = Elements(q) \cup {e}
    BY <1>1 DEF Elements
  <1>5. QED
    BY <1>1, <1>3, <1>4 DEF p
=============================================================================
