------------------------- MODULE ApproxLedgerProofs -------------------------
(***************************************************************************)
(* Proofs about the bookkeeping of ApproxServer: what a player was told,   *)
(* what it is still owed and what it was charged add up, nobody that waits *)
(* for an answer is forgotten, and the last STATE a player will read is    *)
(* its approximation as it stands.                                         *)
(***************************************************************************)
EXTENDS ApproxAnswerProofs

-----------------------------------------------------------------------------
(* Counting in sequences *)

(* How many elements of s are in W.                                        *)
Count(s, W) == Cardinality({k \in DOMAIN s : s[k] \in W})

(* The positions of a sequence are finitely many.                          *)
LEMMA CountType ==
    ASSUME NEW S, NEW s \in Seq(S), NEW W
    PROVE  /\ IsFiniteSet({k \in DOMAIN s : s[k] \in W}) /\ Count(s, W) \in Nat
           /\ Count(s, W) = 0 <=> \A k \in DOMAIN s : s[k] \notin W
<1> DEFINE A == {k \in DOMAIN s : s[k] \in W}
<1>1. IsFiniteSet(DOMAIN s)
  <2>1. DOMAIN s = 1..Len(s) /\ Len(s) \in Nat
    BY LenProperties
  <2> QED  BY <2>1, FS_Interval
<1>2. A \in SUBSET DOMAIN s
  OBVIOUS
<1>3. IsFiniteSet(A)
  BY <1>1, <1>2, FS_Subset
<1>4. Cardinality(A) = 0 <=> A = {}
  BY <1>3, FS_EmptySet
<1>5. Cardinality(A) \in Nat
  BY <1>3, FS_CardinalityType
<1>6. A = {} <=> \A k \in DOMAIN s : s[k] \notin W
  OBVIOUS
<1> QED  BY <1>3, <1>4, <1>5, <1>6 DEF Count

(* t is s with e put behind the first n elements.                          *)
Inserted(s, t, e, n) ==
    /\ Len(t) = Len(s) + 1
    /\ \A j \in 1..(Len(s) + 1) :
          t[j] = IF j <= n THEN s[j] ELSE IF j = n + 1 THEN e ELSE s[j - 1]

(* The positions behind an inserted element move by one, one to one.       *)
LEMMA CountShift ==
    ASSUME NEW S, NEW s \in Seq(S), NEW t \in Seq(S), NEW e, NEW W, NEW n \in 0..Len(s),
           Inserted(s, t, e, n)
    PROVE  Count(t, W) = Count(s, W) + (IF e \in W THEN 1 ELSE 0)
<1> DEFINE A == {k \in DOMAIN s : s[k] \in W}
           B == {k \in DOMAIN t : t[k] \in W}
           C == B \ {n + 1}
           f == [k \in A |-> IF k <= n THEN k ELSE k + 1]
<1> USE DEF Inserted
<1>1. /\ DOMAIN s = 1..Len(s) /\ DOMAIN t = 1..(Len(s) + 1)
      /\ Len(s) \in Nat /\ n \in Nat /\ n <= Len(s)
  BY LenProperties
<1>2. IsFiniteSet(A) /\ IsFiniteSet(B)
  BY CountType
<1>3. f \in [A -> C]
  <2> SUFFICES ASSUME NEW k \in A PROVE (IF k <= n THEN k ELSE k + 1) \in C
    OBVIOUS
  <2>1. CASE k <= n
    <3>1. k \in 1..(Len(s) + 1) /\ t[k] = s[k] /\ k # n + 1
      BY <1>1, <2>1
    <3> QED  BY <1>1, <2>1, <3>1
  <2>2. CASE ~(k <= n)
    <3>1. k + 1 \in 1..(Len(s) + 1) /\ ~(k + 1 <= n) /\ k + 1 # n + 1 /\ (k + 1) - 1 = k
      BY <1>1, <2>2
    <3>2. t[k + 1] = s[k]
      BY <3>1
    <3> QED  BY <1>1, <2>2, <3>1, <3>2
  <2> QED  BY <2>1, <2>2
<1>4. \A k, l \in A : f[k] = f[l] => k = l
  BY <1>1
<1>5. ASSUME NEW j \in C PROVE \E k \in A : f[k] = j
  <2>1. j \in 1..(Len(s) + 1) /\ t[j] \in W /\ j # n + 1
    BY <1>1
  <2>2. CASE j <= n
    <3>1. j \in A /\ f[j] = j
      BY <1>1, <2>1, <2>2
    <3> QED  BY <3>1
  <2>3. CASE ~(j <= n)
    <3>1. j - 1 \in 1..Len(s) /\ ~(j - 1 <= n) /\ t[j] = s[j - 1]
      BY <1>1, <2>1, <2>3
    <3>2. j - 1 \in A
      BY <1>1, <2>1, <3>1
    <3>3. f[j - 1] = (j - 1) + 1
      BY <3>1, <3>2
    <3> QED  BY <2>1, <3>2, <3>3
  <2> QED  BY <2>2, <2>3
<1> HIDE DEF f
<1>6. f \in Bijection(A, C)
  BY <1>3, <1>4, <1>5 DEF Bijection, Injection, Surjection, IsInjective
<1> HIDE DEF A, C
<1>7. IsFiniteSet(C) /\ Cardinality(C) = Cardinality(A)
  BY <1>2, <1>6, FS_Bijection DEF ExistsBijection
<1>8. n + 1 \in DOMAIN t /\ t[n + 1] = e
  BY <1>1
<1>9. Cardinality(A) \in Nat
  BY <1>2, FS_CardinalityType
<1>10. CASE e \in W
  <2>1. B = C \cup {n + 1} /\ n + 1 \notin C
    BY <1>8, <1>10 DEF C
  <2> HIDE DEF B
  <2>2. Cardinality(C \cup {n + 1}) = Cardinality(C) + 1
    BY <1>7, <2>1, FS_AddElement
  <2>3. Cardinality(B) = Cardinality(A) + 1
    BY <1>7, <2>1, <2>2
  <2> QED  BY <1>10, <2>3 DEF Count, A, B
<1>11. CASE e \notin W
  <2>1. B = C
    BY <1>8, <1>11 DEF C
  <2> HIDE DEF B
  <2>2. Cardinality(B) = Cardinality(A) + 0
    BY <1>7, <1>9, <2>1
  <2> QED  BY <1>11, <2>2 DEF Count, A, B
<1> QED  BY <1>10, <1>11

(* add_event counts the new event once and no other one twice.             *)
LEMMA CountInsert ==
    ASSUME NEW S, NEW s \in Seq(S), NEW e \in S, NEW W
    PROVE  Count(add_event(s, e), W) = Count(s, W) + (IF e \in W THEN 1 ELSE 0)
<1>1. PICK n \in 0..Len(s) : add_event(s, e) = InsertBehind(s, e, n)
  BY AddEventInserts
<1>2. n \in 0..Len(s)
  BY <1>1
<1> DEFINE t == InsertBehind(s, e, n)
<1>3. t \in Seq(S) /\ Inserted(s, t, e, n)
  BY <1>2, InsertProperties DEF Inserted
<1> HIDE DEF t
<1>4. Count(t, W) = Count(s, W) + (IF e \in W THEN 1 ELSE 0)
  BY <1>2, <1>3, CountShift
<1> QED  BY <1>1, <1>4 DEF t

(* The same for an element put at the end.                                 *)
LEMMA CountAppend ==
    ASSUME NEW S, NEW s \in Seq(S), NEW e \in S, NEW W
    PROVE  Count(Append(s, e), W) = Count(s, W) + (IF e \in W THEN 1 ELSE 0)
<1> DEFINE t == Append(s, e)
           n == Len(s)
<1>1. /\ t \in Seq(S) /\ Len(t) = Len(s) + 1 /\ n \in 0..Len(s) /\ Len(s) \in Nat
      /\ \A j \in 1..Len(s) : t[j] = s[j]
      /\ t[Len(s) + 1] = e
  BY AppendProperties, LenProperties
<1> HIDE DEF t
<1>2. Inserted(s, t, e, n)
  BY <1>1 DEF Inserted
<1> HIDE DEF n
<1>3. Count(t, W) = Count(s, W) + (IF e \in W THEN 1 ELSE 0)
  BY <1>1, <1>2, CountShift
<1> QED  BY <1>3 DEF t

(* And for the first element, which is taken away.                         *)
LEMMA CountTail ==
    ASSUME NEW S, NEW s \in Seq(S), s # <<>>, NEW W
    PROVE  /\ Count(Tail(s), W) \in Nat
           /\ Count(s, W) = Count(Tail(s), W) + (IF s[1] \in W THEN 1 ELSE 0)
<1> DEFINE t == Tail(s)
           e == s[1]
<1>1. t \in Seq(S) /\ Len(t) = Len(s) - 1 /\ Len(s) \in Nat \ {0}
      /\ \A j \in 1..Len(t) : t[j] = s[j + 1]
  BY HeadTailProperties, EmptySeq
<1> HIDE DEF t
<1>2. Len(s) = Len(t) + 1 /\ Len(t) \in Nat /\ 0 \in 0..Len(t)
  BY <1>1
<1>3. ASSUME NEW j \in 1..(Len(t) + 1)
      PROVE  s[j] = IF j <= 0 THEN t[j] ELSE IF j = 0 + 1 THEN e ELSE t[j - 1]
  <2>1. CASE j = 1
    BY <2>1
  <2>2. CASE j # 1
    <3>1. j - 1 \in 1..Len(t) /\ (j - 1) + 1 = j /\ ~(j <= 0)
      BY <1>2, <2>2
    <3>2. t[j - 1] = s[j]
      BY <1>1, <3>1
    <3> QED  BY <2>2, <3>1, <3>2
  <2> QED  BY <2>1, <2>2
<1> HIDE DEF e
<1>4. Inserted(t, s, e, 0)
  BY <1>2, <1>3 DEF Inserted
<1>5. Count(s, W) = Count(t, W) + (IF e \in W THEN 1 ELSE 0)
  BY <1>1, <1>2, <1>4, CountShift
<1>6. Count(t, W) \in Nat
  BY <1>1, CountType
<1> QED  BY <1>5, <1>6 DEF t, e

-----------------------------------------------------------------------------
(* What a player was told *)

(* What was sent, and what is queued behind it: Told of the model.         *)
Types(q) == [k \in DOMAIN q |-> q[k].type]
Line(s, q) == s \o Types(q)

(* The types of the queued answers.                                        *)
LEMMA TypesSeq ==
    ASSUME NEW q \in Seq(Answer)
    PROVE  /\ Types(q) \in Seq(AnswerType) /\ Len(Types(q)) = Len(q) /\ Len(q) \in Nat
           /\ \A k \in 1..Len(q) : Types(q)[k] = q[k].type
<1>1. Len(q) \in Nat /\ DOMAIN q = 1..Len(q) /\ \A k \in 1..Len(q) : q[k] \in Answer
  BY LenProperties, ElementOfSeq
<1>2. \A k \in 1..Len(q) : q[k].type \in AnswerType
  BY <1>1 DEF Answer
<1>3. Types(q) \in [1..Len(q) -> AnswerType] /\ \A k \in 1..Len(q) : Types(q)[k] = q[k].type
  BY <1>1, <1>2 DEF Types
<1> HIDE DEF Types
<1>4. Types(q) \in Seq(AnswerType)
  BY <1>1, <1>3
<1>5. Len(Types(q)) = Len(q)
  BY <1>1, <1>3, <1>4, LenProperties
<1> QED  BY <1>1, <1>3, <1>4, <1>5

(* The elements of the whole line.                                         *)
LEMMA LineElements ==
    ASSUME NEW s \in Seq(AnswerType), NEW q \in Seq(Answer)
    PROVE  /\ Line(s, q) \in Seq(AnswerType) /\ Len(Line(s, q)) = Len(s) + Len(q)
           /\ Len(s) \in Nat /\ Len(q) \in Nat
           /\ \A k \in 1..(Len(s) + Len(q)) :
                 Line(s, q)[k] = IF k <= Len(s) THEN s[k] ELSE q[k - Len(s)].type
<1> DEFINE t == Types(q)
<1>1. /\ t \in Seq(AnswerType) /\ Len(t) = Len(q) /\ Len(q) \in Nat
      /\ \A k \in 1..Len(q) : t[k] = q[k].type
  BY TypesSeq
<1> HIDE DEF t
<1>2. /\ s \o t \in Seq(AnswerType) /\ Len(s \o t) = Len(s) + Len(t)
      /\ \A k \in 1..(Len(s) + Len(t)) : (s \o t)[k] = IF k <= Len(s) THEN s[k] ELSE t[k - Len(s)]
  BY <1>1, ConcatProperties
<1>3. Len(s) \in Nat
  BY LenProperties
<1>4. ASSUME NEW k \in 1..(Len(s) + Len(q)), ~(k <= Len(s))
      PROVE  t[k - Len(s)] = q[k - Len(s)].type
  <2>1. k - Len(s) \in 1..Len(q)
    BY <1>1, <1>3, <1>4
  <2> QED  BY <1>1, <2>1
<1> QED  BY <1>1, <1>2, <1>3, <1>4 DEF Line, t

(* An answer that is queued is the last of the line.                       *)
LEMMA LineGrows ==
    ASSUME NEW s \in Seq(AnswerType), NEW q \in Seq(Answer), NEW m \in Answer
    PROVE  Line(s, Append(q, m)) = Append(Line(s, q), m.type)
<1> DEFINE r == Append(q, m)
           a == Line(s, r)
           l == Line(s, q)
           y == m.type
           b == Append(l, y)
<1>0. Len(s) \in Nat /\ Len(q) \in Nat
  BY LenProperties
<1>1. /\ r \in Seq(Answer) /\ Len(r) = Len(q) + 1 /\ Len(q) \in Nat
      /\ \A k \in 1..Len(q) : r[k] = q[k]
      /\ r[Len(q) + 1] = m
  BY AppendProperties, LenProperties
<1> HIDE DEF r
<1>2. /\ a \in Seq(AnswerType) /\ Len(a) = Len(s) + Len(r)
      /\ \A k \in 1..(Len(s) + Len(r)) : a[k] = IF k <= Len(s) THEN s[k] ELSE r[k - Len(s)].type
  BY <1>1, LineElements
<1>3. /\ l \in Seq(AnswerType) /\ Len(l) = Len(s) + Len(q) /\ Len(s) \in Nat
      /\ \A k \in 1..(Len(s) + Len(q)) : l[k] = IF k <= Len(s) THEN s[k] ELSE q[k - Len(s)].type
  BY LineElements
<1>4. y \in AnswerType /\ m.type = y
  BY DEF Answer
<1> HIDE DEF a, l, y
<1>5. /\ b \in Seq(AnswerType) /\ Len(b) = Len(l) + 1
      /\ \A k \in 1..Len(l) : b[k] = l[k]
      /\ b[Len(l) + 1] = y
  BY <1>3, <1>4, AppendProperties
<1> HIDE DEF b
<1>6. ASSUME NEW k \in 1..Len(a) PROVE a[k] = b[k]
  <2>1. k \in 1..(Len(s) + Len(r)) /\ k \in 1..(Len(s) + Len(q) + 1)
    BY <1>1, <1>2, <1>3
  <2>2. CASE k <= Len(s)
    <3>1. k \in 1..(Len(s) + Len(q)) /\ k \in 1..Len(l)
      BY <1>0, <1>3, <2>1, <2>2
    <3>2. a[k] = s[k] /\ b[k] = l[k] /\ l[k] = s[k]
      BY <1>2, <1>3, <1>5, <2>1, <2>2, <3>1
    <3> QED  BY <3>2
  <2>3. CASE ~(k <= Len(s)) /\ k <= Len(s) + Len(q)
    <3>1. k - Len(s) \in 1..Len(q) /\ k \in 1..(Len(s) + Len(q)) /\ k \in 1..Len(l)
      BY <1>1, <1>3, <2>1, <2>3
    <3>2. a[k] = r[k - Len(s)].type /\ b[k] = l[k] /\ l[k] = q[k - Len(s)].type
      BY <1>2, <1>3, <1>5, <2>1, <2>3, <3>1
    <3> QED  BY <1>1, <3>1, <3>2
  <2>4. CASE k = Len(s) + Len(q) + 1
    <3>1. k - Len(s) = Len(q) + 1 /\ k = Len(l) + 1 /\ ~(k <= Len(s))
      BY <1>1, <1>3, <2>4
    <3>2. a[k] = r[k - Len(s)].type /\ b[k] = y
      BY <1>2, <1>5, <2>1, <3>1
    <3> QED  BY <1>1, <1>4, <3>1, <3>2
  <2>5. k <= Len(s) + Len(q) \/ k = Len(s) + Len(q) + 1
    BY <1>0, <2>1
  <2> QED  BY <2>2, <2>3, <2>4, <2>5
<1>7. Len(a) = Len(b)
  BY <1>1, <1>2, <1>3, <1>5
<1>8. a = b
  BY <1>2, <1>5, <1>6, <1>7, SeqEqual
<1> QED  BY <1>8 DEF a, b, l, r, y

(* Sending the first answer of the queue does not change the line.         *)
LEMMA LineSent ==
    ASSUME NEW s \in Seq(AnswerType), NEW q \in Seq(Answer), q # <<>>
    PROVE  Line(Append(s, Head(q).type), Tail(q)) = Line(s, q)
<1> DEFINE r == Tail(q)
           h == Head(q).type
           t == Append(s, h)
           a == Line(t, r)
           l == Line(s, q)
<1>1. /\ r \in Seq(Answer) /\ Len(r) = Len(q) - 1 /\ Len(q) \in Nat \ {0}
      /\ \A k \in 1..Len(r) : r[k] = q[k + 1]
  BY HeadTailProperties, EmptySeq
<1>2. h = q[1].type /\ h \in AnswerType
  <2>1. 1 \in DOMAIN q /\ Head(q) = q[1] /\ Head(q) \in Answer
    BY TailElements, HeadTailProperties
  <2> QED  BY <2>1 DEF Answer
<1> HIDE DEF r, h
<1>3. /\ t \in Seq(AnswerType) /\ Len(t) = Len(s) + 1 /\ Len(s) \in Nat
      /\ \A k \in 1..Len(s) : t[k] = s[k]
      /\ t[Len(s) + 1] = h
  BY <1>2, AppendProperties, LenProperties
<1> HIDE DEF t
<1>4. /\ a \in Seq(AnswerType) /\ Len(a) = Len(t) + Len(r)
      /\ \A k \in 1..(Len(t) + Len(r)) : a[k] = IF k <= Len(t) THEN t[k] ELSE r[k - Len(t)].type
  BY <1>1, <1>3, LineElements
<1>5. /\ l \in Seq(AnswerType) /\ Len(l) = Len(s) + Len(q)
      /\ \A k \in 1..(Len(s) + Len(q)) : l[k] = IF k <= Len(s) THEN s[k] ELSE q[k - Len(s)].type
  BY LineElements
<1> HIDE DEF a, l
<1>6. ASSUME NEW k \in 1..Len(a) PROVE a[k] = l[k]
  <2>1. k \in 1..(Len(t) + Len(r)) /\ k \in 1..(Len(s) + Len(q))
    BY <1>1, <1>3, <1>4
  <2>2. CASE k <= Len(s)
    <3>1. k \in 1..Len(s) /\ k <= Len(t)
      BY <1>3, <2>1, <2>2
    <3>2. a[k] = t[k] /\ t[k] = s[k] /\ l[k] = s[k]
      BY <1>3, <1>4, <1>5, <2>1, <2>2, <3>1
    <3> QED  BY <3>2
  <2>3. CASE k = Len(s) + 1
    <3>1. k <= Len(t) /\ ~(k <= Len(s)) /\ k - Len(s) = 1
      BY <1>3, <2>3
    <3>2. a[k] = t[k] /\ l[k] = q[k - Len(s)].type
      BY <1>4, <1>5, <2>1, <3>1
    <3> QED  BY <1>2, <1>3, <2>3, <3>1, <3>2
  <2>4. CASE k > Len(s) + 1
    <3>1. k - Len(t) \in 1..Len(r) /\ (k - Len(t)) + 1 = k - Len(s)
          /\ ~(k <= Len(t)) /\ ~(k <= Len(s))
      BY <1>1, <1>3, <2>1, <2>4
    <3>2. a[k] = r[k - Len(t)].type /\ l[k] = q[k - Len(s)].type
      BY <1>4, <1>5, <2>1, <3>1
    <3> QED  BY <1>1, <3>1, <3>2
  <2> QED  BY <1>3, <2>1, <2>2, <2>3, <2>4
<1>7. Len(a) = Len(l)
  BY <1>1, <1>3, <1>4, <1>5
<1>8. a = l
  BY <1>4, <1>5, <1>6, <1>7, SeqEqual
<1> QED  BY <1>8 DEF a, l, t, r, h

(* Nor does sending a part of it.                                          *)
LEMMA LinePartly ==
    ASSUME NEW s \in Seq(AnswerType), NEW q \in Seq(Answer), q # <<>>
    PROVE  Line(s, <<[Head(q) EXCEPT !.rest = TRUE]>> \o Tail(q)) = Line(s, q)
<1> DEFINE h == [Head(q) EXCEPT !.rest = TRUE]
           r == <<h>> \o Tail(q)
<1>1. Len(q) \in Nat \ {0} /\ DOMAIN q = 1..Len(q) /\ Head(q) = q[1] /\ Head(q) \in Answer
  BY EmptySeq, LenProperties, HeadTailProperties
<1>2. h \in Answer /\ h.type = q[1].type
  BY <1>1 DEF Answer
<1> HIDE DEF h
<1>3. /\ r \in Seq(Answer) /\ Len(r) = Len(q) /\ DOMAIN r = DOMAIN q /\ r[1] = h
      /\ \A k \in DOMAIN q : k # 1 => r[k] = q[k]
  BY <1>2, FrontElements
<1> HIDE DEF r
<1>4. \A k \in 1..Len(q) : r[k].type = q[k].type
  BY <1>1, <1>2, <1>3
<1>5. Types(r) = Types(q)
  BY <1>1, <1>3, <1>4 DEF Types
<1> QED  BY <1>5 DEF Line, r, h

-----------------------------------------------------------------------------
(* What a step does to one player *)

AnswerKind == {"STATE", "BAD_PUT"}
Wanted(kind, fd, a) == {e \in Event : e.kind = kind /\ e.fd = fd /\ e.addr = a}
Heard(g) == Line(got[players[g].addr], players[g].messages)
Waits(g, kind) == Count(events, Wanted(kind, g, players[g].addr))

Remains(g) ==
    /\ Stays(g)
    /\ stopping => stopping'
SameWaits(g) == \A kind \in AnswerKind : Waits(g, kind)' = Waits(g, kind)
SameAccount(g) ==
    /\ players'[g].penalty = players[g].penalty
    /\ players'[g].correct_puts = players[g].correct_puts
    /\ players'[g].approximations = players[g].approximations
BothKnown(g) == players[g].is_known /\ players'[g].is_known

SeatNew(g) ==
    /\ ~players'[g].is_known /\ ~players'[g].can_put /\ Heard(g)' = <<>>
    /\ players'[g].penalty = 0 /\ players'[g].correct_puts = 0
    /\ players'[g].approximations = Zeros
    /\ \A kind \in AnswerKind : Waits(g, kind)' = 0
    /\ Waits(g, "HELLO")' > 0
SeatKept(g) ==
    /\ Remains(g) /\ SameAccount(g) /\ SameWaits(g) /\ Heard(g)' = Heard(g)
    /\ players'[g].is_known = players[g].is_known
    /\ players'[g].can_put = players[g].can_put
    /\ ~players[g].is_known => Waits(g, "HELLO")' = Waits(g, "HELLO")
SeatHello(g) ==
    /\ Remains(g) /\ SameAccount(g) /\ SameWaits(g)
    /\ Heard(g)' = Append(Heard(g), "COEFF")
    /\ ~players[g].is_known /\ players'[g].is_known /\ players'[g].can_put
SeatRejected(g, early, bad) ==
    /\ Remains(g) /\ BothKnown(g) /\ (early \/ bad)
    /\ early <=> ~players[g].can_put
    /\ ~players'[g].can_put
    /\ players'[g].penalty = players[g].penalty + Charge(early, bad)
    /\ players'[g].correct_puts = players[g].correct_puts
    /\ players'[g].approximations = players[g].approximations
    /\ Heard(g)' = IF early THEN Append(Heard(g), "PENALTY") ELSE Heard(g)
    /\ Waits(g, "STATE")' = Waits(g, "STATE")
    /\ Waits(g, "BAD_PUT")' = Waits(g, "BAD_PUT") + (IF bad THEN 1 ELSE 0)
SeatPut(g) ==
    /\ Remains(g) /\ BothKnown(g) /\ ~players'[g].can_put
    /\ players'[g].penalty = players[g].penalty
    /\ players'[g].correct_puts = players[g].correct_puts + 1
    /\ Heard(g)' = IF stopping' THEN Append(Heard(g), "SCORING") ELSE Heard(g)
    /\ Waits(g, "STATE")' = Waits(g, "STATE") + 1
    /\ Waits(g, "BAD_PUT")' = Waits(g, "BAD_PUT")
SeatScored(g) ==
    /\ Remains(g) /\ BothKnown(g) /\ SameAccount(g) /\ SameWaits(g) /\ stopping'
    /\ Heard(g)' = Append(Heard(g), "SCORING")
SeatWatches(g) ==
    /\ Remains(g) /\ SameAccount(g) /\ SameWaits(g)
    /\ players'[g].is_known = players[g].is_known
    /\ players'[g].can_put = players[g].can_put
    /\ Heard(g)' = IF stopping' /\ players[g].is_known THEN Append(Heard(g), "SCORING")
                   ELSE Heard(g)
    /\ Waits(g, "HELLO")' = Waits(g, "HELLO")
SeatAnswered(g, kind) ==
    /\ Remains(g) /\ BothKnown(g) /\ SameAccount(g) /\ players'[g].can_put
    /\ Heard(g)' = Append(Heard(g), kind)
    /\ \A other \in AnswerKind :
          Waits(g, other) = Waits(g, other)' + (IF other = kind THEN 1 ELSE 0)

SeatStep(g) ==
    \/ SeatNew(g) \/ SeatKept(g) \/ SeatHello(g) \/ SeatPut(g) \/ SeatScored(g)
    \/ \E early, bad \in BOOLEAN : SeatRejected(g, early, bad)
    \/ \E kind \in AnswerKind : SeatAnswered(g, kind)

(* Events that are not of the kind counted do not count.                   *)
LEMMA OtherEvents ==
    ASSUME TypeInv, NEW W,
           \/ events' = events
           \/ events # <<>> /\ events' = Tail(events) /\ events[1] \notin W
           \/ \E e \in Event : e \notin W /\ events' = add_event(events, e)
    PROVE  Count(events', W) = Count(events, W)
<1>1. events \in Seq(Event)
  BY TypeParts DEF TypeInv, GameType
<1>2. Count(events, W) \in Nat
  BY <1>1, CountType
<1>3. CASE events # <<>> /\ events' = Tail(events) /\ events[1] \notin W
  <2>1. /\ Count(Tail(events), W) \in Nat
        /\ Count(events, W) = Count(Tail(events), W) + (IF events[1] \in W THEN 1 ELSE 0)
    BY <1>1, <1>3, CountTail
  <2> QED  BY <1>3, <2>1
<1>4. ASSUME NEW e \in Event, e \notin W, events' = add_event(events, e)
      PROVE  Count(events', W) = Count(events, W)
  <2>1. Count(add_event(events, e), W) = Count(events, W) + (IF e \in W THEN 1 ELSE 0)
    BY <1>1, CountInsert
  <2> QED  BY <1>2, <1>4, <2>1
<1> QED  BY <1>3, <1>4

(* Nor does the passing of time.                                           *)
LEMMA TickedEvents ==
    ASSUME TypeInv, Tick, NEW kind, NEW fd, NEW a
    PROVE  Count(events', Wanted(kind, fd, a)) = Count(events, Wanted(kind, fd, a))
<1>1. /\ DOMAIN events' = DOMAIN events /\ TypeInv'
      /\ \A k \in DOMAIN events : events'[k] = [events[k] EXCEPT !.due = events[k].due - 1]
  BY TickEffect
<1>2. events \in Seq(Event) /\ events' \in Seq(Event)
  BY <1>1, TypeParts, TypePartsPrime DEF TypeInv, GameType
<1>3. \A k \in DOMAIN events : events[k] \in Event /\ events'[k] \in Event
  BY <1>1, <1>2
<1>4. \A k \in DOMAIN events : events'[k].kind = events[k].kind /\ events'[k].fd = events[k].fd
                               /\ events'[k].addr = events[k].addr
  BY <1>1, <1>3 DEF Event
<1>5. {k \in DOMAIN events' : events'[k] \in Wanted(kind, fd, a)}
        = {k \in DOMAIN events : events[k] \in Wanted(kind, fd, a)}
  BY <1>1, <1>3, <1>4 DEF Wanted
<1> QED  BY <1>5 DEF Count

(* The parts of the invariant, and what is known of a player.              *)
LEMMA PlayerFacts ==
    ASSUME AddrInv
    PROVE  /\ StepInv /\ TypeInv /\ Seats /\ Callbacks /\ SilentBefore
           /\ events \in Seq(Event) /\ got \in [Addr -> Seq(AnswerType)]
           /\ \A g \in DOMAIN players :
                 /\ players[g] \in PlayerInfo /\ players[g].addr \in Addr
                 /\ players[g].messages \in Seq(Answer)
                 /\ got[players[g].addr] \in Seq(AnswerType)
                 /\ \A kind : Waits(g, kind) \in Nat
<1>1. /\ StepInv /\ TypeInv /\ GameType /\ KernelType /\ Seats /\ Callbacks /\ SilentBefore
      /\ events \in Seq(Event) /\ got \in [Addr -> Seq(AnswerType)]
  BY TypeParts DEF AddrInv, StepInv, TypeInv, GameType, KernelType
<1>2. ASSUME NEW g \in DOMAIN players
      PROVE  /\ players[g] \in PlayerInfo /\ players[g].addr \in Addr
             /\ players[g].messages \in Seq(Answer) /\ got[players[g].addr] \in Seq(AnswerType)
             /\ \A kind : Waits(g, kind) \in Nat
  <2>1. players[g] \in PlayerInfo
    BY <1>1 DEF GameType
  <2>2. players[g].addr \in Addr /\ players[g].messages \in Seq(Answer)
    BY <2>1 DEF PlayerInfo
  <2>3. \A kind : Waits(g, kind) \in Nat
    BY <1>1, CountType DEF Waits
  <2> QED  BY <1>1, <2>1, <2>2, <2>3
<1> QED  BY <1>1, <1>2

(* A player that a step leaves alone, in the table and among the events.   *)
LEMMA KeptSeat ==
    ASSUME NEW g \in DOMAIN players, g \in DOMAIN players', players'[g] = players[g],
           stopping => stopping',
           got'[players[g].addr] = got[players[g].addr],
           \A kind \in AnswerKind : Count(events', Wanted(kind, g, players[g].addr))
                                      = Count(events, Wanted(kind, g, players[g].addr)),
           ~players[g].is_known =>
              Count(events', Wanted("HELLO", g, players[g].addr))
                = Count(events, Wanted("HELLO", g, players[g].addr))
    PROVE  SeatKept(g)
<1>1. Remains(g) /\ SameAccount(g)
  BY DEF Remains, Stays, SameAccount
<1>2. SameWaits(g) /\ (~players[g].is_known => Waits(g, "HELLO")' = Waits(g, "HELLO"))
  BY DEF SameWaits, Waits
<1>3. Heard(g)' = Heard(g)
  BY DEF Heard
<1> QED  BY <1>1, <1>2, <1>3 DEF SeatKept

(* A step that leaves the game alone leaves every player alone.            *)
LEMMA QuietSeats ==
    ASSUME AddrInv, Quiet
    PROVE  \A g \in DOMAIN players : SeatKept(g)
<1>a. /\ StepInv /\ TypeInv /\ Seats /\ Callbacks /\ SilentBefore
      /\ events \in Seq(Event) /\ got \in [Addr -> Seq(AnswerType)]
  BY PlayerFacts
<1>1. players' = players /\ events' = events /\ got' = got /\ stopping' = stopping
  BY DEF Quiet, gameVars
<1> QED  BY <1>1, KeptSeat

(* So does the passing of time.                                            *)
LEMMA TickSeats ==
    ASSUME AddrInv, Tick
    PROVE  \A g \in DOMAIN players : SeatKept(g)
<1>a. /\ StepInv /\ TypeInv /\ Seats /\ Callbacks /\ SilentBefore
      /\ events \in Seq(Event) /\ got \in [Addr -> Seq(AnswerType)]
  BY PlayerFacts
<1>1. UNCHANGED <<players, stopping, got>>
  BY DEF Tick
<1>2. ASSUME NEW kind, NEW g
      PROVE  Count(events', Wanted(kind, g, players[g].addr))
               = Count(events, Wanted(kind, g, players[g].addr))
  BY <1>a, TickedEvents
<1> QED  BY KeptSeat, <1>1, <1>2

(* A callback that does nothing.                                           *)
LEMMA SkipSeats ==
    ASSUME AddrInv, SkipEvent
    PROVE  \A g \in DOMAIN players : SeatKept(g)
<1>a. /\ StepInv /\ TypeInv /\ Seats /\ Callbacks /\ SilentBefore
      /\ events \in Seq(Event) /\ got \in [Addr -> Seq(AnswerType)]
  BY PlayerFacts
<1>1. /\ UNCHANGED <<players, stopping, got>> /\ events' = Tail(events) /\ events # <<>>
      /\ ~LiveEvent(events[1])
  BY DEF SkipEvent, Due
<1>2. 1 \in DOMAIN events
  BY <1>a, <1>1, TailElements
<1>3. ASSUME NEW g \in DOMAIN players, NEW kind \in AnswerKind
      PROVE  events[1] \notin Wanted(kind, g, players[g].addr)
  BY <1>a, <1>1, <1>2 DEF Callbacks, LiveEvent, validate_client, is_client_connected,
                          Wanted, AnswerKind
<1>4. ASSUME NEW g \in DOMAIN players, ~players[g].is_known
      PROVE  events[1] \notin Wanted("HELLO", g, players[g].addr)
  BY <1>1, <1>4 DEF LiveEvent, validate_client, is_client_connected, Wanted
<1>5. ASSUME NEW g \in DOMAIN players, NEW kind,
             events[1] \notin Wanted(kind, g, players[g].addr)
      PROVE  Count(events', Wanted(kind, g, players[g].addr))
               = Count(events, Wanted(kind, g, players[g].addr))
  BY <1>a, <1>1, <1>5, OtherEvents
<1> QED  BY KeptSeat, <1>1, <1>3, <1>4, <1>5

(* A callback that answers a PUT.                                          *)
LEMMA AnswerSeats ==
    ASSUME AddrInv, AnswerEvent
    PROVE  LET e == events[1] IN
           /\ e.fd \in DOMAIN players /\ players[e.fd].addr = e.addr
           /\ e.kind \in AnswerKind /\ SeatAnswered(e.fd, e.kind)
           /\ DOMAIN players' = DOMAIN players
           /\ \A g \in DOMAIN players : g # e.fd => SeatKept(g)
<1>a. /\ StepInv /\ TypeInv /\ Seats /\ Callbacks /\ SilentBefore
      /\ events \in Seq(Event) /\ got \in [Addr -> Seq(AnswerType)]
  BY PlayerFacts
<1>b. \A g \in DOMAIN players :
          /\ players[g] \in PlayerInfo /\ players[g].addr \in Addr
          /\ players[g].messages \in Seq(Answer) /\ got[players[g].addr] \in Seq(AnswerType)
          /\ \A kind : Waits(g, kind) \in Nat
  BY PlayerFacts
<1>0. PICK e \in Event, fd \in DOMAIN players : e = events[1] /\ fd = e.fd
  BY <1>a, AnswerEffect
<1> DEFINE m == MakeAnswer(e.kind, e.addr, e.approx)
<1>1. /\ e \in Event /\ e.kind # "HELLO" /\ fd \in DOMAIN players
      /\ players[fd].addr = e.addr
      /\ m \in Answer /\ DOMAIN players' = DOMAIN players
      /\ players'[fd] = [players[fd] EXCEPT !.messages = Append(players[fd].messages, m),
                                            !.can_put = TRUE]
      /\ \A g \in DOMAIN players : g # fd => players'[g] = players[g]
      /\ events # <<>> /\ events' = Tail(events)
      /\ stopping' = stopping /\ got' = got
  BY <1>a, <1>0, AnswerEffect
<1>2. m.type = e.kind /\ e.kind \in AnswerKind
  BY <1>1 DEF MakeAnswer, Event, EventKind, AnswerKind
<1>3. players[fd].is_known
  <2>1. 1 \in DOMAIN events
    BY <1>a, <1>1, TailElements
  <2> QED  BY <1>a, <1>0, <1>1, <2>1 DEF Callbacks
<1> HIDE DEF m
<1>4. /\ players'[fd].addr = players[fd].addr
      /\ players'[fd].messages = Append(players[fd].messages, m)
      /\ players'[fd].is_known = players[fd].is_known
      /\ players'[fd].penalty = players[fd].penalty
      /\ players'[fd].correct_puts = players[fd].correct_puts
      /\ players'[fd].approximations = players[fd].approximations
      /\ players'[fd].can_put
  BY <1>b, <1>1 DEF PlayerInfo
<1>5. Heard(fd)' = Append(Heard(fd), e.kind)
  <2>1. Line(got[players[fd].addr], Append(players[fd].messages, m))
          = Append(Line(got[players[fd].addr], players[fd].messages), m.type)
    BY <1>b, <1>1, LineGrows
  <2> QED  BY <1>1, <1>2, <1>4, <2>1 DEF Heard
<1>6. ASSUME NEW other \in AnswerKind
      PROVE  Waits(fd, other) = Waits(fd, other)' + (IF other = e.kind THEN 1 ELSE 0)
  <2> DEFINE W == Wanted(other, fd, players[fd].addr)
  <2>1. e \in W <=> other = e.kind
    BY <1>0, <1>1 DEF Wanted
  <2> HIDE DEF W
  <2>2. Count(events, W) = Count(Tail(events), W) + (IF e \in W THEN 1 ELSE 0)
    BY <1>a, <1>0, <1>1, CountTail
  <2>3. Waits(fd, other) = Count(events, W) /\ Waits(fd, other)' = Count(Tail(events), W)
    BY <1>1, <1>4 DEF Waits, W
  <2> QED  BY <2>1, <2>2, <2>3
<1>7. SeatAnswered(fd, e.kind)
  <2>1. Remains(fd) /\ BothKnown(fd) /\ SameAccount(fd)
    BY <1>1, <1>3, <1>4 DEF Remains, Stays, BothKnown, SameAccount
  <2> QED  BY <1>4, <1>5, <1>6, <2>1 DEF SeatAnswered
<1>8. ASSUME NEW g \in DOMAIN players, g # fd, NEW kind
      PROVE  Count(events', Wanted(kind, g, players[g].addr))
               = Count(events, Wanted(kind, g, players[g].addr))
  <2>1. events[1] \notin Wanted(kind, g, players[g].addr)
    BY <1>0, <1>8 DEF Wanted
  <2> QED  BY <1>a, <1>1, <2>1, OtherEvents
<1>9. ASSUME NEW g \in DOMAIN players, g # fd PROVE SeatKept(g)
  BY KeptSeat, <1>1, <1>8, <1>9
<1> QED  BY <1>0, <1>1, <1>2, <1>7, <1>9

(* A new connection.                                                       *)
LEMMA AcceptSeats ==
    ASSUME AddrInv, NEW a \in Addr, Accept(a), sent' = sent
    PROVE  \E fd \in FD :
              /\ fd \notin DOMAIN players /\ DOMAIN players' = DOMAIN players \cup {fd}
              /\ players'[fd].addr = a /\ SeatNew(fd)
              /\ client_buffers' = [client_buffers EXCEPT ![fd] = <<>>]
              /\ \A g \in DOMAIN players : SeatKept(g)
<1>a. /\ StepInv /\ TypeInv /\ Seats /\ Callbacks /\ SilentBefore
      /\ events \in Seq(Event) /\ got \in [Addr -> Seq(AnswerType)]
  BY PlayerFacts
<1>1. PICK fd \in FD :
           LET e == [kind |-> "HELLO", due |-> hello_wait_time, fd |-> fd,
                     addr |-> a, id |-> UNKNOWN, approx |-> Zeros] IN
           /\ fd \notin DOMAIN players /\ DOMAIN players' = DOMAIN players \cup {fd}
           /\ players'[fd] = NewPlayer(a)
           /\ \A g \in DOMAIN players : players'[g] = players[g]
           /\ e \in Event /\ events' = add_event(events, e)
           /\ client_buffers' = [client_buffers EXCEPT ![fd] = <<>>]
  BY <1>a, AcceptEffect
<1> DEFINE e == [kind |-> "HELLO", due |-> hello_wait_time, fd |-> fd,
                 addr |-> a, id |-> UNKNOWN, approx |-> Zeros]
<1>2. /\ e \in Event /\ e.kind = "HELLO" /\ e.fd = fd /\ e.addr = a
      /\ events' = add_event(events, e)
  BY <1>1
<1> HIDE DEF e
<1>3. conn[a].st = "backlog" /\ UNCHANGED <<stopping, got>>
  BY DEF Accept
<1>4. /\ players'[fd].addr = a /\ players'[fd].messages = <<>> /\ ~players'[fd].is_known
      /\ players'[fd].penalty = 0 /\ players'[fd].correct_puts = 0
      /\ players'[fd].approximations = Zeros /\ ~players'[fd].can_put
  BY <1>1 DEF NewPlayer
<1>5. ASSUME NEW kind
      PROVE  Waits(fd, kind)' = IF kind = "HELLO" THEN 1 ELSE 0
  <2> DEFINE W == Wanted(kind, fd, a)
  <2>1. \A k \in DOMAIN events : events[k] \notin W
    BY <1>a, <1>3 DEF Callbacks, Wanted
  <2>2. e \in W <=> kind = "HELLO"
    BY <1>2 DEF Wanted
  <2> HIDE DEF W
  <2>3. Count(events, W) = 0
    BY <1>a, <2>1, CountType
  <2>4. Count(add_event(events, e), W) = Count(events, W) + (IF e \in W THEN 1 ELSE 0)
    BY <1>a, <1>2, CountInsert
  <2>5. Waits(fd, kind)' = Count(events', W)
    BY <1>4 DEF Waits, W
  <2> QED  BY <1>2, <2>2, <2>3, <2>4, <2>5
<1>6. Heard(fd)' = <<>>
  <2>1. got'[a] = <<>>
    BY <1>a, <1>3 DEF SilentBefore
  <2>2. Types(<<>>) = <<>>
    <3>1. <<>> \in Seq(Answer)
      BY EmptySeq
    <3>2. Types(<<>>) \in Seq(AnswerType) /\ Len(Types(<<>>)) = 0
      BY <3>1, TypesSeq, EmptySeq
    <3> QED  BY <3>2, EmptySeq
  <2>3. <<>> \o <<>> = <<>>
    <3>1. <<>> \in Seq(AnswerType)
      BY EmptySeq
    <3> QED  BY <3>1, ConcatEmptySeq
  <2> QED  BY <1>4, <2>1, <2>2, <2>3 DEF Heard, Line
<1>7. SeatNew(fd)
  BY <1>4, <1>5, <1>6 DEF SeatNew, AnswerKind
<1>8. ASSUME NEW g \in DOMAIN players, NEW kind
      PROVE  Count(events', Wanted(kind, g, players[g].addr))
               = Count(events, Wanted(kind, g, players[g].addr))
  <2>1. e \notin Wanted(kind, g, players[g].addr)
    BY <1>1, <1>2 DEF Wanted
  <2> QED  BY <1>a, <1>2, <2>1, OtherEvents
<1>9. ASSUME NEW g \in DOMAIN players PROVE SeatKept(g)
  BY KeptSeat, <1>1, <1>3, <1>8
<1> QED  BY <1>1, <1>4, <1>7, <1>9

(* A HELLO.                                                                *)
LEMMA HelloSeats ==
    ASSUME AddrInv, NEW fd \in FD, NEW id \in PlayerId, ReadHello(fd, id), sent' = sent
    PROVE  /\ fd \in DOMAIN players /\ DOMAIN players' = DOMAIN players
           /\ SeatHello(fd)
           /\ \A g \in DOMAIN players : g # fd => SeatKept(g)
<1>a. /\ StepInv /\ TypeInv /\ Seats /\ Callbacks /\ SilentBefore
      /\ events \in Seq(Event) /\ got \in [Addr -> Seq(AnswerType)]
  BY PlayerFacts
<1>b. \A g \in DOMAIN players :
          /\ players[g] \in PlayerInfo /\ players[g].addr \in Addr
          /\ players[g].messages \in Seq(Answer) /\ got[players[g].addr] \in Seq(AnswerType)
          /\ \A kind : Waits(g, kind) \in Nat
  BY PlayerFacts
<1> DEFINE m == MakeAnswer("COEFF", players[fd].addr, Zeros)
<1>1. /\ fd \in DOMAIN players /\ DOMAIN players' = DOMAIN players
      /\ ~players[fd].is_known /\ m \in Answer
      /\ players'[fd] =
           [players[fd] EXCEPT !.messages = Append(players[fd].messages, m),
               !.id = id, !.is_known = TRUE, !.can_put = TRUE, !.coefficients = coeff_file + 1]
      /\ \A g \in DOMAIN players : g # fd => players'[g] = players[g]
  BY <1>a, HelloEffect
<1>2. UNCHANGED <<stopping, got, events>>
  BY DEF ReadHello
<1>3. m.type = "COEFF"
  BY DEF MakeAnswer
<1> HIDE DEF m
<1>4. /\ players'[fd].addr = players[fd].addr
      /\ players'[fd].messages = Append(players[fd].messages, m)
      /\ players'[fd].is_known /\ players'[fd].can_put
      /\ players'[fd].penalty = players[fd].penalty
      /\ players'[fd].correct_puts = players[fd].correct_puts
      /\ players'[fd].approximations = players[fd].approximations
  BY <1>b, <1>1 DEF PlayerInfo
<1>5. Heard(fd)' = Append(Heard(fd), "COEFF")
  <2>1. Line(got[players[fd].addr], Append(players[fd].messages, m))
          = Append(Line(got[players[fd].addr], players[fd].messages), m.type)
    BY <1>b, <1>1, LineGrows
  <2> QED  BY <1>2, <1>3, <1>4, <2>1 DEF Heard
<1>6. SeatHello(fd)
  <2>1. Remains(fd) /\ SameAccount(fd)
    BY <1>1, <1>2, <1>4 DEF Remains, Stays, SameAccount
  <2>2. SameWaits(fd)
    BY <1>2, <1>4 DEF SameWaits, Waits
  <2> QED  BY <1>1, <1>4, <1>5, <2>1, <2>2 DEF SeatHello
<1>7. ASSUME NEW g \in DOMAIN players, g # fd PROVE SeatKept(g)
  BY KeptSeat, <1>1, <1>2, <1>7
<1> QED  BY <1>1, <1>6, <1>7

(* A PUT that is early or out of range.                                    *)
LEMMA RejectedSeats ==
    ASSUME AddrInv, NEW fd \in FD, NEW p \in Points, NEW v \in Values, ReadRejectedPut(fd, p, v),
           sent' = sent
    PROVE  /\ fd \in DOMAIN players /\ DOMAIN players' = DOMAIN players
           /\ \E early, bad \in BOOLEAN : /\ bad <=> OutOfRange(p, v)
                                         /\ SeatRejected(fd, early, bad)
           /\ \A g \in DOMAIN players : g # fd => SeatKept(g)
<1>a. /\ StepInv /\ TypeInv /\ Seats /\ Callbacks /\ SilentBefore
      /\ events \in Seq(Event) /\ got \in [Addr -> Seq(AnswerType)]
  BY PlayerFacts
<1>b. \A g \in DOMAIN players :
          /\ players[g] \in PlayerInfo /\ players[g].addr \in Addr
          /\ players[g].messages \in Seq(Answer) /\ got[players[g].addr] \in Seq(AnswerType)
          /\ \A kind : Waits(g, kind) \in Nat
  BY PlayerFacts
<1>1. PICK early \in BOOLEAN, bad \in BOOLEAN, e \in Event, m \in Answer :
           /\ (early <=> ~players[fd].can_put) /\ (bad <=> OutOfRange(p, v))
           /\ e = respond_with_bad_put(fd, players[fd])
           /\ m = MakeAnswer("PENALTY", players[fd].addr, Zeros)
  <2>1. /\ respond_with_bad_put(fd, players[fd]) \in Event
        /\ MakeAnswer("PENALTY", players[fd].addr, Zeros) \in Answer
    BY <1>a, RejectedPutEffect
  <2>2. \E b \in BOOLEAN : b <=> ~players[fd].can_put
    OBVIOUS
  <2>3. \E b \in BOOLEAN : b <=> OutOfRange(p, v)
    OBVIOUS
  <2> QED  BY <2>1, <2>2, <2>3
<1>2. /\ fd \in DOMAIN players /\ DOMAIN players' = DOMAIN players
      /\ players[fd].is_known /\ (early \/ bad)
      /\ players'[fd] = Rejected(players[fd], ~players[fd].can_put, OutOfRange(p, v))
      /\ \A g \in DOMAIN players : g # fd => players'[g] = players[g]
      /\ events' = IF bad THEN add_event(events, e) ELSE events
  BY <1>a, <1>1, RejectedPutEffect
<1>3. UNCHANGED <<stopping, got>>
  BY DEF ReadRejectedPut
<1>4. m.type = "PENALTY" /\ e.kind = "BAD_PUT" /\ e.fd = fd /\ e.addr = players[fd].addr
  BY <1>1 DEF MakeAnswer, respond_with_bad_put
<1>5. /\ players'[fd].addr = players[fd].addr
      /\ players'[fd].is_known = players[fd].is_known /\ ~players'[fd].can_put
      /\ players'[fd].correct_puts = players[fd].correct_puts
      /\ players'[fd].approximations = players[fd].approximations
      /\ players'[fd].penalty = players[fd].penalty + Charge(~players[fd].can_put, OutOfRange(p, v))
      /\ players'[fd].messages = IF ~players[fd].can_put THEN Append(players[fd].messages, m)
                                 ELSE players[fd].messages
  <2>1. players[fd] \in PlayerInfo
    BY <1>b, <1>2
  <2> DEFINE was == players[fd]
             x == ~players[fd].can_put
             y == OutOfRange(p, v)
  <2> HIDE DEF was, x, y
  <2>2. LET new == Rejected(was, x, y) IN
        /\ new.addr = was.addr /\ new.is_known = was.is_known /\ ~new.can_put
        /\ new.correct_puts = was.correct_puts
        /\ new.approximations = was.approximations
        /\ new.penalty = was.penalty + Charge(x, y)
        /\ new.messages = IF x THEN Append(was.messages, MakeAnswer("PENALTY", was.addr, Zeros))
                          ELSE was.messages
    BY <2>1, RejectedKeeps DEF was
  <2> QED  BY <1>1, <1>2, <2>2 DEF was, x, y
<1>6. Charge(~players[fd].can_put, OutOfRange(p, v)) = Charge(early, bad)
  BY <1>1 DEF Charge
<1>7. Heard(fd)' = IF early THEN Append(Heard(fd), "PENALTY") ELSE Heard(fd)
  <2>1. Line(got[players[fd].addr], Append(players[fd].messages, m))
          = Append(Line(got[players[fd].addr], players[fd].messages), m.type)
    BY <1>b, <1>2, LineGrows
  <2>2. CASE early
    BY <1>1, <1>3, <1>4, <1>5, <2>1, <2>2 DEF Heard
  <2>3. CASE ~early
    BY <1>1, <1>3, <1>5, <2>3 DEF Heard
  <2> QED  BY <2>2, <2>3
<1>8. ASSUME NEW g \in DOMAIN players, NEW kind, kind # "BAD_PUT" \/ g # fd
      PROVE  Count(events', Wanted(kind, g, players[g].addr))
               = Count(events, Wanted(kind, g, players[g].addr))
  <2>1. e \notin Wanted(kind, g, players[g].addr)
    BY <1>4, <1>8 DEF Wanted
  <2> QED  BY <1>a, <1>2, <2>1, OtherEvents
<1>9. Waits(fd, "BAD_PUT")' = Waits(fd, "BAD_PUT") + (IF bad THEN 1 ELSE 0)
  <2> DEFINE W == Wanted("BAD_PUT", fd, players[fd].addr)
  <2>1. e \in W
    BY <1>4 DEF Wanted
  <2> HIDE DEF W
  <2>2. Count(add_event(events, e), W) = Count(events, W) + (IF e \in W THEN 1 ELSE 0)
    BY <1>a, CountInsert
  <2>3. Count(events, W) \in Nat
    BY <1>a, CountType
  <2>4. Count(events', W) = Count(events, W) + (IF bad THEN 1 ELSE 0)
    BY <1>2, <2>1, <2>2, <2>3
  <2> QED  BY <1>5, <2>4 DEF Waits, W
<1>10. Waits(fd, "STATE")' = Waits(fd, "STATE")
  BY <1>2, <1>5, <1>8 DEF Waits
<1>11. SeatRejected(fd, early, bad)
  <2>1. Remains(fd) /\ BothKnown(fd)
    BY <1>2, <1>3, <1>5 DEF Remains, Stays, BothKnown
  <2> QED  BY <1>1, <1>2, <1>5, <1>6, <1>7, <1>9, <1>10, <2>1 DEF SeatRejected
<1>12. ASSUME NEW g \in DOMAIN players, g # fd PROVE SeatKept(g)
  BY KeptSeat, <1>2, <1>3, <1>8, <1>12
<1> QED  BY <1>1, <1>2, <1>11, <1>12

(* A correct PUT; the others may see the end of the game.                  *)
LEMMA PutSeats ==
    ASSUME AddrInv, NEW fd \in FD, NEW p \in Points, NEW v \in Values, ReadPut(fd, p, v),
           sent' = sent
    PROVE  /\ fd \in DOMAIN players /\ DOMAIN players' = DOMAIN players /\ stopping' \in BOOLEAN
           /\ SeatPut(fd)
           /\ players'[fd].approximations = Put(players[fd].approximations, p, v)
           /\ \A g \in DOMAIN players : g # fd => SeatWatches(g)
<1>a. /\ StepInv /\ TypeInv /\ Seats /\ Callbacks /\ SilentBefore
      /\ events \in Seq(Event) /\ got \in [Addr -> Seq(AnswerType)]
  BY PlayerFacts
<1>b. \A g \in DOMAIN players :
          /\ players[g] \in PlayerInfo /\ players[g].addr \in Addr
          /\ players[g].messages \in Seq(Answer) /\ got[players[g].addr] \in Seq(AnswerType)
          /\ \A kind : Waits(g, kind) \in Nat
  BY PlayerFacts
<1>1. PICK e \in Event :
           e = respond_with_state(fd, players[fd], Put(players[fd].approximations, p, v))
  BY <1>a, PutEffect
<1>2. /\ fd \in DOMAIN players /\ DOMAIN players' = DOMAIN players
      /\ players[fd].is_known /\ Improved(players[fd], p, v) \in PlayerInfo
      /\ players'[fd] = Final(Improved(players[fd], p, v), stopping')
      /\ \A g \in DOMAIN players : g # fd => players'[g] = Final(players[g], stopping')
      /\ events' = add_event(events, e)
      /\ TypeInv'
  BY <1>a, <1>1, PutEffect
<1>3. got' = got /\ ~stopping
  BY DEF ReadPut, Takes
<1>4. stopping' \in BOOLEAN
  <2>1. GameType'
    BY <1>2, TypePartsPrime DEF TypeInv
  <2> QED  BY <2>1 DEF GameType
<1>5. e.kind = "STATE" /\ e.fd = fd /\ e.addr = players[fd].addr
  BY <1>1 DEF respond_with_state
<1>6. ASSUME NEW g \in DOMAIN players, NEW kind, kind # "STATE" \/ g # fd
      PROVE  Count(events', Wanted(kind, g, players[g].addr))
               = Count(events, Wanted(kind, g, players[g].addr))
  <2>1. e \notin Wanted(kind, g, players[g].addr)
    BY <1>5, <1>6 DEF Wanted
  <2> QED  BY <1>a, <1>2, <2>1, OtherEvents
<1>7. ASSUME NEW g \in DOMAIN players, NEW player \in PlayerInfo,
             players'[g] = Final(player, stopping'), player.addr = players[g].addr,
             player.messages = players[g].messages, player.is_known = players[g].is_known
      PROVE  /\ players'[g].addr = players[g].addr
             /\ players'[g].is_known = players[g].is_known
             /\ players'[g].can_put = player.can_put
             /\ players'[g].penalty = player.penalty
             /\ players'[g].correct_puts = player.correct_puts
             /\ players'[g].approximations = player.approximations
             /\ Heard(g)' = IF stopping' /\ players[g].is_known
                            THEN Append(Heard(g), "SCORING") ELSE Heard(g)
  <2> DEFINE m == MakeAnswer("SCORING", player.addr, Zeros)
  <2>1. m.type = "SCORING"
    BY DEF MakeAnswer
  <2>2. /\ players'[g].addr = players[g].addr /\ players'[g].is_known = players[g].is_known
        /\ players'[g].can_put = player.can_put /\ players'[g].penalty = player.penalty
        /\ players'[g].correct_puts = player.correct_puts
        /\ players'[g].approximations = player.approximations
        /\ players'[g].messages = IF stopping' /\ player.is_known
                                  THEN Append(players[g].messages, m)
                                  ELSE players[g].messages
    BY <1>4, <1>7, FinalKeeps
  <2>3. player.is_known => m \in Answer
    BY <1>4, FinalType
  <2> HIDE DEF m
  <2>4. CASE stopping' /\ player.is_known
    <3>1. Line(got[players[g].addr], Append(players[g].messages, m))
            = Append(Line(got[players[g].addr], players[g].messages), m.type)
      BY <1>b, <2>3, <2>4, LineGrows
    <3> QED  BY <1>3, <1>7, <2>1, <2>2, <2>4, <3>1 DEF Heard
  <2>5. CASE ~(stopping' /\ player.is_known)
    BY <1>3, <1>7, <2>2, <2>5 DEF Heard
  <2> QED  BY <2>4, <2>5
<1>8. SeatPut(fd) /\ players'[fd].approximations = Put(players[fd].approximations, p, v)
  <2> DEFINE new == Improved(players[fd], p, v)
  <2>1. /\ new.addr = players[fd].addr /\ new.messages = players[fd].messages
        /\ new.is_known = players[fd].is_known /\ ~new.can_put
        /\ new.penalty = players[fd].penalty
        /\ new.correct_puts = players[fd].correct_puts + 1
        /\ new.approximations = Put(players[fd].approximations, p, v)
    <3>1. players[fd] \in PlayerInfo
      BY <1>b, <1>2
    <3> DEFINE was == players[fd]
    <3> HIDE DEF was
    <3>2. LET now == Improved(was, p, v) IN
          /\ now.addr = was.addr /\ now.messages = was.messages
          /\ now.is_known = was.is_known /\ ~now.can_put /\ now.penalty = was.penalty
          /\ now.correct_puts = was.correct_puts + 1
          /\ now.approximations = Put(was.approximations, p, v)
      BY <3>1, ImprovedKeeps DEF was
    <3> QED  BY <3>2 DEF was
  <2>2. new \in PlayerInfo /\ players'[fd] = Final(new, stopping')
    BY <1>2
  <2> HIDE DEF new
  <2>3. /\ players'[fd].addr = players[fd].addr
        /\ players'[fd].is_known = players[fd].is_known
        /\ players'[fd].can_put = new.can_put
        /\ players'[fd].penalty = new.penalty
        /\ players'[fd].correct_puts = new.correct_puts
        /\ players'[fd].approximations = new.approximations
        /\ Heard(fd)' = IF stopping' /\ players[fd].is_known
                        THEN Append(Heard(fd), "SCORING") ELSE Heard(fd)
    BY <1>2, <1>7, <2>1, <2>2
  <2>4. Waits(fd, "STATE")' = Waits(fd, "STATE") + 1
    <3> DEFINE W == Wanted("STATE", fd, players[fd].addr)
    <3>1. e \in W
      BY <1>5 DEF Wanted
    <3> HIDE DEF W
    <3>2. Count(add_event(events, e), W) = Count(events, W) + (IF e \in W THEN 1 ELSE 0)
      BY <1>a, CountInsert
    <3>3. Count(events', W) = Count(events, W) + 1
      BY <1>2, <3>1, <3>2
    <3> QED  BY <2>3, <3>3 DEF Waits, W
  <2>5. Waits(fd, "BAD_PUT")' = Waits(fd, "BAD_PUT")
    BY <1>2, <1>6, <2>3 DEF Waits
  <2>6. Remains(fd) /\ BothKnown(fd)
    BY <1>2, <1>3, <2>3 DEF Remains, Stays, BothKnown
  <2>7. SeatPut(fd)
    BY <1>2, <2>1, <2>3, <2>4, <2>5, <2>6 DEF SeatPut
  <2> QED  BY <2>1, <2>3, <2>7
<1>9. ASSUME NEW g \in DOMAIN players, g # fd PROVE SeatWatches(g)
  <2>1. /\ players'[g].addr = players[g].addr
        /\ players'[g].is_known = players[g].is_known
        /\ players'[g].can_put = players[g].can_put
        /\ players'[g].penalty = players[g].penalty
        /\ players'[g].correct_puts = players[g].correct_puts
        /\ players'[g].approximations = players[g].approximations
        /\ Heard(g)' = IF stopping' /\ players[g].is_known
                       THEN Append(Heard(g), "SCORING") ELSE Heard(g)
    BY <1>b, <1>2, <1>7, <1>9
  <2>2. Remains(g) /\ SameAccount(g)
    BY <1>3, <1>9, <2>1 DEF Remains, Stays, SameAccount
  <2>3. SameWaits(g) /\ Waits(g, "HELLO")' = Waits(g, "HELLO")
    BY <1>6, <1>9, <2>1 DEF SameWaits, Waits
  <2> QED  BY <2>1, <2>2, <2>3 DEF SeatWatches
<1> QED  BY <1>2, <1>4, <1>8, <1>9

(* A write, of a whole message or a part.                                  *)
LEMMA WriteSeats ==
    ASSUME AddrInv, NEW whole \in BOOLEAN, Write(whole), sent' = sent
    PROVE  DOMAIN players' = DOMAIN players /\ \A g \in DOMAIN players : SeatKept(g)
<1>a. /\ StepInv /\ TypeInv /\ Seats /\ Callbacks /\ SilentBefore
      /\ events \in Seq(Event) /\ got \in [Addr -> Seq(AnswerType)]
  BY PlayerFacts
<1>b. \A g \in DOMAIN players :
          /\ players[g] \in PlayerInfo /\ players[g].addr \in Addr
          /\ players[g].messages \in Seq(Answer) /\ got[players[g].addr] \in Seq(AnswerType)
          /\ \A kind : Waits(g, kind) \in Nat
  BY PlayerFacts
<1>1. PICK fd \in DOMAIN players :
           /\ players[fd].messages # <<>>
           /\ DOMAIN players' = DOMAIN players
           /\ players'[fd] =
                [players[fd] EXCEPT !.messages =
                    IF whole THEN Tail(players[fd].messages)
                    ELSE append_message_front(Tail(players[fd].messages),
                            [Head(players[fd].messages) EXCEPT !.rest = TRUE])]
           /\ \A g \in DOMAIN players : g # fd => players'[g] = players[g]
           /\ got' = IF whole THEN [got EXCEPT ![players[fd].addr] =
                                       Append(@, Head(players[fd].messages).type)] ELSE got
           /\ stopping' = stopping
  BY <1>a, WriteEffect
<1>2. events' = events
  BY DEF Write
<1>3. /\ players'[fd].addr = players[fd].addr
      /\ players'[fd].is_known = players[fd].is_known
      /\ players'[fd].can_put = players[fd].can_put
      /\ players'[fd].penalty = players[fd].penalty
      /\ players'[fd].correct_puts = players[fd].correct_puts
      /\ players'[fd].approximations = players[fd].approximations
      /\ players'[fd].messages =
           IF whole THEN Tail(players[fd].messages)
           ELSE <<[Head(players[fd].messages) EXCEPT !.rest = TRUE]>> \o Tail(players[fd].messages)
  BY <1>b, <1>1 DEF PlayerInfo, append_message_front
<1>4. ASSUME NEW g \in DOMAIN players, g # fd PROVE SeatKept(g)
  <2>1. players[g].addr # players[fd].addr
    BY <1>a, <1>4 DEF Seats
  <2>2. got'[players[g].addr] = got[players[g].addr]
    BY <1>a, <1>b, <1>1, <2>1
  <2> QED  BY KeptSeat, <1>1, <1>2, <1>4, <2>2
<1>5. Heard(fd)' = Heard(fd)
  <2>1. CASE whole
    <3>1. got'[players[fd].addr] = Append(got[players[fd].addr], Head(players[fd].messages).type)
      BY <1>a, <1>b, <1>1, <2>1
    <3>2. Line(Append(got[players[fd].addr], Head(players[fd].messages).type),
               Tail(players[fd].messages))
            = Line(got[players[fd].addr], players[fd].messages)
      BY <1>b, <1>1, LineSent
    <3> QED  BY <1>3, <2>1, <3>1, <3>2 DEF Heard
  <2>2. CASE ~whole
    <3>1. Line(got[players[fd].addr], <<[Head(players[fd].messages) EXCEPT !.rest = TRUE]>>
                                        \o Tail(players[fd].messages))
            = Line(got[players[fd].addr], players[fd].messages)
      BY <1>b, <1>1, LinePartly
    <3>2. got' = got
      BY <1>1, <2>2
    <3> QED  BY <1>3, <2>2, <3>1, <3>2 DEF Heard
  <2> QED  BY <2>1, <2>2
<1>6. SeatKept(fd)
  <2>1. Remains(fd) /\ SameAccount(fd)
    BY <1>1, <1>3 DEF Remains, Stays, SameAccount
  <2>2. SameWaits(fd) /\ Waits(fd, "HELLO")' = Waits(fd, "HELLO")
    BY <1>2, <1>3 DEF SameWaits, Waits
  <2> QED  BY <1>3, <1>5, <2>1, <2>2 DEF SeatKept
<1> QED  BY <1>1, <1>4, <1>6

(* Somebody else leaves.                                                   *)
LEMMA LeavesSeats ==
    ASSUME AddrInv, NEW fd \in FD, Leaves(fd)
    PROVE  \A g \in DOMAIN players' : SeatKept(g)
<1>a. /\ StepInv /\ TypeInv /\ Seats /\ Callbacks /\ SilentBefore
      /\ events \in Seq(Event) /\ got \in [Addr -> Seq(AnswerType)]
  BY PlayerFacts
<1>b. \A g \in DOMAIN players :
          /\ players[g] \in PlayerInfo /\ players[g].addr \in Addr
          /\ players[g].messages \in Seq(Answer) /\ got[players[g].addr] \in Seq(AnswerType)
          /\ \A kind : Waits(g, kind) \in Nat
  BY PlayerFacts
<1>1. /\ fd \in DOMAIN players /\ DOMAIN players' = DOMAIN players \ {fd}
      /\ \A g \in DOMAIN players' : players'[g] = players[g]
      /\ got' = [got EXCEPT ![players[fd].addr] = <<>>]
      /\ stopping' = stopping
      /\ \/ events' = events
         \/ events # <<>> /\ events[1].fd = fd /\ events' = Tail(events)
  BY DEF Leaves, Due
<1>2. \A g \in DOMAIN players' : g \in DOMAIN players /\ players[g].addr # players[fd].addr
  BY <1>a, <1>1 DEF Seats
<1>3. \A g \in DOMAIN players' : got'[players[g].addr] = got[players[g].addr]
  BY <1>a, <1>b, <1>1, <1>2
<1>4. ASSUME NEW g \in DOMAIN players', NEW kind
      PROVE  Count(events', Wanted(kind, g, players[g].addr))
               = Count(events, Wanted(kind, g, players[g].addr))
  <2>1. events[1].fd = fd => events[1] \notin Wanted(kind, g, players[g].addr)
    BY <1>1 DEF Wanted
  <2> QED  BY <1>a, <1>1, <2>1, OtherEvents
<1> QED  BY KeptSeat, <1>1, <1>2, <1>3, <1>4

(* Every step does one of these to each player that is in the game after.  *)
LEMMA SeatSteps ==
    ASSUME AddrInv, [Next]_vars
    PROVE  \A g \in DOMAIN players' : SeatStep(g)
<1>1. StepInv
  BY DEF AddrInv
<1>2. ASSUME NEW g, SeatKept(g) PROVE SeatStep(g)
  BY <1>2 DEF SeatStep
<1>3. CASE Quiet
  <2>1. DOMAIN players' = DOMAIN players
    BY <1>3 DEF Quiet, gameVars
  <2> QED  BY <1>2, <1>3, <2>1, QuietSeats
<1>4. CASE Restarts
  BY <1>4 DEF Restarts
<1>5. CASE Tick \/ SkipEvent
  <2>1. DOMAIN players' = DOMAIN players
    BY <1>5 DEF Tick, SkipEvent
  <2> QED  BY <1>2, <1>5, <2>1, TickSeats, SkipSeats
<1>6. CASE AnswerEvent
  <2>1. PICK fd, kind : /\ kind \in AnswerKind /\ SeatAnswered(fd, kind)
                        /\ DOMAIN players' = DOMAIN players
                        /\ \A g \in DOMAIN players : g # fd => SeatKept(g)
    BY <1>6, AnswerSeats
  <2> QED  BY <1>2, <2>1 DEF SeatStep
<1>7. ASSUME NEW a \in Addr, Accept(a), sent' = sent
      PROVE  \A g \in DOMAIN players' : SeatStep(g)
  <2>1. PICK fd \in FD : /\ DOMAIN players' = DOMAIN players \cup {fd} /\ SeatNew(fd)
                         /\ \A g \in DOMAIN players : SeatKept(g)
    BY <1>7, AcceptSeats
  <2> QED  BY <1>2, <2>1 DEF SeatStep
<1>8. ASSUME NEW fd \in FD, NEW id \in PlayerId, ReadHello(fd, id), sent' = sent
      PROVE  \A g \in DOMAIN players' : SeatStep(g)
  <2>1. /\ DOMAIN players' = DOMAIN players /\ SeatHello(fd)
        /\ \A g \in DOMAIN players : g # fd => SeatKept(g)
    BY <1>8, HelloSeats
  <2> QED  BY <1>2, <2>1 DEF SeatStep
<1>9. ASSUME NEW fd \in FD, NEW p \in Points, NEW v \in Values, ReadRejectedPut(fd, p, v),
             sent' = sent
      PROVE  \A g \in DOMAIN players' : SeatStep(g)
  <2>1. /\ DOMAIN players' = DOMAIN players
        /\ \E early, bad \in BOOLEAN : SeatRejected(fd, early, bad)
        /\ \A g \in DOMAIN players : g # fd => SeatKept(g)
    BY <1>9, RejectedSeats
  <2> QED  BY <1>2, <2>1 DEF SeatStep
<1>10. ASSUME NEW fd \in FD, NEW p \in Points, NEW v \in Values, ReadPut(fd, p, v),
              sent' = sent
       PROVE  \A g \in DOMAIN players' : SeatStep(g)
  <2>1. /\ DOMAIN players' = DOMAIN players /\ SeatPut(fd)
        /\ \A g \in DOMAIN players : g # fd => SeatWatches(g)
    BY <1>10, PutSeats
  <2>2. ASSUME NEW g, SeatWatches(g) PROVE SeatStep(g)
    <3>1. CASE stopping' /\ players[g].is_known
      <4>1. SeatScored(g)
        BY <2>2, <3>1 DEF SeatWatches, SeatScored, BothKnown
      <4> QED  BY <4>1 DEF SeatStep
    <3>2. CASE ~(stopping' /\ players[g].is_known)
      <4>1. SeatKept(g)
        BY <2>2, <3>2 DEF SeatWatches, SeatKept
      <4> QED  BY <4>1 DEF SeatStep
    <3> QED  BY <3>1, <3>2
  <2> QED  BY <2>1, <2>2 DEF SeatStep
<1>11. ASSUME NEW whole \in BOOLEAN, Write(whole), sent' = sent
       PROVE  \A g \in DOMAIN players' : SeatStep(g)
  BY <1>2, <1>11, WriteSeats
<1>12. ASSUME NEW fd \in FD, Leaves(fd) PROVE \A g \in DOMAIN players' : SeatStep(g)
  BY <1>2, <1>12, LeavesSeats
<1> QED  BY <1>1, <1>3, <1>4, <1>5, <1>6, <1>7, <1>8, <1>9, <1>10, <1>11, <1>12, Steps DEF Plays
-----------------------------------------------------------------------------
(* The bookkeeping *)

(* What a known player heard begins with COEFF and has no other one; before *)
(* its HELLO it heard nothing.                                             *)
Introduced ==
    \A g \in DOMAIN players :
        /\ ~players[g].is_known => Heard(g) = <<>>
        /\ players[g].is_known =>
              /\ Heard(g) # <<>> /\ Heard(g)[1] = "COEFF"
              /\ \A k \in DOMAIN Heard(g) : k # 1 => Heard(g)[k] # "COEFF"

(* The ledger of one player, and its place in the queue of the timers.     *)
Balanced(penalty, puts, heard, bad_puts, states) ==
    /\ penalty = early_put_penalty * Count(heard, {"PENALTY"})
                   + bad_put_penalty * (Count(heard, {"BAD_PUT"}) + bad_puts)
    /\ puts = Count(heard, {"STATE"}) + states
Ledger ==
    \A g \in DOMAIN players :
        Balanced(players[g].penalty, players[g].correct_puts, Heard(g),
                 Waits(g, "BAD_PUT"), Waits(g, "STATE"))
Timed ==
    ~stopping =>
        \A g \in DOMAIN players :
            /\ players[g].is_known /\ ~players[g].can_put =>
                  Waits(g, "STATE") > 0 \/ Waits(g, "BAD_PUT") > 0
            /\ ~players[g].is_known => Waits(g, "HELLO") > 0

(* Nobody is in the game at its start.                                     *)
LEMMA BooksInit == Init => Introduced /\ Ledger /\ Timed
BY DEF Init, Introduced, Ledger, Timed

(* What the seat steps are about, before and after a step.                 *)
LEMMA SeatTypes ==
    ASSUME AddrInv, [Next]_vars
    PROVE  /\ \A g \in DOMAIN players : /\ Heard(g) \in Seq(AnswerType)
                                        /\ \A kind : Waits(g, kind) \in Nat
                                        /\ players[g].penalty \in Nat
                                        /\ players[g].correct_puts \in Nat
           /\ \A g \in DOMAIN players' : \A kind : Waits(g, kind)' \in Nat
           /\ \A g \in DOMAIN players' : SeatStep(g)
<1>1. GameType /\ GameType' /\ KernelType
  <2>1. TypeInv /\ TypeInv'
    BY TypeNext DEF AddrInv, StepInv
  <2> QED  BY <2>1, TypeParts, TypePartsPrime DEF TypeInv
<1>2. events \in Seq(Event) /\ events' \in Seq(Event) /\ got \in [Addr -> Seq(AnswerType)]
  BY <1>1 DEF GameType, KernelType
<1>3. ASSUME NEW g \in DOMAIN players
      PROVE  /\ Heard(g) \in Seq(AnswerType) /\ players[g].penalty \in Nat
             /\ players[g].correct_puts \in Nat
  <2>1. players[g] \in PlayerInfo
    BY <1>1 DEF GameType
  <2>2. /\ players[g].addr \in Addr /\ players[g].messages \in Seq(Answer)
        /\ players[g].penalty \in Nat /\ players[g].correct_puts \in Nat
    BY <2>1 DEF PlayerInfo
  <2>3. Line(got[players[g].addr], players[g].messages) \in Seq(AnswerType)
    BY <1>2, <2>2, LineElements
  <2> QED  BY <2>2, <2>3 DEF Heard
<1>4. \A g \in DOMAIN players : \A kind : Waits(g, kind) \in Nat
  BY <1>2, CountType DEF Waits
<1>5. \A g \in DOMAIN players' : \A kind : Waits(g, kind)' \in Nat
  BY <1>2, CountType DEF Waits
<1> QED  BY <1>3, <1>4, <1>5, SeatSteps

(* COEFF comes first and once.                                             *)
LEMMA IntroducedNext == AddrInv /\ Introduced /\ [Next]_vars => Introduced'
<1> SUFFICES ASSUME AddrInv, Introduced, [Next]_vars, NEW g \in DOMAIN players'
             PROVE  /\ ~players'[g].is_known => Heard(g)' = <<>>
                    /\ players'[g].is_known =>
                          /\ Heard(g)' # <<>> /\ Heard(g)'[1] = "COEFF"
                          /\ \A k \in DOMAIN Heard(g)' : k # 1 => Heard(g)'[k] # "COEFF"
  BY DEF Introduced
<1> DEFINE P == /\ ~players'[g].is_known => Heard(g)' = <<>>
                /\ players'[g].is_known =>
                      /\ Heard(g)' # <<>> /\ Heard(g)'[1] = "COEFF"
                      /\ \A k \in DOMAIN Heard(g)' : k # 1 => Heard(g)'[k] # "COEFF"
<1>1. SeatStep(g) /\ (g \in DOMAIN players => Heard(g) \in Seq(AnswerType))
  BY SeatTypes
<1>2. CASE SeatNew(g)
  BY <1>2 DEF SeatNew
<1>3. CASE SeatKept(g)
  BY <1>3 DEF SeatKept, Remains, Stays, Introduced
<1>4. CASE SeatHello(g)
  <2>1. Heard(g) = <<>> /\ Heard(g)' = Append(<<>>, "COEFF") /\ players'[g].is_known
    BY <1>4 DEF SeatHello, Remains, Stays, Introduced
  <2>2. <<>> \in Seq({"COEFF"})
    BY EmptySeq
  <2>3. /\ Append(<<>>, "COEFF") # <<>> /\ DOMAIN Append(<<>>, "COEFF") = 1..1
        /\ Append(<<>>, "COEFF")[1] = "COEFF"
    <3>1. Len(<<>>) = 0
      BY EmptySeq
    <3> QED  BY <2>2, <3>1, AppendProperties, AppendElements
  <2> QED  BY <2>1, <2>3
<1>5. ASSUME NEW type \in AnswerType, type # "COEFF", g \in DOMAIN players, players[g].is_known,
             players'[g].is_known, Heard(g)' = Append(Heard(g), type)
      PROVE  P
  <2> DEFINE h == Heard(g)
             n == Append(h, type)
  <2>1. /\ h \in Seq(AnswerType) /\ h # <<>> /\ h[1] = "COEFF"
        /\ \A k \in DOMAIN h : k # 1 => h[k] # "COEFF"
    BY <1>1, <1>5 DEF Introduced
  <2>2. Heard(g)' = n
    BY <1>5
  <2> HIDE DEF h
  <2>3. /\ n # <<>> /\ Len(h) \in Nat \ {0} /\ DOMAIN n = 1..(Len(h) + 1) /\ DOMAIN h = 1..Len(h)
        /\ \A k \in DOMAIN h : n[k] = h[k]
        /\ n[Len(h) + 1] = type
    BY <2>1, AppendElements, AppendProperties, EmptySeq
  <2> HIDE DEF n
  <2>4. n[1] = "COEFF"
    BY <2>1, <2>3
  <2>5. \A k \in DOMAIN n : k # 1 => n[k] # "COEFF"
    BY <1>5, <2>1, <2>3
  <2> QED  BY <1>5, <2>2, <2>3, <2>4, <2>5
<1>6. ASSUME g \in DOMAIN players, players[g].is_known, players'[g].is_known,
             Heard(g)' = Heard(g)
      PROVE  P
  BY <1>6 DEF Introduced
<1> HIDE DEF P
<1>7. {"PENALTY", "SCORING", "STATE", "BAD_PUT"} \subseteq AnswerType
  BY DEF AnswerType
<1>8. ASSUME SeatPut(g) PROVE P
  <2>1. /\ g \in DOMAIN players /\ players[g].is_known /\ players'[g].is_known
        /\ Heard(g)' = Heard(g) \/ Heard(g)' = Append(Heard(g), "SCORING")
    BY <1>8 DEF SeatPut, Remains, Stays, BothKnown
  <2> QED  BY <1>5, <1>6, <1>7, <2>1
<1>9. ASSUME SeatScored(g) PROVE P
  BY <1>5, <1>7, <1>9 DEF SeatScored, Remains, Stays, BothKnown
<1>10. ASSUME NEW early \in BOOLEAN, NEW bad \in BOOLEAN, SeatRejected(g, early, bad) PROVE P
  <2>1. /\ g \in DOMAIN players /\ players[g].is_known /\ players'[g].is_known
        /\ Heard(g)' = Heard(g) \/ Heard(g)' = Append(Heard(g), "PENALTY")
    BY <1>10 DEF SeatRejected, Remains, Stays, BothKnown
  <2> QED  BY <1>5, <1>6, <1>7, <2>1
<1>11. ASSUME NEW kind \in AnswerKind, SeatAnswered(g, kind) PROVE P
  <2>1. /\ g \in DOMAIN players /\ players[g].is_known /\ players'[g].is_known
        /\ Heard(g)' = Append(Heard(g), kind) /\ kind # "COEFF" /\ kind \in AnswerType
    BY <1>7, <1>11 DEF SeatAnswered, Remains, Stays, BothKnown, AnswerKind
  <2> QED  BY <1>5, <2>1
<1>12. P
  BY <1>1, <1>2, <1>3, <1>4, <1>8, <1>9, <1>10, <1>11 DEF SeatStep, P
<1> QED  BY <1>12 DEF P

(* The counts of what a player heard, after one more answer.               *)
LEMMA HeardMore ==
    ASSUME NEW h \in Seq(AnswerType), NEW type \in AnswerType, NEW other
    PROVE  /\ Count(h, {other}) \in Nat
           /\ Count(Append(h, type), {other}) =
                IF type = other THEN Count(h, {other}) + 1 ELSE Count(h, {other})
<1>1. Count(h, {other}) \in Nat
  BY CountType
<1>2. Count(Append(h, type), {other}) = Count(h, {other}) + (IF type \in {other} THEN 1 ELSE 0)
  BY CountAppend
<1> QED  BY <1>1, <1>2

(* The ledger of a player stays balanced.                                  *)
LEMMA LedgerNext == AddrInv /\ Ledger /\ [Next]_vars => Ledger'
<1> SUFFICES ASSUME AddrInv, Ledger, [Next]_vars, NEW g \in DOMAIN players'
             PROVE  Balanced(players'[g].penalty, players'[g].correct_puts, Heard(g)',
                             Waits(g, "BAD_PUT")', Waits(g, "STATE")')
  BY DEF Ledger
<1> DEFINE P == Balanced(players'[g].penalty, players'[g].correct_puts, Heard(g)',
                         Waits(g, "BAD_PUT")', Waits(g, "STATE")')
           h == Heard(g)
           C(type) == Count(h, {type})
<1>1. /\ SeatStep(g)
      /\ g \in DOMAIN players =>
            /\ h \in Seq(AnswerType) /\ Waits(g, "BAD_PUT") \in Nat /\ Waits(g, "STATE") \in Nat
            /\ players[g].penalty \in Nat /\ players[g].correct_puts \in Nat
      /\ Waits(g, "BAD_PUT")' \in Nat /\ Waits(g, "STATE")' \in Nat
  BY SeatTypes
<1>2. g \in DOMAIN players =>
        /\ players[g].penalty = early_put_penalty * C("PENALTY")
                                  + bad_put_penalty * (C("BAD_PUT") + Waits(g, "BAD_PUT"))
        /\ players[g].correct_puts = C("STATE") + Waits(g, "STATE")
  BY DEF Ledger, Balanced
<1>3. /\ "COEFF" \in AnswerType /\ "PENALTY" \in AnswerType /\ "SCORING" \in AnswerType
      /\ "STATE" \in AnswerType /\ "BAD_PUT" \in AnswerType
  BY DEF AnswerType
<1>4. g \in DOMAIN players =>
        /\ C("PENALTY") \in Nat /\ C("BAD_PUT") \in Nat /\ C("STATE") \in Nat
  BY <1>1, CountType
<1>5. early_put_penalty \in Nat /\ bad_put_penalty \in Nat
  BY DEF early_put_penalty, bad_put_penalty
<1>6. g \in DOMAIN players =>
        \A type \in AnswerType : \A other :
            Count(Append(h, type), {other}) = IF type = other THEN C(other) + 1 ELSE C(other)
  <2> HIDE DEF h
  <2>1. \A x \in Seq(AnswerType), type \in AnswerType : \A other :
            Count(Append(x, type), {other})
              = IF type = other THEN Count(x, {other}) + 1 ELSE Count(x, {other})
    BY HeardMore
  <2> QED  BY <1>1, <2>1
<1> HIDE DEF h, C
<1>7. CASE SeatNew(g)
  <2>1. /\ players'[g].penalty = 0 /\ players'[g].correct_puts = 0 /\ Heard(g)' = <<>>
        /\ Waits(g, "BAD_PUT")' = 0 /\ Waits(g, "STATE")' = 0
    BY <1>7 DEF SeatNew, AnswerKind
  <2>2. \A W : Count(<<>>, W) = 0
    <3>1. <<>> \in Seq(AnswerType) /\ DOMAIN <<>> = {}
      BY EmptySeq
    <3> QED  BY <3>1, CountType
  <2> QED  BY <2>1, <2>2, <1>5 DEF Balanced
<1>8. CASE SeatKept(g)
  <2>1. /\ g \in DOMAIN players /\ players'[g].penalty = players[g].penalty
        /\ players'[g].correct_puts = players[g].correct_puts /\ Heard(g)' = Heard(g)
        /\ Waits(g, "BAD_PUT")' = Waits(g, "BAD_PUT") /\ Waits(g, "STATE")' = Waits(g, "STATE")
    BY <1>8 DEF SeatKept, Remains, Stays, SameAccount, SameWaits, AnswerKind
  <2> QED  BY <2>1 DEF Ledger
<1>9. ASSUME NEW type \in {"COEFF", "SCORING"}, g \in DOMAIN players,
             players'[g].penalty = players[g].penalty,
             players'[g].correct_puts = players[g].correct_puts, Heard(g)' = Append(h, type),
             Waits(g, "BAD_PUT")' = Waits(g, "BAD_PUT"), Waits(g, "STATE")' = Waits(g, "STATE")
      PROVE  P
  <2>1. \A other \in {"PENALTY", "BAD_PUT", "STATE"} : Count(Append(h, type), {other}) = C(other)
    BY <1>3, <1>6, <1>9
  <2> QED  BY <1>2, <1>9, <2>1 DEF Balanced
<1>10. CASE SeatHello(g)
  BY <1>9, <1>10 DEF SeatHello, Remains, Stays, SameAccount, SameWaits, AnswerKind, h
<1>11. CASE SeatScored(g)
  BY <1>9, <1>11 DEF SeatScored, Remains, Stays, SameAccount, SameWaits, AnswerKind, h
<1>12. CASE SeatPut(g)
  <2>1. /\ g \in DOMAIN players /\ players'[g].penalty = players[g].penalty
        /\ players'[g].correct_puts = players[g].correct_puts + 1
        /\ Heard(g)' = h \/ Heard(g)' = Append(h, "SCORING")
        /\ Waits(g, "BAD_PUT")' = Waits(g, "BAD_PUT")
        /\ Waits(g, "STATE")' = Waits(g, "STATE") + 1
    BY <1>12 DEF SeatPut, Remains, Stays, h
  <2>2. \A other \in {"PENALTY", "BAD_PUT", "STATE"} : Count(Heard(g)', {other}) = C(other)
    <3>1. \A other \in {"PENALTY", "BAD_PUT", "STATE"} :
             /\ Count(Append(h, "SCORING"), {other}) = C(other)
             /\ Count(h, {other}) = C(other)
      BY <1>3, <1>6, <2>1 DEF C
    <3> QED  BY <2>1, <3>1
  <2>3. C("STATE") + Waits(g, "STATE") + 1 = C("STATE") + (Waits(g, "STATE") + 1)
    BY <1>1, <1>4, <2>1
  <2> QED  BY <1>2, <2>1, <2>2, <2>3 DEF Balanced
<1>13. ASSUME NEW early \in BOOLEAN, NEW bad \in BOOLEAN, SeatRejected(g, early, bad) PROVE P
  <2>1. /\ g \in DOMAIN players
        /\ players'[g].penalty = players[g].penalty + Charge(early, bad)
        /\ players'[g].correct_puts = players[g].correct_puts
        /\ Heard(g)' = IF early THEN Append(h, "PENALTY") ELSE h
        /\ Waits(g, "STATE")' = Waits(g, "STATE")
        /\ Waits(g, "BAD_PUT")' = Waits(g, "BAD_PUT") + (IF bad THEN 1 ELSE 0)
    BY <1>13 DEF SeatRejected, Remains, Stays, h
  <2>2. /\ Count(Heard(g)', {"STATE"}) = C("STATE")
        /\ Count(Heard(g)', {"BAD_PUT"}) = C("BAD_PUT")
        /\ Count(Heard(g)', {"PENALTY"}) = IF early THEN C("PENALTY") + 1 ELSE C("PENALTY")
    <3>1. /\ Count(Append(h, "PENALTY"), {"STATE"}) = C("STATE")
          /\ Count(Append(h, "PENALTY"), {"BAD_PUT"}) = C("BAD_PUT")
          /\ Count(Append(h, "PENALTY"), {"PENALTY"}) = C("PENALTY") + 1
      BY <1>3, <1>6, <2>1
    <3>2. \A other : Count(h, {other}) = C(other)
      BY DEF C
    <3>3. CASE early
      BY <2>1, <3>1, <3>3
    <3>4. CASE ~early
      BY <2>1, <3>2, <3>4
    <3> QED  BY <3>3, <3>4
  <2>3. C("PENALTY") \in Nat /\ C("BAD_PUT") \in Nat /\ Waits(g, "BAD_PUT") \in Nat
    BY <1>1, <1>4, <2>1
  <2>4. players'[g].penalty = early_put_penalty * Count(Heard(g)', {"PENALTY"})
           + bad_put_penalty * (Count(Heard(g)', {"BAD_PUT"}) + Waits(g, "BAD_PUT")')
    <3>1. players[g].penalty = 20 * C("PENALTY") + 10 * (C("BAD_PUT") + Waits(g, "BAD_PUT"))
      BY <1>2, <2>1 DEF early_put_penalty, bad_put_penalty
    <3>2. players'[g].penalty =
            players[g].penalty + ((IF early THEN 20 ELSE 0) + (IF bad THEN 10 ELSE 0))
      BY <2>1 DEF Charge, early_put_penalty, bad_put_penalty
    <3>3. players'[g].penalty = 20 * (IF early THEN C("PENALTY") + 1 ELSE C("PENALTY"))
            + 10 * (C("BAD_PUT") + (Waits(g, "BAD_PUT") + (IF bad THEN 1 ELSE 0)))
      BY <2>3, <3>1, <3>2
    <3> QED  BY <2>1, <2>2, <3>3 DEF early_put_penalty, bad_put_penalty
  <2> QED  BY <1>2, <2>1, <2>2, <2>4 DEF Balanced
<1>14. ASSUME NEW kind \in AnswerKind, SeatAnswered(g, kind) PROVE P
  <2>1. /\ g \in DOMAIN players /\ players'[g].penalty = players[g].penalty
        /\ players'[g].correct_puts = players[g].correct_puts
        /\ Heard(g)' = Append(h, kind)
        /\ Waits(g, "STATE") = Waits(g, "STATE")' + (IF "STATE" = kind THEN 1 ELSE 0)
        /\ Waits(g, "BAD_PUT") = Waits(g, "BAD_PUT")' + (IF "BAD_PUT" = kind THEN 1 ELSE 0)
    BY <1>14 DEF SeatAnswered, Remains, Stays, SameAccount, AnswerKind, h
  <2>2. /\ Count(Heard(g)', {"PENALTY"}) = C("PENALTY")
        /\ Count(Heard(g)', {"STATE"}) = IF kind = "STATE" THEN C("STATE") + 1 ELSE C("STATE")
        /\ Count(Heard(g)', {"BAD_PUT"}) = IF kind = "BAD_PUT" THEN C("BAD_PUT") + 1 ELSE C("BAD_PUT")
    BY <1>3, <1>6, <2>1 DEF AnswerKind
  <2>3. /\ C("PENALTY") \in Nat /\ C("BAD_PUT") \in Nat /\ C("STATE") \in Nat
        /\ Waits(g, "BAD_PUT")' \in Nat /\ Waits(g, "STATE")' \in Nat
    BY <1>1, <1>4, <2>1
  <2>4. C("BAD_PUT") + Waits(g, "BAD_PUT") = Count(Heard(g)', {"BAD_PUT"}) + Waits(g, "BAD_PUT")'
    BY <2>1, <2>2, <2>3
  <2>5. C("STATE") + Waits(g, "STATE") = Count(Heard(g)', {"STATE"}) + Waits(g, "STATE")'
    BY <2>1, <2>2, <2>3
  <2> QED  BY <1>2, <2>1, <2>2, <2>4, <2>5 DEF Balanced
<1> QED  BY <1>1, <1>7, <1>8, <1>10, <1>11, <1>12, <1>13, <1>14 DEF SeatStep

(* Whoever has to wait has an event that ends it.                          *)
LEMMA TimedNext == AddrInv /\ Timed /\ [Next]_vars => Timed'
<1> SUFFICES ASSUME AddrInv, Timed, [Next]_vars, ~stopping', NEW g \in DOMAIN players'
             PROVE  /\ players'[g].is_known /\ ~players'[g].can_put =>
                          Waits(g, "STATE")' > 0 \/ Waits(g, "BAD_PUT")' > 0
                    /\ ~players'[g].is_known => Waits(g, "HELLO")' > 0
  BY DEF Timed
<1>1. /\ SeatStep(g)
      /\ g \in DOMAIN players => Waits(g, "BAD_PUT") \in Nat /\ Waits(g, "STATE") \in Nat
  BY SeatTypes
<1>2. g \in DOMAIN players /\ ~stopping =>
        /\ players[g].is_known /\ ~players[g].can_put =>
              Waits(g, "STATE") > 0 \/ Waits(g, "BAD_PUT") > 0
        /\ ~players[g].is_known => Waits(g, "HELLO") > 0
  BY DEF Timed
<1>3. CASE SeatNew(g)
  BY <1>3 DEF SeatNew
<1>4. CASE SeatKept(g)
  BY <1>2, <1>4 DEF SeatKept, Remains, Stays, SameWaits, AnswerKind
<1>5. CASE SeatHello(g)
  BY <1>5 DEF SeatHello
<1>6. CASE SeatScored(g)
  BY <1>6 DEF SeatScored
<1>7. CASE SeatPut(g)
  <2>1. g \in DOMAIN players /\ players'[g].is_known /\ Waits(g, "STATE")' = Waits(g, "STATE") + 1
    BY <1>7 DEF SeatPut, Remains, Stays, BothKnown
  <2> QED  BY <1>1, <2>1
<1>8. ASSUME NEW early \in BOOLEAN, NEW bad \in BOOLEAN, SeatRejected(g, early, bad)
      PROVE  players'[g].is_known /\ (Waits(g, "STATE")' > 0 \/ Waits(g, "BAD_PUT")' > 0)
  <2>1. /\ g \in DOMAIN players /\ ~stopping /\ players[g].is_known /\ players'[g].is_known
        /\ early \/ bad
        /\ early <=> ~players[g].can_put
        /\ Waits(g, "STATE")' = Waits(g, "STATE")
        /\ Waits(g, "BAD_PUT")' = Waits(g, "BAD_PUT") + (IF bad THEN 1 ELSE 0)
    BY <1>8 DEF SeatRejected, Remains, Stays, BothKnown
  <2>2. Waits(g, "BAD_PUT") \in Nat /\ Waits(g, "STATE") \in Nat
    BY <1>1, <2>1
  <2>3. CASE bad
    BY <2>1, <2>2, <2>3
  <2>4. CASE ~bad
    BY <1>2, <2>1, <2>2, <2>4
  <2> QED  BY <2>3, <2>4
<1>9. ASSUME NEW kind \in AnswerKind, SeatAnswered(g, kind)
      PROVE  players'[g].is_known /\ players'[g].can_put
  BY <1>9 DEF SeatAnswered, BothKnown
<1> QED  BY <1>1, <1>3, <1>4, <1>5, <1>6, <1>7, <1>8, <1>9 DEF SeatStep

(* The bookkeeping is kept by every step.                                  *)
LEMMA BooksInvariant == Spec => [](AddrInv /\ Introduced /\ Ledger /\ Timed)
<1>1. Init => Introduced /\ Ledger /\ Timed
  BY BooksInit
<1> QED  BY <1>1, AddrInvariant, IntroducedNext, LedgerNext, TimedNext, PTL DEF Spec

(* The names of the model for what the bookkeeping counts.                 *)
LEMMA BookNames ==
    ASSUME AddrInv, NEW g \in DOMAIN players
    PROVE  /\ Told(g) = Heard(g) /\ Heard(g) \in Seq(AnswerType)
           /\ \A type : TimesTold(g, type) = Count(Heard(g), {type})
           /\ \A kind : TimesPending(g, kind) = Waits(g, kind)
           /\ events \in Seq(Event)
<1>1. GameType /\ KernelType
  BY TypeParts DEF AddrInv, StepInv, TypeInv
<1>2. Told(g) = Heard(g)
  BY DEF Told, Heard, Line, Types
<1>3. events \in Seq(Event)
  BY <1>1 DEF GameType
<1>4. \A kind : {k \in DOMAIN events : /\ events[k].kind = kind /\ events[k].fd = g
                                       /\ events[k].addr = players[g].addr}
                  = {k \in DOMAIN events : events[k] \in Wanted(kind, g, players[g].addr)}
  BY <1>3 DEF Wanted
<1>5. \A kind : TimesPending(g, kind) = Waits(g, kind)
  BY <1>4 DEF TimesPending, Waits, Count
<1>6. \A type : TimesTold(g, type) = Count(Heard(g), {type})
  <2> TAKE type
  <2> DEFINE h == Heard(g)
  <2>1. TimesTold(g, type) = Cardinality({k \in DOMAIN h : h[k] = type})
    BY <1>2 DEF TimesTold
  <2> HIDE DEF h
  <2>2. {k \in DOMAIN h : h[k] = type} = {k \in DOMAIN h : h[k] \in {type}}
    OBVIOUS
  <2> QED  BY <2>1, <2>2 DEF Count, h
<1>7. Heard(g) \in Seq(AnswerType)
  <2>1. players[g] \in PlayerInfo
    BY <1>1 DEF GameType
  <2>2. players[g].addr \in Addr /\ players[g].messages \in Seq(Answer)
    BY <2>1 DEF PlayerInfo
  <2>3. got[players[g].addr] \in Seq(AnswerType)
    BY <1>1, <2>2 DEF KernelType
  <2> QED  BY <2>2, <2>3, LineElements DEF Heard
<1> QED  BY <1>2, <1>3, <1>5, <1>6, <1>7

(* COEFF is the first thing a client is told, and it is told once.         *)
THEOREM CoefficientsComeFirst == Spec => []CoeffFirst
<1>1. AddrInv /\ Introduced => CoeffFirst
  <2> SUFFICES ASSUME AddrInv, Introduced, NEW g \in DOMAIN players, Told(g) # <<>>
               PROVE  Told(g)[1] = "COEFF" /\ TimesTold(g, "COEFF") = 1
    BY DEF CoeffFirst
  <2> DEFINE h == Heard(g)
  <2>1. /\ Told(g) = h /\ h \in Seq(AnswerType)
        /\ TimesTold(g, "COEFF") = Count(h, {"COEFF"})
    BY BookNames
  <2>2. /\ h[1] = "COEFF" /\ h # <<>>
        /\ \A k \in DOMAIN h : k # 1 => h[k] # "COEFF"
    BY <2>1 DEF Introduced
  <2> HIDE DEF h
  <2>3. 1 \in DOMAIN h
    BY <2>1, <2>2, TailElements
  <2>4. {k \in DOMAIN h : h[k] \in {"COEFF"}} = {1}
    BY <2>2, <2>3
  <2>5. Count(h, {"COEFF"}) = 1
    BY <2>4, FS_Singleton DEF Count
  <2> QED  BY <2>1, <2>2, <2>5
<1> QED  BY <1>1, BooksInvariant, PTL

(* Every PUT is answered exactly once, by an answer that was sent, is      *)
(* queued or is scheduled, and charged for exactly what it is told.        *)
THEOREM LedgerIsBalanced == Spec => []AnswerLedger
<1>1. AddrInv /\ Ledger => AnswerLedger
  <2> SUFFICES ASSUME AddrInv, Ledger, NEW g \in DOMAIN players
               PROVE  /\ players[g].penalty =
                            early_put_penalty * TimesTold(g, "PENALTY")
                              + bad_put_penalty * (TimesTold(g, "BAD_PUT") + TimesPending(g, "BAD_PUT"))
                      /\ players[g].correct_puts = TimesTold(g, "STATE") + TimesPending(g, "STATE")
    BY DEF AnswerLedger
  <2>1. Balanced(players[g].penalty, players[g].correct_puts, Heard(g),
                 Waits(g, "BAD_PUT"), Waits(g, "STATE"))
    BY DEF Ledger
  <2>2. /\ \A type : TimesTold(g, type) = Count(Heard(g), {type})
        /\ \A kind : TimesPending(g, kind) = Waits(g, kind)
    BY BookNames
  <2> QED  BY <2>1, <2>2 DEF Balanced
<1> QED  BY <1>1, BooksInvariant, PTL

(* While the game runs nobody is forgotten: a player that may not PUT has  *)
(* an answer scheduled that lets it, a silent client has a timer.          *)
THEOREM NobodyIsForgotten == Spec => []NeverWedged
<1>1. AddrInv /\ Timed => NeverWedged
  <2> SUFFICES ASSUME AddrInv, Timed, ~stopping, NEW g \in DOMAIN players
               PROVE  /\ players[g].is_known /\ ~players[g].can_put => AnswerPending(g)
                      /\ ~players[g].is_known => HelloPending(g)
    BY DEF NeverWedged
  <2>1. events \in Seq(Event) /\ Callbacks
    BY BookNames DEF AddrInv
  <2>2. ASSUME NEW kind, Waits(g, kind) > 0
        PROVE  \E k \in DOMAIN events : events[k] \in Wanted(kind, g, players[g].addr)
    <3> DEFINE W == Wanted(kind, g, players[g].addr)
    <3>1. Count(events, W) # 0
      BY <2>2 DEF Waits
    <3> HIDE DEF W
    <3>2. \E k \in DOMAIN events : events[k] \in W
      BY <2>1, <3>1, CountType
    <3> QED  BY <3>2 DEF W
  <2>3. ASSUME NEW kind \in AnswerKind, Waits(g, kind) > 0 PROVE AnswerPending(g)
    <3>1. PICK k \in DOMAIN events : events[k] \in Wanted(kind, g, players[g].addr)
      BY <2>2, <2>3
    <3>2. events[k].kind # "HELLO" /\ events[k].fd = g /\ events[k].addr = players[g].addr
      BY <3>1 DEF Wanted, AnswerKind
    <3>3. events[k].id = players[g].id
      BY <2>1, <3>2 DEF Callbacks
    <3> QED  BY <3>2, <3>3 DEF AnswerPending
  <2>4. CASE players[g].is_known /\ ~players[g].can_put
    BY <2>3, <2>4 DEF Timed, AnswerKind
  <2>5. CASE ~players[g].is_known
    <3>1. Waits(g, "HELLO") > 0
      BY <2>5 DEF Timed
    <3>2. PICK k \in DOMAIN events : events[k] \in Wanted("HELLO", g, players[g].addr)
      BY <2>2, <3>1
    <3> QED  BY <2>5, <3>2 DEF HelloPending, Wanted
  <2> QED  BY <2>4, <2>5
<1> QED  BY <1>1, BooksInvariant, PTL

-----------------------------------------------------------------------------
(* The count of correct PUTs *)

(* The game counts the PUTs of the players in it, which are finitely many. *)
Accounted == IsFiniteSet(CountedPuts) /\ PutAccounting

(* A pair stands for a PUT of a player in the game.                        *)
LEMMA CountedPut ==
    /\ \A x : x \in CountedPuts <=>
          \E fd \in DOMAIN players : x \in {fd} \X (1..players[fd].correct_puts)
    /\ \A x : x \in CountedPuts' <=>
          \E fd \in DOMAIN players' : x \in {fd} \X (1..players'[fd].correct_puts)
BY DEF CountedPuts

(* No PUT has been made at the start.                                      *)
LEMMA AccountedInit == Init => Accounted
<1> SUFFICES ASSUME Init PROVE Accounted
  OBVIOUS
<1>1. DOMAIN players = {} /\ total_correct_puts = 0 /\ stopping = FALSE
  BY DEF Init
<1>2. CountedPuts = {}
  BY <1>1 DEF CountedPuts
<1>3. IsFiniteSet(CountedPuts) /\ Cardinality(CountedPuts) = 0
  BY <1>2, FS_EmptySet
<1> QED  BY <1>1, <1>3, ServerAssumption DEF Accounted, PutAccounting

(* Players that come have no PUT yet.                                      *)
LEMMA SamePuts ==
    ASSUME DOMAIN players \subseteq DOMAIN players',
           \A g \in DOMAIN players : players'[g].correct_puts = players[g].correct_puts,
           \A g \in DOMAIN players' \ DOMAIN players : players'[g].correct_puts = 0
    PROVE  CountedPuts' = CountedPuts
<1>1. ASSUME NEW x \in CountedPuts PROVE x \in CountedPuts'
  BY CountedPut
<1>2. ASSUME NEW x \in CountedPuts' PROVE x \in CountedPuts
  <2>1. PICK g \in DOMAIN players' : x \in {g} \X (1..players'[g].correct_puts)
    BY CountedPut
  <2>2. g \in DOMAIN players
    <3>1. CASE g \notin DOMAIN players
      <4>1. 1..players'[g].correct_puts = {}
        BY <3>1
      <4> QED  BY <2>1, <4>1
    <3> QED  BY <3>1
  <2> QED  BY <2>1, <2>2, CountedPut
<1> QED  BY <1>1, <1>2

(* A correct PUT is one more.                                              *)
LEMMA OneMorePut ==
    ASSUME NEW fd \in DOMAIN players, DOMAIN players' = DOMAIN players,
           players[fd].correct_puts \in Nat,
           players'[fd].correct_puts = players[fd].correct_puts + 1,
           \A g \in DOMAIN players : g # fd => players'[g].correct_puts = players[g].correct_puts
    PROVE  \E x : x \notin CountedPuts /\ CountedPuts' = CountedPuts \cup {x}
<1> DEFINE n == players[fd].correct_puts
           x == <<fd, n + 1>>
<1>1. x \notin CountedPuts
  BY CountedPut
<1>2. 1..players'[fd].correct_puts = (1..n) \cup {n + 1}
  OBVIOUS
<1>3. ASSUME NEW y \in CountedPuts' PROVE y \in CountedPuts \cup {x}
  <2>1. PICK g \in DOMAIN players' : y \in {g} \X (1..players'[g].correct_puts)
    BY CountedPut
  <2>2. CASE g = fd
    <3>1. y \in {fd} \X (1..n) \/ y = x
      BY <1>2, <2>1, <2>2
    <3> QED  BY <3>1, CountedPut
  <2>3. CASE g # fd
    BY <2>1, <2>3, CountedPut
  <2> QED  BY <2>2, <2>3
<1>4. ASSUME NEW y \in CountedPuts PROVE y \in CountedPuts'
  <2>1. PICK g \in DOMAIN players : y \in {g} \X (1..players[g].correct_puts)
    BY CountedPut
  <2>2. y \in {g} \X (1..players'[g].correct_puts)
    BY <1>2, <2>1
  <2> QED  BY <2>2, CountedPut
<1>5. x \in CountedPuts'
  <2>1. x \in {fd} \X (1..players'[fd].correct_puts)
    BY <1>2
  <2> QED  BY <2>1, CountedPut
<1> QED  BY <1>1, <1>3, <1>4, <1>5

(* The PUTs of a player that leaves go with it.                            *)
LEMMA PutsLeave ==
    ASSUME NEW fd \in DOMAIN players, DOMAIN players' = DOMAIN players \ {fd},
           \A g \in DOMAIN players' : players'[g] = players[g],
           players[fd].correct_puts \in Nat, IsFiniteSet(CountedPuts)
    PROVE  /\ IsFiniteSet(CountedPuts')
           /\ Cardinality(CountedPuts') = Cardinality(CountedPuts) - players[fd].correct_puts
<1> DEFINE n == players[fd].correct_puts
           own == {fd} \X (1..n)
<1>1. CountedPuts' = CountedPuts \ own
  <2>1. ASSUME NEW y \in CountedPuts' PROVE y \in CountedPuts \ own
    <3>1. PICK g \in DOMAIN players' : y \in {g} \X (1..players'[g].correct_puts)
      BY CountedPut
    <3> QED  BY <3>1, CountedPut
  <2>2. ASSUME NEW y \in CountedPuts \ own PROVE y \in CountedPuts'
    <3>1. PICK g \in DOMAIN players : y \in {g} \X (1..players[g].correct_puts)
      BY CountedPut
    <3>2. g # fd
      BY <3>1
    <3> QED  BY <3>1, <3>2, CountedPut
  <2> QED  BY <2>1, <2>2
<1>2. CountedPuts \cap own = own
  BY CountedPut
<1>3. Cardinality(own) = n
  <2>1. IsFiniteSet({fd}) /\ Cardinality({fd}) = 1
    BY FS_Singleton
  <2>2. IsFiniteSet(1..n) /\ Cardinality(1..n) = n
    <3>1. n \in Nat
      OBVIOUS
    <3> HIDE DEF n
    <3> QED  BY <3>1, SegmentSize
  <2>3. Cardinality({fd} \X (1..n)) = Cardinality({fd}) * Cardinality(1..n)
    BY <2>1, <2>2, FS_Product
  <2>4. Cardinality({fd} \X (1..n)) = 1 * n
    BY <2>1, <2>2, <2>3
  <2> QED  BY <2>4
<1> HIDE DEF own, n
<1>4. /\ IsFiniteSet(CountedPuts \ own)
      /\ Cardinality(CountedPuts \ own) = Cardinality(CountedPuts) - Cardinality(CountedPuts \cap own)
  BY FS_Difference
<1> QED  BY <1>1, <1>2, <1>3, <1>4 DEF n

(* The count follows every step.                                           *)
LEMMA AccountedNext == AddrInv /\ Accounted /\ [Next]_vars => Accounted'
<1> SUFFICES ASSUME AddrInv, Accounted, [Next]_vars PROVE Accounted'
  OBVIOUS
<1>1. /\ StepInv /\ TypeInv /\ GameType /\ total_correct_puts \in Int
      /\ \A g \in DOMAIN players : players[g] \in PlayerInfo /\ players[g].correct_puts \in Nat
  BY TypeParts DEF AddrInv, StepInv, TypeInv, GameType, PlayerInfo
<1>2. /\ IsFiniteSet(CountedPuts) /\ total_correct_puts = Cardinality(CountedPuts)
      /\ stopping <=> total_correct_puts >= M
  BY DEF Accounted, PutAccounting
<1>3. ASSUME UNCHANGED <<total_correct_puts, stopping>>, DOMAIN players \subseteq DOMAIN players',
             \A g \in DOMAIN players : players'[g].correct_puts = players[g].correct_puts,
             \A g \in DOMAIN players' \ DOMAIN players : players'[g].correct_puts = 0
      PROVE  Accounted'
  <2>1. CountedPuts' = CountedPuts
    BY <1>3, SamePuts
  <2> QED  BY <1>2, <1>3, <2>1 DEF Accounted, PutAccounting
<1>4. ASSUME UNCHANGED <<total_correct_puts, stopping>>, DOMAIN players' = DOMAIN players,
             NEW fd \in DOMAIN players, players'[fd].correct_puts = players[fd].correct_puts,
             \A g \in DOMAIN players : g # fd => players'[g] = players[g]
      PROVE  Accounted'
  BY <1>3, <1>4
<1>5. CASE Quiet
  <2>1. UNCHANGED <<players, total_correct_puts, stopping>>
    BY <1>5 DEF Quiet, gameVars
  <2> QED  BY <1>3, <2>1
<1>6. CASE Restarts
  <2>1. DOMAIN players' = {} /\ total_correct_puts' = 0 /\ stopping' = FALSE
    BY <1>6 DEF Restarts
  <2>2. CountedPuts' = {}
    BY <2>1 DEF CountedPuts
  <2>3. IsFiniteSet(CountedPuts') /\ Cardinality(CountedPuts') = 0
    BY <2>2, FS_EmptySet
  <2> QED  BY <2>1, <2>3, ServerAssumption DEF Accounted, PutAccounting
<1>7. CASE Tick \/ SkipEvent
  BY <1>3, <1>7 DEF Tick, SkipEvent
<1>8. CASE AnswerEvent
  <2>1. PICK fd \in DOMAIN players :
             /\ DOMAIN players' = DOMAIN players
             /\ UNCHANGED <<total_correct_puts, stopping>>
             /\ \A g \in DOMAIN players : g # fd => players'[g] = players[g]
             /\ \E q : players'[fd] = [players[fd] EXCEPT !.messages = q, !.can_put = TRUE]
    BY <1>1, <1>8, AnswerEffect
  <2>2. players'[fd].correct_puts = players[fd].correct_puts
    BY <1>1, <2>1 DEF PlayerInfo
  <2> QED  BY <1>4, <2>1, <2>2
<1>9. ASSUME NEW a \in Addr, Accept(a), sent' = sent PROVE Accounted'
  <2>1. PICK fd \in FD :
             /\ fd \notin DOMAIN players /\ DOMAIN players' = DOMAIN players \cup {fd}
             /\ players'[fd] = NewPlayer(a)
             /\ \A g \in DOMAIN players : players'[g] = players[g]
    BY <1>1, <1>9, AcceptEffect
  <2>2. UNCHANGED <<total_correct_puts, stopping>>
    BY <1>9 DEF Accept
  <2>3. players'[fd].correct_puts = 0
    BY <2>1 DEF NewPlayer
  <2> QED  BY <1>3, <2>1, <2>2, <2>3
<1>10. ASSUME NEW fd \in FD, NEW id \in PlayerId, ReadHello(fd, id), sent' = sent PROVE Accounted'
  <2>1. /\ fd \in DOMAIN players /\ DOMAIN players' = DOMAIN players
        /\ \A g \in DOMAIN players : g # fd => players'[g] = players[g]
        /\ players'[fd] =
             [players[fd] EXCEPT
                !.messages = Append(players[fd].messages, MakeAnswer("COEFF", players[fd].addr, Zeros)),
                !.id = id, !.is_known = TRUE, !.can_put = TRUE, !.coefficients = coeff_file + 1]
    BY <1>1, <1>10, HelloEffect
  <2>2. players'[fd].correct_puts = players[fd].correct_puts
    BY <1>1, <2>1 DEF PlayerInfo
  <2>3. UNCHANGED <<total_correct_puts, stopping>>
    BY <1>10 DEF ReadHello
  <2> QED  BY <1>4, <2>1, <2>2, <2>3
<1>11. ASSUME NEW fd \in FD, NEW p \in Points, NEW v \in Values, ReadRejectedPut(fd, p, v),
              sent' = sent
       PROVE  Accounted'
  <2>1. /\ fd \in DOMAIN players /\ DOMAIN players' = DOMAIN players
        /\ players'[fd] = Rejected(players[fd], ~players[fd].can_put, OutOfRange(p, v))
        /\ \A g \in DOMAIN players : g # fd => players'[g] = players[g]
    BY <1>1, <1>11, RejectedPutEffect
  <2>2. players'[fd].correct_puts = players[fd].correct_puts
    <3>1. players[fd] \in PlayerInfo
      BY <1>1, <2>1
    <3> DEFINE early == ~players[fd].can_put
               bad == OutOfRange(p, v)
    <3> HIDE DEF early, bad
    <3>2. Rejected(players[fd], early, bad).correct_puts = players[fd].correct_puts
      BY <3>1, RejectedKeeps
    <3> QED  BY <2>1, <3>2 DEF early, bad
  <2>3. UNCHANGED <<total_correct_puts, stopping>>
    BY <1>11 DEF ReadRejectedPut
  <2> QED  BY <1>4, <2>1, <2>2, <2>3
<1>12. ASSUME NEW fd \in FD, NEW p \in Points, NEW v \in Values, ReadPut(fd, p, v), sent' = sent
       PROVE  Accounted'
  <2>1. /\ fd \in DOMAIN players /\ DOMAIN players' = DOMAIN players
        /\ Improved(players[fd], p, v) \in PlayerInfo
        /\ total_correct_puts' = total_correct_puts + 1
        /\ stopping' = (total_correct_puts + 1 >= M)
        /\ players'[fd] = Final(Improved(players[fd], p, v), stopping')
        /\ \A g \in DOMAIN players : g # fd => players'[g] = Final(players[g], stopping')
    BY <1>1, <1>12, PutEffect
  <2>2. stopping' \in BOOLEAN
    BY <2>1
  <2>3. players'[fd].correct_puts = players[fd].correct_puts + 1
    <3>1. players[fd] \in PlayerInfo
      BY <1>1, <2>1
    <3>2. Improved(players[fd], p, v).correct_puts = players[fd].correct_puts + 1
      BY <3>1, ImprovedKeeps
    <3> DEFINE new == Improved(players[fd], p, v)
               over == stopping'
    <3>3. new \in PlayerInfo /\ over \in BOOLEAN
      BY <2>1, <2>2
    <3> HIDE DEF new, over
    <3>4. Final(new, over).correct_puts = new.correct_puts
      BY <3>3, FinalKeeps
    <3> QED  BY <2>1, <3>2, <3>4 DEF new, over
  <2>4. ASSUME NEW g \in DOMAIN players, g # fd
        PROVE  players'[g].correct_puts = players[g].correct_puts
    <3> DEFINE over == stopping'
    <3>1. players[g] \in PlayerInfo /\ over \in BOOLEAN
      BY <1>1, <2>2
    <3> HIDE DEF over
    <3>2. Final(players[g], over).correct_puts = players[g].correct_puts
      BY <3>1, FinalKeeps
    <3> QED  BY <2>1, <2>4, <3>2 DEF over
  <2>5. PICK x : x \notin CountedPuts /\ CountedPuts' = CountedPuts \cup {x}
    <3>1. players[fd].correct_puts \in Nat
      BY <1>1, <2>1 DEF PlayerInfo
    <3> QED  BY <2>1, <2>3, <2>4, <3>1, OneMorePut
  <2>6. IsFiniteSet(CountedPuts') /\ Cardinality(CountedPuts') = Cardinality(CountedPuts) + 1
    BY <1>2, <2>5, FS_AddElement
  <2> QED  BY <1>2, <2>1, <2>6 DEF Accounted, PutAccounting
<1>13. ASSUME NEW whole \in BOOLEAN, Write(whole), sent' = sent PROVE Accounted'
  <2>1. PICK fd \in DOMAIN players :
             /\ DOMAIN players' = DOMAIN players
             /\ \E q : players'[fd] = [players[fd] EXCEPT !.messages = q]
             /\ \A g \in DOMAIN players : g # fd => players'[g] = players[g]
             /\ UNCHANGED <<total_correct_puts, stopping>>
    <3>1. PICK fd \in DOMAIN players :
             /\ DOMAIN players' = DOMAIN players
             /\ players'[fd] =
                  [players[fd] EXCEPT !.messages =
                      IF whole THEN Tail(players[fd].messages)
                      ELSE append_message_front(Tail(players[fd].messages),
                                                [Head(players[fd].messages) EXCEPT !.rest = TRUE])]
             /\ \A g \in DOMAIN players : g # fd => players'[g] = players[g]
             /\ UNCHANGED <<total_correct_puts, stopping>>
      BY <1>1, <1>13, WriteEffect
    <3> QED  BY <3>1
  <2>2. players'[fd].correct_puts = players[fd].correct_puts
    BY <1>1, <2>1 DEF PlayerInfo
  <2> QED  BY <1>4, <2>1, <2>2
<1>14. ASSUME ~stopping, NEW fd \in FD, Leaves(fd) PROVE Accounted'
  <2>1. /\ fd \in DOMAIN players /\ DOMAIN players' = DOMAIN players \ {fd}
        /\ \A g \in DOMAIN players' : players'[g] = players[g]
        /\ total_correct_puts' = total_correct_puts - players[fd].correct_puts
        /\ stopping' = stopping
    BY <1>14 DEF Leaves
  <2>2. /\ IsFiniteSet(CountedPuts')
        /\ Cardinality(CountedPuts') = Cardinality(CountedPuts) - players[fd].correct_puts
    BY <1>1, <1>2, <2>1, PutsLeave
  <2>3. players[fd].correct_puts \in Nat /\ M \in Nat
    BY <1>1, <2>1, ServerAssumption
  <2>4. ~(total_correct_puts - players[fd].correct_puts >= M)
    BY <1>1, <1>2, <1>14, <2>3
  <2>5. ~stopping' /\ ~(total_correct_puts' >= M)
    BY <1>14, <2>1, <2>4
  <2> QED  BY <1>2, <2>1, <2>2, <2>5 DEF Accounted, PutAccounting
<1> QED  BY <1>1, <1>5, <1>6, <1>7, <1>8, <1>9, <1>10, <1>11, <1>12, <1>13, <1>14, Steps DEF Plays

(* total_correct_puts is the sum of the PUTs of the players in the game,   *)
(* whoever leaves and however games follow each other, and the game is     *)
(* over exactly when it reaches M.                                         *)
THEOREM PutsAreAccounted == Spec => []PutAccounting
<1>1. Accounted => PutAccounting
  BY DEF Accounted
<1> QED  BY <1>1, AccountedInit, AccountedNext, AddrInvariant, PTL DEF Spec

-----------------------------------------------------------------------------
(* The newest STATE *)

(* An element of W with no other behind it reports x.                      *)
LastIn(s, W, k) == k \in DOMAIN s /\ s[k] \in W /\ \A j \in DOMAIN s : s[j] \in W => j <= k
Newest(s, W, x) == \A k \in DOMAIN s : LastIn(s, W, k) => s[k].approx = x
NoneIn(s, W) == \A k \in DOMAIN s : s[k] \notin W

(* The first element goes.                                                 *)
LEMMA NewestTail ==
    ASSUME NEW S, NEW s \in Seq(S), s # <<>>, NEW W, NEW x
    PROVE  /\ Newest(s, W, x) => Newest(Tail(s), W, x)
           /\ s[1] \notin W /\ NoneIn(Tail(s), W) => NoneIn(s, W)
           /\ s[1] \in W /\ NoneIn(Tail(s), W) /\ Newest(s, W, x) => s[1].approx = x
<1> DEFINE t == Tail(s)
<1>1. /\ 1 \in DOMAIN s /\ Len(s) \in Nat \ {0} /\ DOMAIN s = 1..Len(s)
      /\ DOMAIN t = 1..(Len(s) - 1)
      /\ \A k \in DOMAIN t : k + 1 \in DOMAIN s /\ t[k] = s[k + 1]
      /\ \A k \in DOMAIN s : k # 1 => k - 1 \in DOMAIN t /\ t[k - 1] = s[k]
  BY TailElements, LenProperties
<1> HIDE DEF t
<1>2. ASSUME Newest(s, W, x), NEW k \in DOMAIN t, LastIn(t, W, k) PROVE t[k].approx = x
  <2>1. k \in Nat /\ k >= 1 /\ k + 1 \in DOMAIN s /\ t[k] = s[k + 1]
    BY <1>1
  <2>2. ASSUME NEW j \in DOMAIN s, s[j] \in W PROVE j <= k + 1
    <3>1. CASE j = 1
      BY <2>1, <3>1
    <3>2. CASE j # 1
      <4>1. j - 1 \in DOMAIN t /\ t[j - 1] = s[j] /\ j \in Nat
        BY <1>1, <3>2
      <4>2. j - 1 <= k
        BY <1>2, <2>2, <4>1 DEF LastIn
      <4> QED  BY <2>1, <4>1, <4>2
    <3> QED  BY <3>1, <3>2
  <2>3. LastIn(s, W, k + 1)
    BY <1>2, <2>1, <2>2 DEF LastIn
  <2> QED  BY <1>2, <2>1, <2>3 DEF Newest
<1>3. ASSUME s[1] \notin W, NoneIn(t, W) PROVE NoneIn(s, W)
  BY <1>1, <1>3 DEF NoneIn
<1>4. ASSUME s[1] \in W, NoneIn(t, W), Newest(s, W, x) PROVE s[1].approx = x
  <2>1. ASSUME NEW j \in DOMAIN s, s[j] \in W PROVE j <= 1
    BY <1>1, <1>4, <2>1 DEF NoneIn
  <2>2. LastIn(s, W, 1)
    BY <1>1, <1>4, <2>1 DEF LastIn
  <2> QED  BY <1>1, <1>4, <2>2 DEF Newest
<1> QED  BY <1>2, <1>3, <1>4 DEF Newest, t

(* An element goes in somewhere.                                           *)
LEMMA NewestInsert ==
    ASSUME NEW S, NEW s \in Seq(S), NEW t \in Seq(S), NEW e, NEW n \in 0..Len(s),
           Inserted(s, t, e, n), NEW W
    PROVE  /\ e \notin W => /\ \A x : Newest(s, W, x) => Newest(t, W, x)
                            /\ NoneIn(t, W) => NoneIn(s, W)
           /\ e \in W /\ (\A j \in DOMAIN s : s[j] \in W => j <= n)
                => Newest(t, W, e.approx) /\ ~NoneIn(t, W)
<1>1. /\ DOMAIN s = 1..Len(s) /\ DOMAIN t = 1..(Len(s) + 1)
      /\ Len(s) \in Nat /\ n \in Nat /\ n <= Len(s)
  BY LenProperties DEF Inserted
<1> DEFINE f(k) == IF k <= n THEN k ELSE k + 1
<1>2. ASSUME NEW k \in DOMAIN s PROVE f(k) \in DOMAIN t /\ t[f(k)] = s[k]
  <2>1. k \in Nat /\ 1 <= k /\ k <= Len(s)
    BY <1>1
  <2>2. CASE k <= n
    BY <1>1, <2>1, <2>2 DEF Inserted
  <2>3. CASE ~(k <= n)
    <3>1. k + 1 \in 1..(Len(s) + 1) /\ ~(k + 1 <= n) /\ k + 1 # n + 1 /\ (k + 1) - 1 = k
      BY <1>1, <2>1, <2>3
    <3> QED  BY <1>1, <2>1, <2>3, <3>1 DEF Inserted
  <2> QED  BY <2>2, <2>3
<1>3. n + 1 \in DOMAIN t /\ t[n + 1] = e
  BY <1>1 DEF Inserted
<1>4. ASSUME NEW j \in DOMAIN t, j # n + 1 PROVE \E k \in DOMAIN s : j = f(k) /\ t[j] = s[k]
  <2>1. CASE j <= n
    BY <1>1, <2>1 DEF Inserted
  <2>2. CASE ~(j <= n)
    <3>1. j - 1 \in 1..Len(s) /\ ~(j - 1 <= n) /\ (j - 1) + 1 = j
      BY <1>1, <1>4, <2>2
    <3>2. j - 1 \in DOMAIN s /\ t[j] = s[j - 1] /\ j = f(j - 1)
      BY <1>1, <1>4, <2>2, <3>1 DEF Inserted
    <3> QED  BY <3>2
  <2> QED  BY <2>1, <2>2
<1>5. ASSUME e \notin W, NEW x, Newest(s, W, x), NEW j \in DOMAIN t, LastIn(t, W, j)
      PROVE  t[j].approx = x
  <2>1. j # n + 1 /\ t[j] \in W
    BY <1>3, <1>5 DEF LastIn
  <2>2. PICK k \in DOMAIN s : j = f(k) /\ t[j] = s[k]
    BY <1>4, <2>1
  <2>3. ASSUME NEW l \in DOMAIN s, s[l] \in W PROVE l <= k
    <3>1. f(l) \in DOMAIN t /\ t[f(l)] \in W
      BY <1>2, <2>3
    <3>2. f(l) <= f(k)
      BY <1>5, <2>2, <3>1 DEF LastIn
    <3> QED  BY <1>1, <3>2
  <2>4. LastIn(s, W, k)
    BY <2>1, <2>2, <2>3 DEF LastIn
  <2> QED  BY <1>5, <2>2, <2>4 DEF Newest
<1>6. ASSUME NoneIn(t, W) PROVE NoneIn(s, W)
  BY <1>2, <1>6 DEF NoneIn
<1>7. ASSUME e \in W, \A j \in DOMAIN s : s[j] \in W => j <= n, NEW j \in DOMAIN t, LastIn(t, W, j)
      PROVE  t[j].approx = e.approx
  <2>1. CASE j = n + 1
    BY <1>3, <2>1
  <2>2. CASE j # n + 1
    <3>1. PICK k \in DOMAIN s : j = f(k) /\ t[j] = s[k]
      BY <1>4, <2>2
    <3>2. k <= n
      BY <1>7, <3>1 DEF LastIn
    <3>3. n + 1 <= j
      BY <1>3, <1>7 DEF LastIn
    <3> QED  BY <1>1, <3>1, <3>2, <3>3
  <2> QED  BY <2>1, <2>2
<1>8. e \in W => ~NoneIn(t, W)
  BY <1>3 DEF NoneIn
<1> QED  BY <1>5, <1>6, <1>7, <1>8 DEF Newest

(* An element goes in at the end.                                          *)
LEMMA NewestAppend ==
    ASSUME NEW S, NEW s \in Seq(S), NEW e \in S, NEW W
    PROVE  /\ e \notin W => \A x : Newest(s, W, x) => Newest(Append(s, e), W, x)
           /\ e \in W => Newest(Append(s, e), W, e.approx)
<1> DEFINE t == Append(s, e)
<1>1. /\ t \in Seq(S) /\ Len(t) = Len(s) + 1 /\ DOMAIN s = 1..Len(s) /\ Len(s) \in Nat
      /\ \A k \in 1..Len(s) : t[k] = s[k]
      /\ t[Len(s) + 1] = e
  BY AppendProperties, LenProperties
<1> HIDE DEF t
<1>2. Inserted(s, t, e, Len(s))
  BY <1>1 DEF Inserted
<1>3. Len(s) \in 0..Len(s) /\ \A j \in DOMAIN s : s[j] \in W => j <= Len(s)
  BY <1>1
<1> QED  BY <1>1, <1>2, <1>3, NewestInsert DEF t

(* Only what an element reports, and whether it is in W, matters.          *)
LEMMA NewestSame ==
    ASSUME NEW s, NEW t, DOMAIN t = DOMAIN s, NEW W,
           \A k \in DOMAIN s : (t[k] \in W <=> s[k] \in W) /\ t[k].approx = s[k].approx
    PROVE  /\ \A x : Newest(s, W, x) => Newest(t, W, x)
           /\ NoneIn(t, W) => NoneIn(s, W)
BY DEF Newest, LastIn, NoneIn

-----------------------------------------------------------------------------
(* The events are in the order of their deadlines, and a STATE is never    *)
(* due later than a new one of the same player would be.                   *)
Ordered == \A j, k \in DOMAIN events : j <= k => events[j].due <= events[k].due
Prompt ==
    \A k \in DOMAIN events :
        events[k].kind = "STATE" => events[k].id \in PlayerId /\ events[k].due <= Delay[events[k].id]

(* The events not later than a new one come first.                         *)
LEMMA NotLaterIsPrefix ==
    ASSUME NEW evs \in Seq(Event), NEW ev \in Event,
           \A j, k \in DOMAIN evs : j <= k => evs[j].due <= evs[k].due
    PROVE  \E n \in 0..Len(evs) : /\ add_event(evs, ev) = InsertBehind(evs, ev, n)
                                  /\ \A k \in DOMAIN evs : evs[k].due <= ev.due <=> k <= n
<1> DEFINE A == NotLater(evs, ev)
           n == Cardinality(A)
<1>1. DOMAIN evs = 1..Len(evs) /\ Len(evs) \in Nat
  BY LenProperties
<1>2. A \subseteq 1..Len(evs) /\ \A k \in DOMAIN evs : k \in A <=> evs[k].due <= ev.due
  <2>1. A \subseteq DOMAIN evs
    BY DEF NotLater
  <2>2. \A k \in DOMAIN evs : k \in A <=> evs[k].due <= ev.due
    BY Zenon DEF NotLater
  <2> HIDE DEF A
  <2> QED  BY <1>1, <2>1, <2>2
<1>3. IsFiniteSet(1..Len(evs)) /\ Cardinality(1..Len(evs)) = Len(evs)
  BY <1>1, SegmentSize
<1>4. IsFiniteSet(A) /\ n <= Len(evs)
  BY <1>2, <1>3, FS_Subset
<1>5. n \in Nat
  BY <1>4, FS_CardinalityType
<1>6. \A k \in DOMAIN evs : evs[k].due \in Nat
  <2>1. \A k \in DOMAIN evs : evs[k] \in Event
    BY <1>1
  <2> QED  BY <2>1 DEF Event
<1>7. ev.due \in Nat
  BY DEF Event
<1> HIDE DEF A, n
<1>8. ASSUME NEW k \in A PROVE k \in 1..n
  <2>1. k \in DOMAIN evs /\ k \in Nat /\ k >= 1 /\ evs[k].due <= ev.due
    BY <1>1, <1>2
  <2>2. ASSUME NEW j \in 1..k PROVE j \in A
    <3>1. j \in DOMAIN evs /\ evs[j].due <= evs[k].due
      BY <1>1, <2>1
    <3>2. evs[j].due <= ev.due
      BY <1>6, <1>7, <2>1, <3>1
    <3> QED  BY <1>2, <3>1, <3>2
  <2>3. 1..k \subseteq A
    BY <2>2
  <2>4. Cardinality(1..k) = k
    BY <2>1, SegmentSize
  <2>5. Cardinality(1..k) <= Cardinality(A)
    BY <1>4, <2>3, FS_Subset
  <2> QED  BY <1>5, <2>1, <2>4, <2>5 DEF n
<1>9. A = 1..n
  <2>1. A \subseteq 1..n
    BY <1>8
  <2>2. IsFiniteSet(1..n) /\ Cardinality(1..n) = n
    BY <1>5, SegmentSize
  <2> QED  BY <2>1, <2>2, FS_Subset DEF n
<1>10. n \in 0..Len(evs)
  BY <1>1, <1>4, <1>5
<1>11. \A k \in DOMAIN evs : evs[k].due <= ev.due <=> k <= n
  BY <1>1, <1>2, <1>5, <1>9
<1>12. add_event(evs, ev) = InsertBehind(evs, ev, n)
  BY DEF add_event, A, n
<1> QED  BY <1>10, <1>11, <1>12
(* What a step does to the events: the first one goes, a new one comes, a  *)
(* STATE with the delay of its player's name, time passes, or all go.      *)
EventAdded(e) ==
    /\ events' = add_event(events, e)
    /\ e.kind = "STATE" => e.id \in PlayerId /\ e.due = Delay[e.id]

(* There is no other change.                                               *)
LEMMA EventSteps ==
    ASSUME AddrInv, [Next]_vars
    PROVE  \/ events' \in {events, <<>>} \/ Tick
           \/ events # <<>> /\ events' = Tail(events)
           \/ \E e \in Event : EventAdded(e)
<1>1. StepInv /\ TypeInv /\ KnownHasId
  BY DEF AddrInv, StepInv, TypeInv
<1>2. CASE Quiet \/ Restarts
  BY <1>2 DEF Quiet, gameVars, Restarts
<1>3. CASE SkipEvent \/ AnswerEvent
  BY <1>3 DEF SkipEvent, AnswerEvent, Due
<1>4. ASSUME NEW a \in Addr, Accept(a), sent' = sent PROVE \E e \in Event : EventAdded(e)
  <2>1. PICK fd \in FD :
             LET e == [kind |-> "HELLO", due |-> hello_wait_time, fd |-> fd,
                       addr |-> a, id |-> UNKNOWN, approx |-> Zeros] IN
             e \in Event /\ events' = add_event(events, e)
    BY <1>1, <1>4, AcceptEffect
  <2>2. PICK e \in Event : e.kind = "HELLO" /\ events' = add_event(events, e)
    BY <2>1
  <2> QED  BY <2>2 DEF EventAdded
<1>5. ASSUME NEW fd \in FD, NEW id \in PlayerId, ReadHello(fd, id) PROVE events' = events
  BY <1>5 DEF ReadHello
<1>6. ASSUME NEW fd \in FD, NEW p \in Points, NEW v \in Values, ReadRejectedPut(fd, p, v),
             sent' = sent
      PROVE  events' = events \/ \E e \in Event : EventAdded(e)
  <2>1. PICK e \in Event : e = respond_with_bad_put(fd, players[fd])
    BY <1>1, <1>6, RejectedPutEffect
  <2>2. events' = events \/ events' = add_event(events, e)
    BY <1>1, <1>6, <2>1, RejectedPutEffect
  <2>3. e.kind = "BAD_PUT"
    BY <2>1 DEF respond_with_bad_put
  <2> QED  BY <2>2, <2>3 DEF EventAdded
<1>7. ASSUME NEW fd \in FD, NEW p \in Points, NEW v \in Values, ReadPut(fd, p, v), sent' = sent
      PROVE  \E e \in Event : EventAdded(e)
  <2>1. PICK e \in Event :
             /\ e = respond_with_state(fd, players[fd], Put(players[fd].approximations, p, v))
             /\ events' = add_event(events, e)
    BY <1>1, <1>7, PutEffect
  <2>2. e.id = players[fd].id /\ e.due = Delay[players[fd].id]
    BY <2>1 DEF respond_with_state
  <2>3. players[fd].id \in PlayerId
    <3>1. fd \in DOMAIN players /\ players[fd].is_known
      BY <1>1, <1>7, PutEffect
    <3> QED  BY <1>1, <3>1 DEF KnownHasId
  <2> QED  BY <2>1, <2>2, <2>3 DEF EventAdded
<1>8. ASSUME NEW whole \in BOOLEAN, Write(whole) PROVE events' = events
  BY <1>8 DEF Write
<1>9. ASSUME NEW fd \in FD, Leaves(fd)
      PROVE  events' = events \/ (events # <<>> /\ events' = Tail(events))
  BY <1>9 DEF Leaves, Due
<1> QED  BY <1>1, <1>2, <1>3, <1>4, <1>5, <1>6, <1>7, <1>8, <1>9, Steps DEF Plays

(* A new event goes behind those that are due no later.                    *)
LEMMA AddedInserts ==
    ASSUME AddrInv, AddrInv', Ordered, NEW e \in Event, events' = add_event(events, e)
    PROVE  \E n \in 0..Len(events) :
              /\ Inserted(events, events', e, n) /\ events' \in Seq(Event)
              /\ \A k \in DOMAIN events : events[k].due <= e.due <=> k <= n
<1>1. events \in Seq(Event)
  BY PlayerFacts
<1>2. PICK n \in 0..Len(events) :
             /\ add_event(events, e) = InsertBehind(events, e, n)
             /\ \A k \in DOMAIN events : events[k].due <= e.due <=> k <= n
  BY <1>1, NotLaterIsPrefix DEF Ordered
<1>3. n \in 0..Len(events)
  BY <1>2
<1>4. Inserted(events, InsertBehind(events, e, n), e, n)
      /\ InsertBehind(events, e, n) \in Seq(Event)
  BY <1>1, <1>3, InsertProperties DEF Inserted
<1> QED  BY <1>2, <1>3, <1>4

(* The deadlines stay in order.                                            *)
LEMMA OrderedNext ==
    ASSUME AddrInv, AddrInv', Ordered, Prompt, [Next]_vars
    PROVE  Ordered' /\ Prompt'
<1>1. /\ events \in Seq(Event) /\ TypeInv /\ DOMAIN events = 1..Len(events) /\ Len(events) \in Nat
  <2>1. events \in Seq(Event) /\ TypeInv
    BY PlayerFacts
  <2> QED  BY <2>1, LenProperties
<1>2. \A k \in DOMAIN events : events[k] \in Event /\ events[k].due \in Nat
  <2>1. \A k \in DOMAIN events : events[k] \in Event
    BY <1>1
  <2> QED  BY <2>1 DEF Event
<1>d. \A id \in PlayerId : Delay[id] \in Nat
  BY ServerAssumption
<1>3. CASE events' \in {events, <<>>}
  BY <1>3 DEF Ordered, Prompt
<1>4. CASE Tick
  <2>1. /\ DOMAIN events' = DOMAIN events
        /\ \A k \in DOMAIN events : events'[k] = [events[k] EXCEPT !.due = events[k].due - 1]
    BY <1>1, <1>4, TickEffect
  <2>2. \A k \in DOMAIN events : /\ events'[k].due = events[k].due - 1
                                 /\ events'[k].kind = events[k].kind
                                 /\ events'[k].id = events[k].id
    BY <1>2, <2>1 DEF Event
  <2>3. Ordered'
    BY <1>2, <2>1, <2>2 DEF Ordered
  <2>4. Prompt'
    <3> SUFFICES ASSUME NEW k \in DOMAIN events, events[k].kind = "STATE"
                 PROVE  /\ events[k].id \in PlayerId
                        /\ events[k].due - 1 <= Delay[events[k].id]
      BY <2>1, <2>2 DEF Prompt
    <3> QED  BY <1>2, <1>d DEF Prompt
  <2> QED  BY <2>3, <2>4
<1>5. CASE events # <<>> /\ events' = Tail(events)
  <2>1. /\ DOMAIN events' = 1..(Len(events) - 1)
        /\ \A k \in DOMAIN events' : k + 1 \in DOMAIN events /\ events'[k] = events[k + 1]
    BY <1>1, <1>5, TailElements
  <2>2. Ordered'
    <3> SUFFICES ASSUME NEW j \in DOMAIN events', NEW k \in DOMAIN events', j <= k
                 PROVE  events'[j].due <= events'[k].due
      BY DEF Ordered
    <3>1. j + 1 <= k + 1
      BY <1>1, <2>1
    <3> QED  BY <2>1, <3>1 DEF Ordered
  <2>3. Prompt'
    BY <2>1 DEF Prompt
  <2> QED  BY <2>2, <2>3
<1>6. ASSUME NEW e \in Event, EventAdded(e) PROVE Ordered' /\ Prompt'
  <2>1. PICK n \in 0..Len(events) :
             /\ Inserted(events, events', e, n) /\ events' \in Seq(Event)
             /\ \A k \in DOMAIN events : events[k].due <= e.due <=> k <= n
    BY <1>6, AddedInserts DEF EventAdded
  <2>2. n \in Nat /\ n <= Len(events) /\ DOMAIN events' = 1..(Len(events) + 1)
    BY <1>1, <2>1, LenProperties DEF Inserted
  <2>3. ASSUME NEW j \in DOMAIN events'
        PROVE  /\ j <= n => j \in DOMAIN events /\ events'[j] = events[j]
               /\ j = n + 1 => events'[j] = e
               /\ j > n + 1 => /\ j - 1 \in DOMAIN events /\ events'[j] = events[j - 1]
                               /\ ~(j - 1 <= n)
    BY <1>1, <2>1, <2>2 DEF Inserted
  <2>4. e.due \in Nat
    BY DEF Event
  <2>5. ASSUME NEW j \in DOMAIN events', NEW k \in DOMAIN events', j <= k
        PROVE  events'[j].due <= events'[k].due
    <3>1. j \in Nat /\ k \in Nat
      BY <2>2
    <3>2. CASE k <= n
      BY <2>2, <2>3, <2>5, <3>1, <3>2 DEF Ordered
    <3>3. CASE k = n + 1
      <4>1. CASE j = n + 1
        BY <2>3, <2>4, <3>3, <4>1
      <4>2. CASE j <= n
        BY <2>1, <2>3, <3>3, <4>2
      <4> QED  BY <2>2, <2>5, <3>1, <3>3, <4>1, <4>2
    <3>4. CASE k > n + 1
      <4>1. /\ k - 1 \in DOMAIN events /\ events'[k] = events[k - 1]
            /\ ~(events[k - 1].due <= e.due) /\ events[k - 1].due \in Nat
        BY <1>2, <2>1, <2>3, <3>4
      <4>2. CASE j = n + 1
        BY <2>3, <2>4, <4>1, <4>2
      <4>3. CASE j <= n
        <5>1. j \in DOMAIN events /\ events'[j] = events[j] /\ j <= k - 1
          BY <2>2, <2>3, <3>1, <3>4, <4>3
        <5> QED  BY <4>1, <5>1 DEF Ordered
      <4>4. CASE j > n + 1
        <5>1. j - 1 \in DOMAIN events /\ events'[j] = events[j - 1] /\ j - 1 <= k - 1
          BY <2>3, <2>5, <3>1, <4>4
        <5> QED  BY <4>1, <5>1 DEF Ordered
      <4> QED  BY <2>2, <3>1, <4>2, <4>3, <4>4
    <3> QED  BY <2>2, <3>1, <3>2, <3>3, <3>4
  <2>6. ASSUME NEW j \in DOMAIN events', events'[j].kind = "STATE"
        PROVE  events'[j].id \in PlayerId /\ events'[j].due <= Delay[events'[j].id]
    <3>1. events'[j] = e \/ \E k \in DOMAIN events : events'[j] = events[k]
      BY <2>2, <2>3
    <3>2. CASE events'[j] = e
      BY <1>6, <1>d, <2>4, <2>6, <3>2 DEF EventAdded
    <3>3. CASE \E k \in DOMAIN events : events'[j] = events[k]
      BY <2>6, <3>3 DEF Prompt
    <3> QED  BY <3>1, <3>2, <3>3
  <2> QED  BY <2>5, <2>6 DEF Ordered, Prompt
<1> QED  BY <1>3, <1>4, <1>5, <1>6, EventSteps
-----------------------------------------------------------------------------
(* The STATE a player reads last.                                          *)
StateAnswer == {m \in Answer : m.type = "STATE"}
Current(g) ==
    LET W == Wanted("STATE", g, players[g].addr)
        x == players[g].approximations IN
    /\ Newest(events, W, x)
    /\ NoneIn(events, W) => Newest(players[g].messages, StateAnswer, x)

EventsKept(W) ==
    /\ \A x : Newest(events, W, x) => Newest(events', W, x)
    /\ NoneIn(events', W) => NoneIn(events, W)
QueueKept(g) ==
    \A x : Newest(players[g].messages, StateAnswer, x)
             => Newest(players'[g].messages, StateAnswer, x)

(* Events that are no STATE of a player leave its STATEs as they are.      *)
LEMMA KeptEvents ==
    ASSUME AddrInv, NEW W,
           \/ events' = events
           \/ events # <<>> /\ events' = Tail(events) /\ events[1] \notin W
           \/ \E e \in Event : e \notin W /\ events' = add_event(events, e)
    PROVE  EventsKept(W)
<1>1. events \in Seq(Event)
  BY PlayerFacts
<1>2. CASE events' = events
  BY <1>2 DEF EventsKept
<1>3. CASE events # <<>> /\ events' = Tail(events) /\ events[1] \notin W
  BY <1>1, <1>3, NewestTail DEF EventsKept
<1>4. ASSUME NEW e \in Event, e \notin W, events' = add_event(events, e)
      PROVE  EventsKept(W)
  <2>1. PICK n \in 0..Len(events) : add_event(events, e) = InsertBehind(events, e, n)
    BY <1>1, AddEventInserts
  <2>2. n \in 0..Len(events)
    BY <2>1
  <2>3. Inserted(events, InsertBehind(events, e, n), e, n)
        /\ InsertBehind(events, e, n) \in Seq(Event)
    BY <1>1, <2>2, InsertProperties DEF Inserted
  <2>4. Inserted(events, events', e, n) /\ events' \in Seq(Event)
    BY <1>4, <2>1, <2>3
  <2> QED  BY <1>1, <1>4, <2>2, <2>4, NewestInsert DEF EventsKept
<1> QED  BY <1>2, <1>3, <1>4

(* So does the passing of time.                                            *)
LEMMA KeptByTick ==
    ASSUME AddrInv, Tick, NEW fd, NEW a
    PROVE  EventsKept(Wanted("STATE", fd, a))
<1>1. /\ DOMAIN events' = DOMAIN events /\ TypeInv' /\ TypeInv
      /\ \A k \in DOMAIN events : events'[k] = [events[k] EXCEPT !.due = events[k].due - 1]
  BY PlayerFacts, TickEffect
<1>2. events \in Seq(Event) /\ events' \in Seq(Event)
  BY <1>1, TypeParts, TypePartsPrime DEF TypeInv, GameType
<1>3. \A k \in DOMAIN events : events[k] \in Event /\ events'[k] \in Event
  BY <1>1, <1>2
<1>4. \A k \in DOMAIN events : events'[k].kind = events[k].kind /\ events'[k].fd = events[k].fd
                               /\ events'[k].addr = events[k].addr
                               /\ events'[k].approx = events[k].approx
  BY <1>1, <1>3 DEF Event
<1>5. \A k \in DOMAIN events :
          events'[k] \in Wanted("STATE", fd, a) <=> events[k] \in Wanted("STATE", fd, a)
  BY <1>3, <1>4 DEF Wanted
<1> QED  BY <1>1, <1>4, <1>5, NewestSame DEF EventsKept

(* A message that is no STATE, or a write, leaves the STATEs queued.       *)
LEMMA KeptQueue ==
    ASSUME NEW g, players[g].messages \in Seq(Answer),
           LET q == players[g].messages IN
           \/ players'[g].messages = q
           \/ \E m \in Answer : m.type # "STATE" /\ players'[g].messages = Append(q, m)
           \/ q # <<>> /\ players'[g].messages = Tail(q)
           \/ q # <<>> /\ players'[g].messages = <<[Head(q) EXCEPT !.rest = TRUE]>> \o Tail(q)
    PROVE  QueueKept(g)
<1>0. PICK q \in Seq(Answer) : q = players[g].messages
  OBVIOUS
<1>1. CASE players'[g].messages = q
  BY <1>0, <1>1 DEF QueueKept
<1>2. ASSUME NEW m \in Answer, m.type # "STATE", players'[g].messages = Append(q, m)
      PROVE  QueueKept(g)
  <2>1. m \notin StateAnswer
    BY <1>2 DEF StateAnswer
  <2> QED  BY <1>0, <1>2, <2>1, NewestAppend DEF QueueKept
<1>3. CASE q # <<>> /\ players'[g].messages = Tail(q)
  BY <1>0, <1>3, NewestTail DEF QueueKept
<1>4. CASE q # <<>> /\ players'[g].messages = <<[Head(q) EXCEPT !.rest = TRUE]>> \o Tail(q)
  <2>1. PICK m \in Answer : m = [Head(q) EXCEPT !.rest = TRUE]
    <3>1. Head(q) \in Answer
      BY <1>4, HeadTailProperties
    <3> QED  BY <3>1 DEF Answer
  <2>2. Head(q) \in Answer /\ Tail(q) \in Seq(Answer) /\ Head(q) = q[1]
    BY <1>4, HeadTailProperties
  <2>3. m.type = q[1].type /\ m.approx = q[1].approx /\ q[1] \in Answer
    BY <2>1, <2>2 DEF Answer
  <2>4. PICK t : t = <<m>> \o Tail(q)
    OBVIOUS
  <2>5. /\ DOMAIN t = DOMAIN q /\ 1 \in DOMAIN q /\ t[1] = m
        /\ \A k \in DOMAIN q : k # 1 => t[k] = q[k]
    <3>1. /\ 1 \in DOMAIN q /\ Len(q) \in Nat \ {0} /\ DOMAIN q = 1..Len(q)
          /\ \A k \in DOMAIN q : k # 1 => k - 1 \in DOMAIN Tail(q) /\ Tail(q)[k - 1] = q[k]
      BY <1>4, TailElements, LenProperties
    <3>2. Len(Tail(q)) = Len(q) - 1
      BY <1>4, HeadTailProperties
    <3>3. <<m>> \in Seq(Answer) /\ Len(<<m>>) = 1 /\ <<m>>[1] = m
      OBVIOUS
    <3>4. /\ t \in Seq(Answer) /\ Len(t) = 1 + Len(Tail(q))
          /\ \A k \in 1..(1 + Len(Tail(q))) :
                t[k] = IF k <= 1 THEN <<m>>[k] ELSE Tail(q)[k - 1]
      BY <2>2, <2>4, <3>3, ConcatProperties
    <3>5. DOMAIN t = 1..Len(q)
      BY <3>1, <3>2, <3>4, LenProperties
    <3>6. t[1] = m
      BY <3>1, <3>2, <3>3, <3>4
    <3>7. ASSUME NEW k \in DOMAIN q, k # 1 PROVE t[k] = q[k]
      <4>1. k \in 1..(1 + Len(Tail(q))) /\ ~(k <= 1)
        BY <3>1, <3>2, <3>7
      <4> QED  BY <3>1, <3>4, <3>7, <4>1
    <3> QED  BY <3>1, <3>5, <3>6, <3>7
  <2>6. \A k \in DOMAIN q : /\ t[k] \in StateAnswer <=> q[k] \in StateAnswer
                            /\ t[k].approx = q[k].approx
    BY <2>1, <2>3, <2>5 DEF StateAnswer
  <2>7. players'[g].messages = t
    BY <1>4, <2>1, <2>4
  <2> QED  BY <1>0, <2>5, <2>6, <2>7, NewestSame DEF QueueKept
<1> QED  BY <1>0, <1>1, <1>2, <1>3, <1>4

(* The last STATE of a player stays the last one.                          *)
LEMMA KeptCurrent ==
    ASSUME NEW g, Current(g), players'[g].addr = players[g].addr,
           players'[g].approximations = players[g].approximations,
           EventsKept(Wanted("STATE", g, players[g].addr)), QueueKept(g)
    PROVE  Current(g)'
BY DEF Current, EventsKept, QueueKept
(* A delayed answer: a STATE moves from the events to the queue.           *)
LEMMA CurrentAnswered ==
    ASSUME AddrInv, AnswerEvent, \A g \in DOMAIN players : Current(g)
    PROVE  \A g \in DOMAIN players' : Current(g)'
<1>a. StepInv /\ events \in Seq(Event)
  BY PlayerFacts
<1>0. PICK e \in Event, fd \in DOMAIN players : e = events[1] /\ fd = e.fd
  BY <1>a, AnswerEffect
<1>1. PICK m : m = MakeAnswer(e.kind, e.addr, e.approx)
  OBVIOUS
<1>2. /\ e.kind # "HELLO" /\ players[fd].addr = e.addr /\ m \in Answer
      /\ DOMAIN players' = DOMAIN players
      /\ players'[fd] = [players[fd] EXCEPT !.messages = Append(players[fd].messages, m),
                                            !.can_put = TRUE]
      /\ \A g \in DOMAIN players : g # fd => players'[g] = players[g]
      /\ events # <<>> /\ events' = Tail(events)
  BY <1>a, <1>0, <1>1, AnswerEffect
<1>3. m.type = e.kind /\ m.approx = e.approx
  BY <1>1 DEF MakeAnswer
<1>4. players[fd] \in PlayerInfo /\ players[fd].messages \in Seq(Answer)
  BY PlayerFacts
<1>5. /\ players'[fd].addr = players[fd].addr
      /\ players'[fd].messages = Append(players[fd].messages, m)
      /\ players'[fd].approximations = players[fd].approximations
  BY <1>2, <1>4 DEF PlayerInfo
<1>6. ASSUME NEW g \in DOMAIN players, g # fd PROVE Current(g)'
  <2>1. events[1] \notin Wanted("STATE", g, players[g].addr)
    BY <1>0, <1>6 DEF Wanted
  <2>2. EventsKept(Wanted("STATE", g, players[g].addr))
    BY <1>2, <2>1, KeptEvents
  <2>3. players'[g] = players[g]
    BY <1>2, <1>6
  <2>4. QueueKept(g)
    BY <2>3 DEF QueueKept
  <2> QED  BY <2>2, <2>3, <2>4, KeptCurrent
<1>7. CASE e.kind # "STATE"
  <2>1. events[1] \notin Wanted("STATE", fd, players[fd].addr)
    BY <1>0, <1>7 DEF Wanted
  <2>2. EventsKept(Wanted("STATE", fd, players[fd].addr))
    BY <1>2, <2>1, KeptEvents
  <2>3. QueueKept(fd)
    BY <1>2, <1>3, <1>4, <1>5, <1>7, KeptQueue
  <2>4. Current(fd)'
    BY <1>5, <2>2, <2>3, KeptCurrent
  <2> QED  BY <1>2, <1>6, <2>4
<1>8. CASE e.kind = "STATE"
  <2>1. PICK W, x, q : /\ W = Wanted("STATE", fd, players[fd].addr)
                       /\ x = players[fd].approximations /\ q = players[fd].messages
    OBVIOUS
  <2>2. events[1] \in W /\ Newest(events, W, x)
    BY <1>0, <1>2, <1>8, <2>1 DEF Wanted, Current
  <2>3. /\ Newest(events', W, x)
        /\ NoneIn(events', W) => events[1].approx = x
    BY <1>a, <1>2, <2>2, NewestTail
  <2>4. m \in StateAnswer
    BY <1>2, <1>3, <1>8 DEF StateAnswer
  <2>5. Newest(Append(q, m), StateAnswer, m.approx)
    BY <1>2, <1>4, <2>1, <2>4, NewestAppend
  <2>6. NoneIn(events', W) => Newest(players'[fd].messages, StateAnswer, x)
    BY <1>0, <1>3, <1>5, <2>1, <2>3, <2>5
  <2>7. Current(fd)'
    BY <1>5, <2>1, <2>3, <2>6 DEF Current
  <2> QED  BY <1>2, <1>6, <2>7
<1> QED  BY <1>7, <1>8

(* A correct PUT: its STATE goes behind the earlier ones of the player,    *)
(* none of which is due later.                                             *)
LEMMA CurrentPut ==
    ASSUME AddrInv, AddrInv', Ordered, Prompt, \A g \in DOMAIN players : Current(g),
           NEW fd \in FD, NEW p \in Points, NEW v \in Values, ReadPut(fd, p, v), sent' = sent
    PROVE  \A g \in DOMAIN players' : Current(g)'
<1>a. /\ StepInv /\ TypeInv /\ Callbacks /\ events \in Seq(Event)
  BY PlayerFacts
<1>b. \A g \in DOMAIN players : players[g] \in PlayerInfo /\ players[g].messages \in Seq(Answer)
  BY PlayerFacts
<1>1. PICK e \in Event :
           e = respond_with_state(fd, players[fd], Put(players[fd].approximations, p, v))
  BY <1>a, PutEffect
<1>2. /\ fd \in DOMAIN players /\ DOMAIN players' = DOMAIN players
      /\ \A g \in DOMAIN players : g # fd => players'[g] = Final(players[g], stopping')
      /\ events' = add_event(events, e)
  BY <1>a, <1>1, PutEffect
<1>3. /\ e.kind = "STATE" /\ e.fd = fd /\ e.addr = players[fd].addr
      /\ e.approx = Put(players[fd].approximations, p, v) /\ e.due = Delay[players[fd].id]
  BY <1>1 DEF respond_with_state
<1>4. /\ stopping' \in BOOLEAN /\ Stays(fd)
      /\ players'[fd].approximations = Put(players[fd].approximations, p, v)
  BY PutSeats DEF SeatPut, Remains
<1>5. Current(fd)'
  <2>1. PICK n \in 0..Len(events) :
             /\ Inserted(events, events', e, n) /\ events' \in Seq(Event)
             /\ \A k \in DOMAIN events : events[k].due <= e.due <=> k <= n
    BY <1>2, AddedInserts
  <2>2. PICK W : W = Wanted("STATE", fd, players[fd].addr)
    OBVIOUS
  <2>3. ASSUME NEW j \in DOMAIN events, events[j] \in W PROVE j <= n
    <3>1. events[j].kind = "STATE" /\ events[j].fd = fd /\ events[j].addr = players[fd].addr
      BY <2>2, <2>3 DEF Wanted
    <3>2. events[j].id = players[fd].id
      BY <1>a, <1>2, <3>1 DEF Callbacks
    <3>3. events[j].due <= e.due
      BY <1>3, <3>1, <3>2 DEF Prompt
    <3> QED  BY <2>1, <3>3
  <2>4. e \in W
    BY <1>3, <2>2 DEF Wanted
  <2>5. Newest(events', W, e.approx) /\ ~NoneIn(events', W)
    BY <1>a, <2>1, <2>3, <2>4, NewestInsert
  <2> QED  BY <1>3, <1>4, <2>2, <2>5 DEF Current, Stays
<1>6. ASSUME NEW g \in DOMAIN players, g # fd PROVE Current(g)'
  <2>1. e \notin Wanted("STATE", g, players[g].addr)
    BY <1>3, <1>6 DEF Wanted
  <2>2. EventsKept(Wanted("STATE", g, players[g].addr))
    BY <1>2, <2>1, KeptEvents
  <2>3. PICK player \in PlayerInfo : player = players[g]
    BY <1>b
  <2>4. PICK m : m = MakeAnswer("SCORING", player.addr, Zeros)
    OBVIOUS
  <2>5. /\ players'[g].addr = player.addr /\ players'[g].approximations = player.approximations
        /\ players'[g].messages = IF stopping' /\ player.is_known
                                  THEN Append(player.messages, m) ELSE player.messages
    BY <1>2, <1>4, <1>6, <2>3, <2>4, FinalKeeps
  <2>6. player.is_known => m \in Answer
    BY <1>4, <2>4, FinalType
  <2>7. m.type # "STATE"
    BY <2>4 DEF MakeAnswer
  <2>8. QueueKept(g)
    BY <1>b, <2>3, <2>5, <2>6, <2>7, KeptQueue
  <2> QED  BY <2>2, <2>3, <2>5, <2>8, KeptCurrent
<1> QED  BY <1>2, <1>5, <1>6

(* Every step keeps the newest STATE of each player current.               *)
LEMMA CurrentNext ==
    ASSUME AddrInv, AddrInv', Ordered, Prompt, [Next]_vars,
           \A g \in DOMAIN players : Current(g)
    PROVE  \A g \in DOMAIN players' : Current(g)'
<1>a. /\ StepInv /\ TypeInv /\ Seats /\ Callbacks /\ events \in Seq(Event)
  BY PlayerFacts
<1>b. \A g \in DOMAIN players : players[g] \in PlayerInfo /\ players[g].messages \in Seq(Answer)
  BY PlayerFacts
<1>1. ASSUME NEW g \in DOMAIN players, players'[g] = players[g],
             EventsKept(Wanted("STATE", g, players[g].addr))
      PROVE  Current(g)'
  <2>1. QueueKept(g)
    BY <1>1 DEF QueueKept
  <2> QED  BY <1>1, <2>1, KeptCurrent
<1>2. CASE Quiet
  <2>1. players' = players /\ events' = events
    BY <1>2 DEF Quiet, gameVars
  <2> QED  BY <1>1, <2>1, KeptEvents
<1>3. CASE Restarts
  BY <1>3 DEF Restarts
<1>4. CASE Tick
  <2>1. players' = players
    BY <1>4 DEF Tick
  <2> QED  BY <1>1, <1>4, <2>1, KeptByTick
<1>5. CASE SkipEvent
  <2>1. /\ players' = players /\ events' = Tail(events) /\ events # <<>>
        /\ ~LiveEvent(events[1])
    BY <1>5 DEF SkipEvent, Due
  <2>2. 1 \in DOMAIN events
    BY <1>a, <2>1, TailElements
  <2>3. ASSUME NEW g \in DOMAIN players
        PROVE  events[1] \notin Wanted("STATE", g, players[g].addr)
    BY <1>a, <2>1, <2>2 DEF Callbacks, LiveEvent, validate_client, is_client_connected, Wanted
  <2> QED  BY <1>1, <2>1, <2>3, KeptEvents
<1>6. CASE AnswerEvent
  BY <1>6, CurrentAnswered
<1>7. ASSUME NEW a \in Addr, Accept(a), sent' = sent PROVE \A g \in DOMAIN players' : Current(g)'
  <2>1. PICK fd \in FD :
             LET e == [kind |-> "HELLO", due |-> hello_wait_time, fd |-> fd,
                       addr |-> a, id |-> UNKNOWN, approx |-> Zeros] IN
             /\ fd \notin DOMAIN players /\ DOMAIN players' = DOMAIN players \cup {fd}
             /\ players'[fd] = NewPlayer(a)
             /\ \A g \in DOMAIN players : players'[g] = players[g]
             /\ e \in Event /\ events' = add_event(events, e)
    BY <1>a, <1>7, AcceptEffect
  <2>2. PICK e \in Event : e.kind = "HELLO" /\ events' = add_event(events, e)
    BY <2>1
  <2>3. ASSUME NEW g, NEW b PROVE EventsKept(Wanted("STATE", g, b))
    <3>1. e \notin Wanted("STATE", g, b)
      BY <2>2 DEF Wanted
    <3> QED  BY <2>2, <3>1, KeptEvents
  <2>4. players'[fd].addr = a /\ players'[fd].messages = <<>>
    BY <2>1 DEF NewPlayer
  <2>5. conn[a].st = "backlog"
    BY <1>7 DEF Accept
  <2>6. NoneIn(events, Wanted("STATE", fd, a))
    BY <1>a, <2>5 DEF Callbacks, Wanted, NoneIn
  <2>7. \A x : Newest(events', Wanted("STATE", fd, a), x)
    BY <2>3, <2>6 DEF Newest, LastIn, NoneIn, EventsKept
  <2>8. \A x : Newest(<<>>, StateAnswer, x)
    BY DEF Newest
  <2>9. Current(fd)'
    BY <2>4, <2>7, <2>8 DEF Current
  <2> QED  BY <1>1, <2>1, <2>3, <2>9
<1>8. ASSUME NEW fd \in FD, NEW id \in PlayerId, ReadHello(fd, id), sent' = sent
      PROVE  \A g \in DOMAIN players' : Current(g)'
  <2> DEFINE m == MakeAnswer("COEFF", players[fd].addr, Zeros)
  <2>1. /\ fd \in DOMAIN players /\ DOMAIN players' = DOMAIN players /\ m \in Answer
        /\ players'[fd] =
             [players[fd] EXCEPT !.messages = Append(players[fd].messages, m),
                 !.id = id, !.is_known = TRUE, !.can_put = TRUE, !.coefficients = coeff_file + 1]
        /\ \A g \in DOMAIN players : g # fd => players'[g] = players[g]
    BY <1>a, <1>8, HelloEffect
  <2>2. events' = events
    BY <1>8 DEF ReadHello
  <2>3. m.type # "STATE"
    BY DEF MakeAnswer
  <2> HIDE DEF m
  <2>4. /\ players'[fd].addr = players[fd].addr
        /\ players'[fd].messages = Append(players[fd].messages, m)
        /\ players'[fd].approximations = players[fd].approximations
    BY <1>b, <2>1 DEF PlayerInfo
  <2>5. QueueKept(fd)
    BY <1>b, <2>1, <2>3, <2>4, KeptQueue
  <2>6. \A W : EventsKept(W)
    BY <2>2, KeptEvents
  <2>7. Current(fd)'
    BY <2>1, <2>4, <2>5, <2>6, KeptCurrent
  <2> QED  BY <1>1, <2>1, <2>6, <2>7
<1>9. ASSUME NEW fd \in FD, NEW p \in Points, NEW v \in Values, ReadRejectedPut(fd, p, v),
             sent' = sent
      PROVE  \A g \in DOMAIN players' : Current(g)'
  <2>1. PICK e \in Event, m \in Answer, early \in {~players[fd].can_put},
                  bad \in {OutOfRange(p, v)} :
             /\ e = respond_with_bad_put(fd, players[fd])
             /\ m = MakeAnswer("PENALTY", players[fd].addr, Zeros)
    BY <1>a, <1>9, RejectedPutEffect
  <2>2. /\ fd \in DOMAIN players /\ DOMAIN players' = DOMAIN players
        /\ players'[fd] = Rejected(players[fd], early, bad)
        /\ \A g \in DOMAIN players : g # fd => players'[g] = players[g]
        /\ events' = events \/ events' = add_event(events, e)
    BY <1>a, <1>9, <2>1, RejectedPutEffect
  <2>3. e.kind = "BAD_PUT" /\ m.type = "PENALTY"
    BY <2>1 DEF respond_with_bad_put, MakeAnswer
  <2>4. ASSUME NEW g, NEW b PROVE EventsKept(Wanted("STATE", g, b))
    <3>1. e \notin Wanted("STATE", g, b)
      BY <2>3 DEF Wanted
    <3> QED  BY <2>2, <3>1, KeptEvents
  <2>5. PICK was \in PlayerInfo : was = players[fd]
    BY <1>b, <2>2
  <2>6. LET new == Rejected(was, early, bad) IN
        /\ new.addr = was.addr /\ new.approximations = was.approximations
        /\ new.messages = IF early THEN Append(was.messages, MakeAnswer("PENALTY", was.addr, Zeros))
                          ELSE was.messages
    BY RejectedKeeps
  <2>7. /\ players'[fd].addr = players[fd].addr
        /\ players'[fd].approximations = players[fd].approximations
        /\ players'[fd].messages \in {players[fd].messages, Append(players[fd].messages, m)}
    BY <2>1, <2>2, <2>5, <2>6
  <2>8. QueueKept(fd)
    BY <1>b, <2>2, <2>3, <2>7, KeptQueue
  <2>9. Current(fd)'
    BY <2>2, <2>4, <2>7, <2>8, KeptCurrent
  <2> QED  BY <1>1, <2>2, <2>4, <2>9
<1>10. ASSUME NEW fd \in FD, NEW p \in Points, NEW v \in Values, ReadPut(fd, p, v), sent' = sent
       PROVE  \A g \in DOMAIN players' : Current(g)'
  BY <1>10, CurrentPut
<1>11. ASSUME NEW whole \in BOOLEAN, Write(whole), sent' = sent
       PROVE  \A g \in DOMAIN players' : Current(g)'
  <2>1. PICK fd \in DOMAIN players :
             /\ players[fd].messages # <<>>
             /\ DOMAIN players' = DOMAIN players
             /\ players'[fd] =
                  [players[fd] EXCEPT !.messages =
                      IF whole THEN Tail(players[fd].messages)
                      ELSE append_message_front(Tail(players[fd].messages),
                              [Head(players[fd].messages) EXCEPT !.rest = TRUE])]
             /\ \A g \in DOMAIN players : g # fd => players'[g] = players[g]
    BY <1>a, <1>11, WriteEffect
  <2>2. events' = events
    BY <1>11 DEF Write
  <2>3. /\ players'[fd].addr = players[fd].addr
        /\ players'[fd].approximations = players[fd].approximations
        /\ players'[fd].messages =
             IF whole THEN Tail(players[fd].messages)
             ELSE <<[Head(players[fd].messages) EXCEPT !.rest = TRUE]>> \o Tail(players[fd].messages)
    BY <1>b, <2>1 DEF PlayerInfo, append_message_front
  <2>4. QueueKept(fd)
    BY <1>b, <2>1, <2>3, KeptQueue
  <2>5. \A W : EventsKept(W)
    BY <2>2, KeptEvents
  <2>6. Current(fd)'
    BY <2>1, <2>3, <2>4, <2>5, KeptCurrent
  <2> QED  BY <1>1, <2>1, <2>5, <2>6
<1>12. ASSUME NEW fd \in FD, Leaves(fd) PROVE \A g \in DOMAIN players' : Current(g)'
  <2>1. /\ fd \in DOMAIN players /\ DOMAIN players' = DOMAIN players \ {fd}
        /\ \A g \in DOMAIN players' : players'[g] = players[g]
        /\ \/ events' = events
           \/ events # <<>> /\ events[1].fd = fd /\ events' = Tail(events)
    BY <1>12 DEF Leaves, Due
  <2>2. ASSUME NEW g \in DOMAIN players' PROVE Current(g)'
    <3>1. g \in DOMAIN players /\ g # fd /\ players'[g] = players[g]
      BY <2>1
    <3>2. events[1].fd = fd => events[1] \notin Wanted("STATE", g, players[g].addr)
      BY <3>1 DEF Wanted
    <3>3. EventsKept(Wanted("STATE", g, players[g].addr))
      BY <2>1, <3>2, KeptEvents
    <3> QED  BY <1>1, <3>1, <3>3
  <2> QED  BY <2>2
<1> QED  BY <1>a, <1>2, <1>3, <1>4, <1>5, <1>6, <1>7, <1>8, <1>9, <1>10, <1>11, <1>12, Steps DEF Plays

(* The last STATE a player will read is its approximation as it will be    *)
(* scored, for any delays, whatever is skipped, dropped or sent meanwhile: *)
(* the timers of one player fire in the order of its PUTs.                 *)
THEOREM NewestStateHolds == Spec => []NewestStateIsCurrent
<1> DEFINE Inv == Ordered /\ Prompt /\ \A g \in DOMAIN players : Current(g)
<1>1. Init => Inv
  BY DEF Init, Ordered, Prompt
<1>2. AddrInv /\ AddrInv' /\ Inv /\ [Next]_vars => Inv'
  BY OrderedNext, CurrentNext
<1>3. AddrInv /\ Inv => NewestStateIsCurrent
  <2> SUFFICES ASSUME AddrInv, NEW fd \in DOMAIN players, Current(fd)
               PROVE  /\ \A k \in DOMAIN events : IsLast(k, ScheduledStates(fd))
                            => events[k].approx = players[fd].approximations
                      /\ ScheduledStates(fd) = {} =>
                            \A k \in DOMAIN players[fd].messages :
                                IsLast(k, QueuedStates(fd)) =>
                                  players[fd].messages[k].approx = players[fd].approximations
    BY DEF NewestStateIsCurrent
  <2>1. PICK W, q, x : /\ W = Wanted("STATE", fd, players[fd].addr)
                       /\ q = players[fd].messages /\ x = players[fd].approximations
    OBVIOUS
  <2>2. events \in Seq(Event) /\ q \in Seq(Answer)
    BY <2>1, PlayerFacts
  <2>3. \A k \in DOMAIN events : k \in ScheduledStates(fd) <=> events[k] \in W
    <3>1. \A k \in DOMAIN events : events[k] \in Event
      BY <2>2
    <3> QED  BY <2>1, <3>1 DEF ScheduledStates, Wanted
  <2>4. \A k \in DOMAIN q : k \in QueuedStates(fd) <=> q[k] \in StateAnswer
    <3>1. \A k \in DOMAIN q : q[k] \in Answer
      BY <2>2
    <3> QED  BY <2>1, <3>1 DEF QueuedStates, StateAnswer
  <2>5. /\ Newest(events, W, x) /\ (NoneIn(events, W) => Newest(q, StateAnswer, x))
    BY <2>1 DEF Current
  <2>6. ASSUME NEW k \in DOMAIN events, IsLast(k, ScheduledStates(fd)) PROVE events[k].approx = x
    <3>1. LastIn(events, W, k)
      BY <2>3, <2>6 DEF LastIn, IsLast
    <3> QED  BY <2>5, <3>1 DEF Newest
  <2>7. ASSUME ScheduledStates(fd) = {}, NEW k \in DOMAIN q, IsLast(k, QueuedStates(fd))
        PROVE  q[k].approx = x
    <3>1. NoneIn(events, W)
      BY <2>3, <2>7 DEF NoneIn
    <3>2. LastIn(q, StateAnswer, k)
      BY <2>4, <2>7 DEF LastIn, IsLast
    <3> QED  BY <2>5, <3>1, <3>2 DEF Newest
  <2> QED  BY <2>1, <2>6, <2>7
<1> HIDE DEF Inv
<1> QED  BY <1>1, <1>2, <1>3, AddrInvariant, PTL DEF Spec
=============================================================================
