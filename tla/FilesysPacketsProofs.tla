------------------------ MODULE FilesysPacketsProofs ------------------------
(***************************************************************************)
(* Proofs about FilesysPackets, for any number of units, packets and       *)
(* resets. The first part is about the dummy messages (IInv): the counters *)
(* cmds_acked and cmds_complete of a unit differ exactly while its message *)
(* is on its way, and no interrupt, of whatever origin, has it put a       *)
(* second time. The second is about the packets (PacketInv): a handler's   *)
(* chain of commands tells what its thread has still to do, and its count  *)
(* of started ones bounds what is in the pipes. The last is about a reset  *)
(* (DownInv), which waits for each thread in turn.                         *)
(***************************************************************************)
EXTENDS FilesysPackets, SequenceTheorems, FiniteSetTheorems, WellFoundedInduction, TLAPS

Has(q) == \E i \in 1 .. Len(q) : q[i] = Dummy
Single(q) == \A i, j \in 1 .. Len(q) : q[i] = Dummy /\ q[j] = Dummy => i = j

\* The variables that the message lock is about.
Types ==
  /\ port \in [Unit -> Seq(Packet \cup {Dummy})]
  /\ cmds_sent \in [Unit -> 0 .. Wrap - 1] /\ cmds_acked \in [Unit -> 0 .. Wrap - 1]
  /\ cmds_complete \in [Unit -> 0 .. Wrap - 1]
  /\ exter \in {"wait", "put", "next"} /\ unit_no \in 1 .. Units + 1
  /\ exter = "put" => unit_no - 1 \in Unit

LockInv ==
  \A u \in Unit :
    IF cmds_acked[u] = cmds_complete[u]
      THEN ~Has(port[u]) /\ ~Putting(u)
      ELSE Single(port[u]) /\ (Putting(u) <=> ~Has(port[u]))

IInv == Types /\ LockInv
-----------------------------------------------------------------------------
(* Induction over numbers and over sequences, and what it says of Kept.    *)

LEMMA Least ==
  ASSUME NEW S \in SUBSET Nat, S # {}
  PROVE  \E m \in S : \A n \in S : m <= n
  <1>1. IsWellFoundedOn(OpToRel(<, Nat), Nat)
    BY NatLessThanWellFounded
  <1>2. PICK x \in S : \A y \in S : <<y, x>> \notin OpToRel(<, Nat)
    BY <1>1, WFMin
  <1>3. \A y \in S : ~(y < x)
    BY <1>2 DEF OpToRel
  <1> QED BY <1>3

LEMMA Induction ==
  ASSUME NEW S, 0 \in S, \A n \in Nat : n \in S => n + 1 \in S
  PROVE  Nat \subseteq S
  <1> DEFINE T == Nat \ S
  <1>1. SUFFICES ASSUME T # {} PROVE FALSE
    OBVIOUS
  <1>2. PICK m \in T : \A n \in T : m <= n
    BY <1>1, Least
  <1>3. m # 0 /\ m \in Nat
    BY <1>2
  <1>4. m - 1 \in Nat /\ m - 1 \notin T
    BY <1>2, <1>3
  <1> QED BY <1>2, <1>4

LEMMA SeqInduction ==
  ASSUME NEW A, NEW P, <<>> \in P,
         \A s \in Seq(A), e \in A : s \in P => Append(s, e) \in P
  PROVE  Seq(A) \subseteq P
  <1> DEFINE Good == {n \in Nat : \A s \in Seq(A) : Len(s) = n => s \in P}
  <1>1. 0 \in Good
    BY EmptySeq
  <1>2. ASSUME NEW n \in Nat, n \in Good PROVE n + 1 \in Good
    <2>1. SUFFICES ASSUME NEW s \in Seq(A), Len(s) = n + 1 PROVE s \in P
      OBVIOUS
    <2>2. s # <<>>
      BY <2>1, EmptySeq
    <2>3. PICK t \in Seq(A), e \in A : s = Append(t, e)
      BY <2>2, SequenceEmptyOrAppend
    <2>4. Len(t) = n
      BY <2>1, <2>3, AppendProperties, LenProperties
    <2> QED BY <1>2, <2>3, <2>4
  <1>3. Nat \subseteq Good
    <2> HIDE DEF Good
    <2> QED BY <1>1, <1>2, Induction
  <1> QED BY <1>3, LenProperties

Step(s, S, i, q) == IF s[i] \in S THEN Append(q, s[i]) ELSE q
Keeps(f, s, S) == f = [i \in 0 .. Len(s) |-> IF i = 0 THEN <<>> ELSE Step(s, S, i, f[i - 1])]

\* The recursion that defines Kept has a solution, ...
LEMMA KeptExists ==
  ASSUME NEW A, NEW s \in Seq(A), NEW S
  PROVE  \E f : Keeps(f, s, S)
  <1> DEFINE To(f, n) == f = [i \in 0 .. n |-> IF i = 0 THEN <<>> ELSE Step(s, S, i, f[i - 1])]
             Good == {n \in Nat : \E f : To(f, n)}
  <1>1. 0 \in Good
    <2>1. To([i \in 0 .. 0 |-> <<>>], 0)
      OBVIOUS
    <2> QED BY <2>1
  <1>2. ASSUME NEW n \in Nat, n \in Good PROVE n + 1 \in Good
    <2>1. PICK f : To(f, n)
      BY <1>2
    <2> DEFINE g == [i \in 0 .. n + 1 |-> IF i <= n THEN f[i] ELSE Step(s, S, i, f[n])]
    <2>2. To(g, n + 1)
      <3>1. SUFFICES ASSUME NEW i \in 0 .. n + 1
                     PROVE  g[i] = IF i = 0 THEN <<>> ELSE Step(s, S, i, g[i - 1])
        BY Zenon
      <3>2. CASE i = 0
        BY <2>1, <3>2
      <3>3. CASE i # 0 /\ i <= n
        <4>1. i - 1 \in 0 .. n /\ i \in 0 .. n /\ i - 1 \in 0 .. n + 1 /\ i - 1 <= n
          BY <3>3
        <4>2. g[i] = f[i] /\ g[i - 1] = f[i - 1]
          BY <4>1, <3>3
        <4>3. f[i] = Step(s, S, i, f[i - 1])
          BY <2>1, <3>3, <4>1
        <4> QED BY <4>2, <4>3, <3>3
      <3>4. CASE i = n + 1
        <4>1. g[i] = Step(s, S, i, f[n]) /\ g[i - 1] = f[n] /\ i # 0
          BY <3>4
        <4> QED BY <4>1
      <3> QED BY <3>2, <3>3, <3>4
    <2> HIDE DEF g
    <2>3. \E h : To(h, n + 1)
      BY <2>2
    <2> QED BY <2>3
  <1>3. Nat \subseteq Good
    <2> HIDE DEF Good
    <2> QED BY <1>1, <1>2, Induction
  <1> QED BY <1>3, LenProperties DEF Keeps

LEMMA KeptIs ==
  ASSUME NEW A, NEW s \in Seq(A), NEW S
  PROVE  LET f == CHOOSE f : Keeps(f, s, S) IN Keeps(f, s, S) /\ Kept(s, S) = f[Len(s)]
  <1> DEFINE f == CHOOSE f : Keeps(f, s, S)
  <1>1. Keeps(f, s, S)
    BY KeptExists
  <1>2. Kept(s, S) = f[Len(s)]
    BY DEF Kept, Keeps, Step
  <1> QED BY <1>1, <1>2

LEMMA KeptEmpty == \A S : Kept(<<>>, S) = <<>>
  <1>1. SUFFICES ASSUME NEW S PROVE Kept(<<>>, S) = <<>>
    OBVIOUS
  <1>2. PICK f : Keeps(f, <<>>, S) /\ Kept(<<>>, S) = f[0]
    BY KeptIs, EmptySeq
  <1> QED BY <1>2, EmptySeq DEF Keeps

LEMMA KeptAppend ==
  ASSUME NEW A, NEW s \in Seq(A), NEW e \in A, NEW S
  PROVE  Kept(Append(s, e), S) = IF e \in S THEN Append(Kept(s, S), e) ELSE Kept(s, S)
  <1> DEFINE t == Append(s, e)
             n == Len(s)
  <1>1. /\ t \in Seq(A) /\ Len(t) = n + 1 /\ n \in Nat /\ t[n + 1] = e
        /\ \A i \in 1 .. n : t[i] = s[i]
    BY AppendProperties, LenProperties
  <1>2. PICK f : Keeps(f, s, S) /\ Kept(s, S) = f[n]
    BY KeptIs
  <1>3. PICK g : Keeps(g, t, S) /\ Kept(t, S) = g[n + 1]
    BY <1>1, KeptIs
  <1> HIDE DEF t
  <1> DEFINE Same == {i \in Nat : i <= n => f[i] = g[i]}
  <1>4. 0 \in Same
    BY <1>1, <1>2, <1>3 DEF Keeps
  <1>5. ASSUME NEW i \in Nat, i \in Same PROVE i + 1 \in Same
    <2>1. SUFFICES ASSUME i + 1 <= n PROVE f[i + 1] = g[i + 1]
      OBVIOUS
    <2>2. f[i] = g[i] /\ t[i + 1] = s[i + 1]
      BY <1>1, <1>5, <2>1
    <2>3. i + 1 \in 0 .. n /\ i + 1 \in 0 .. Len(t) /\ i + 1 # 0 /\ (i + 1) - 1 = i
      BY <1>1, <2>1
    <2>4. f[i + 1] = Step(s, S, i + 1, f[i])
      BY <1>2, <2>3 DEF Keeps
    <2>5. g[i + 1] = Step(t, S, i + 1, g[i])
      BY <1>3, <2>3 DEF Keeps
    <2> QED BY <2>2, <2>4, <2>5 DEF Step
  <1>6. f[n] = g[n]
    <2>1. Nat \subseteq Same
      <3> HIDE DEF Same
      <3> QED BY <1>4, <1>5, Induction
    <2> QED BY <1>1, <2>1
  <1>7. g[n + 1] = Step(t, S, n + 1, g[n])
    <2>1. n + 1 \in 0 .. Len(t) /\ n + 1 # 0 /\ (n + 1) - 1 = n
      BY <1>1
    <2> QED BY <1>3, <2>1 DEF Keeps
  <1>8. Kept(t, S) = IF e \in S THEN Append(Kept(s, S), e) ELSE Kept(s, S)
    BY <1>1, <1>2, <1>3, <1>6, <1>7 DEF Step
  <1> QED BY <1>8 DEF t

LEMMA KeptType ==
  ASSUME NEW A, NEW s \in Seq(A), NEW S
  PROVE  Kept(s, S) \in Seq(A) /\ Len(Kept(s, S)) <= Len(s)
  <1> DEFINE P == {t \in Seq(A) : Kept(t, S) \in Seq(A) /\ Len(Kept(t, S)) <= Len(t)}
  <1>1. <<>> \in P
    <2>1. Kept(<<>>, S) = <<>> /\ <<>> \in Seq(A) /\ Len(<<>>) <= Len(<<>>)
      BY KeptEmpty, EmptySeq
    <2>2. Kept(<<>>, S) \in Seq(A) /\ Len(Kept(<<>>, S)) <= Len(<<>>)
      BY ONLY <2>1
    <2> QED BY <2>1, <2>2, Zenon
  <1>2. ASSUME NEW t \in Seq(A), NEW e \in A, t \in P PROVE Append(t, e) \in P
    <2>1. /\ Append(t, e) \in Seq(A) /\ Len(Append(t, e)) = Len(t) + 1
          /\ Append(Kept(t, S), e) \in Seq(A)
          /\ Len(Append(Kept(t, S), e)) = Len(Kept(t, S)) + 1
          /\ Len(t) \in Nat /\ Len(Kept(t, S)) \in Nat
      BY <1>2, AppendProperties, LenProperties
    <2>2. Kept(Append(t, e), S) = IF e \in S THEN Append(Kept(t, S), e) ELSE Kept(t, S)
      BY KeptAppend
    <2>3. Kept(t, S) \in Seq(A) /\ Len(Kept(t, S)) <= Len(t)
      BY <1>2
    <2>4. /\ Kept(Append(t, e), S) \in Seq(A)
          /\ Len(Kept(Append(t, e), S)) <= Len(Append(t, e))
      <3> HIDE DEF P
      <3>1. CASE e \in S
        BY <2>1, <2>2, <2>3, <3>1
      <3>2. CASE e \notin S
        BY <2>1, <2>2, <2>3, <3>2
      <3> QED BY <3>1, <3>2
    <2> QED BY <2>1, <2>4, Zenon
  <1> HIDE DEF P
  <1>3. Seq(A) \subseteq P
    BY <1>1, <1>2, SeqInduction
  <1> QED BY <1>3 DEF P

\* ... and how it goes on at the other end.
LEMMA KeptTail ==
  ASSUME NEW A, NEW s \in Seq(A), s # <<>>, NEW S
  PROVE  IF Head(s) \in S
           THEN /\ Kept(s, S) # <<>> /\ Head(Kept(s, S)) = Head(s)
                /\ Tail(Kept(s, S)) = Kept(Tail(s), S)
           ELSE Kept(s, S) = Kept(Tail(s), S)
  <1> DEFINE Good(t) == IF Head(t) \in S
                          THEN /\ Kept(t, S) # <<>> /\ Head(Kept(t, S)) = Head(t)
                               /\ Tail(Kept(t, S)) = Kept(Tail(t), S)
                          ELSE Kept(t, S) = Kept(Tail(t), S)
             P == {t \in Seq(A) : t # <<>> => Good(t)}
  <1>1. <<>> \in P
    <2> HIDE DEF Good
    <2> QED BY EmptySeq
  <1>2. ASSUME NEW t \in Seq(A), NEW e \in A, t \in P PROVE Append(t, e) \in P
    <2>1. Append(t, e) \in Seq(A) /\ Kept(t, S) \in Seq(A)
      BY AppendProperties, KeptType
    <2>2. Kept(Append(t, e), S) = IF e \in S THEN Append(Kept(t, S), e) ELSE Kept(t, S)
      BY KeptAppend
    <2>3. CASE t = <<>>
      <3>1. Head(Append(t, e)) = e /\ Tail(Append(t, e)) = <<>>
        BY <2>3
      <3>2. Kept(t, S) = <<>> /\ Kept(Tail(Append(t, e)), S) = <<>>
        BY <2>3, <3>1, KeptEmpty
      <3>3. /\ Append(<<>>, e) # <<>> /\ Head(Append(<<>>, e)) = e
            /\ Tail(Append(<<>>, e)) = <<>>
        OBVIOUS
      <3>4. Good(Append(t, e))
        BY <2>2, <3>1, <3>2, <3>3, Zenon
      <3> HIDE DEF Good
      <3> QED BY <2>1, <3>4
    <2>4. CASE t # <<>>
      <3>1. /\ Head(Append(t, e)) = Head(t) /\ Tail(Append(t, e)) = Append(Tail(t), e)
            /\ Tail(t) \in Seq(A)
        BY <2>4, HeadTailAppend
      <3>2. Kept(Tail(Append(t, e)), S)
              = IF e \in S THEN Append(Kept(Tail(t), S), e) ELSE Kept(Tail(t), S)
        BY <3>1, KeptAppend
      <3>3. Kept(t, S) # <<>> => /\ Append(Kept(t, S), e) # <<>>
                                 /\ Head(Append(Kept(t, S), e)) = Head(Kept(t, S))
                                 /\ Tail(Append(Kept(t, S), e)) = Append(Tail(Kept(t, S)), e)
        BY <2>1, HeadTailAppend, AppendProperties, EmptySeq
      <3>4. Good(t)
        BY <1>2, <2>4
      <3> QED BY <2>1, <2>2, <3>1, <3>2, <3>3, <3>4
    <2> QED BY <2>3, <2>4
  <1> HIDE DEF P
  <1>3. Seq(A) \subseteq P
    BY <1>1, <1>2, SeqInduction
  <1> QED BY <1>3 DEF P
-----------------------------------------------------------------------------
(* What is in a sequence, and in the part of it that is kept.              *)

LEMMA AppendSet ==
  ASSUME NEW A, NEW s \in Seq(A), NEW e \in A
  PROVE  /\ ToSet(Append(s, e)) = ToSet(s) \cup {e}
         /\ IsInjective(Append(s, e)) <=> IsInjective(s) /\ e \notin ToSet(s)
  <1> DEFINE t == Append(s, e)
             n == Len(s)
  <1>1. /\ t \in Seq(A) /\ Len(t) = n + 1 /\ n \in Nat /\ t[n + 1] = e
        /\ \A i \in 1 .. n : t[i] = s[i]
    BY AppendProperties, LenProperties
  <1>2. DOMAIN t = 1 .. n + 1 /\ DOMAIN s = 1 .. n
    BY <1>1, LenProperties
  <1>3. 1 .. n + 1 = (1 .. n) \cup {n + 1} /\ n + 1 \notin 1 .. n
    BY <1>1
  <1> HIDE DEF t, n
  <1>4. ToSet(t) = ToSet(s) \cup {e}
    BY <1>1, <1>2, <1>3 DEF ToSet
  <1>5. ASSUME IsInjective(t) PROVE IsInjective(s) /\ e \notin ToSet(s)
    BY <1>1, <1>2, <1>3, <1>5 DEF IsInjective, ToSet
  <1>6. ASSUME IsInjective(s), e \notin ToSet(s) PROVE IsInjective(t)
    BY <1>1, <1>2, <1>3, <1>6 DEF IsInjective, ToSet
  <1> QED BY <1>4, <1>5, <1>6 DEF t

LEMMA PrependSet ==
  ASSUME NEW A, NEW s \in Seq(A), NEW e \in A
  PROVE  /\ <<e>> \o s \in Seq(A) /\ <<e>> \o s # <<>>
         /\ Head(<<e>> \o s) = e /\ Tail(<<e>> \o s) = s
         /\ Len(<<e>> \o s) = Len(s) + 1
         /\ ToSet(<<e>> \o s) = ToSet(s) \cup {e}
         /\ IsInjective(s) /\ e \notin ToSet(s) => IsInjective(<<e>> \o s)
  <1> DEFINE t == <<e>> \o s
             n == Len(s)
  <1>1. <<e>> \in Seq(A) /\ Len(<<e>>) = 1 /\ <<e>>[1] = e
    OBVIOUS
  <1>2. /\ t \in Seq(A) /\ Len(t) = n + 1 /\ n \in Nat /\ t[1] = e
        /\ \A i \in 1 .. n + 1 : t[i] = IF i = 1 THEN e ELSE s[i - 1]
    BY <1>1, ConcatProperties, LenProperties
  <1>3. DOMAIN t = 1 .. n + 1 /\ DOMAIN s = 1 .. n
    BY <1>2, LenProperties
  <1> HIDE DEF t
  <1>4. t # <<>>
    BY <1>2, EmptySeq
  <1>5. Head(t) = e /\ Tail(t) = s
    <2>1. /\ Head(t) = t[1] /\ Tail(t) \in Seq(A) /\ Len(Tail(t)) = Len(t) - 1
          /\ \A i \in 1 .. Len(Tail(t)) : Tail(t)[i] = t[i + 1]
      BY <1>2, <1>4, HeadTailProperties
    <2>2. Len(Tail(t)) = Len(s) /\ \A i \in 1 .. Len(s) : Tail(t)[i] = s[i]
      BY <1>2, <2>1
    <2> QED BY <1>2, <2>1, <2>2, SeqEqual
  <1> HIDE DEF n
  <1>6. ToSet(t) = ToSet(s) \cup {e}
    <2>1. ASSUME NEW x \in ToSet(t) PROVE x \in ToSet(s) \cup {e}
      <3>1. PICK i \in 1 .. n + 1 : x = t[i]
        BY <1>3, <2>1 DEF ToSet
      <3>2. i # 1 => i - 1 \in 1 .. n
        BY <1>2, <3>1
      <3> QED BY <1>2, <1>3, <3>1, <3>2 DEF ToSet
    <2>2. ASSUME NEW x \in ToSet(s) PROVE x \in ToSet(t)
      <3>1. PICK i \in 1 .. n : x = s[i]
        BY <1>3, <2>2 DEF ToSet
      <3>2. i + 1 \in 1 .. n + 1 /\ i + 1 # 1 /\ (i + 1) - 1 = i
        BY <1>2, <3>1
      <3>3. t[i + 1] = x
        BY <1>2, <3>1, <3>2
      <3> QED BY <1>3, <3>2, <3>3 DEF ToSet
    <2>3. e \in ToSet(t)
      <3>1. 1 \in 1 .. n + 1
        BY <1>2
      <3> QED BY <1>2, <1>3, <3>1 DEF ToSet
    <2> QED BY <2>1, <2>2, <2>3
  <1>7. ASSUME IsInjective(s), e \notin ToSet(s) PROVE IsInjective(t)
    <2>1. \A i \in 1 .. n + 1 : i # 1 => i - 1 \in 1 .. n
      BY <1>2
    <2>2. \A i \in 1 .. n + 1 : i # 1 => t[i] # e
      BY <1>2, <1>3, <1>7, <2>1 DEF ToSet
    <2>3. ASSUME NEW i \in 1 .. n + 1, NEW j \in 1 .. n + 1, i # 1, j # 1, t[i] = t[j]
          PROVE  i - 1 = j - 1
      <3>1. i - 1 \in 1 .. n /\ j - 1 \in 1 .. n
        BY <2>1, <2>3
      <3>2. s[i - 1] = s[j - 1]
        BY <1>2, <2>3
      <3> QED BY <1>3, <1>7, <3>1, <3>2 DEF IsInjective
    <2>4. \A i, j \in 1 .. n + 1 : t[i] = t[j] => i = j
      BY <1>2, <2>2, <2>3
    <2> QED BY <1>3, <2>4 DEF IsInjective
  <1> QED BY <1>2, <1>4, <1>5, <1>6, <1>7 DEF t, n

LEMMA KeptSet ==
  ASSUME NEW A, NEW s \in Seq(A), NEW S
  PROVE  ToSet(Kept(s, S)) = ToSet(s) \cap S
  <1> DEFINE P == {t \in Seq(A) : ToSet(Kept(t, S)) = ToSet(t) \cap S}
  <1>1. <<>> \in P
    <2>1. Kept(<<>>, S) = <<>> /\ ToSet(<<>>) = {} /\ <<>> \in Seq(A)
      BY KeptEmpty, EmptySeq DEF ToSet
    <2> QED BY <2>1
  <1>2. ASSUME NEW t \in Seq(A), NEW e \in A, t \in P PROVE Append(t, e) \in P
    <2>1. Append(t, e) \in Seq(A) /\ Kept(t, S) \in Seq(A)
      BY AppendProperties, KeptType
    <2>2. Kept(Append(t, e), S) = IF e \in S THEN Append(Kept(t, S), e) ELSE Kept(t, S)
      BY KeptAppend
    <2>3. /\ ToSet(Append(t, e)) = ToSet(t) \cup {e}
          /\ ToSet(Append(Kept(t, S), e)) = ToSet(Kept(t, S)) \cup {e}
      BY <2>1, AppendSet
    <2>4. ToSet(Kept(t, S)) = ToSet(t) \cap S
      BY <1>2
    <2>5. ToSet(Kept(Append(t, e), S)) = ToSet(Append(t, e)) \cap S
      <3>1. CASE e \in S
        BY <2>2, <2>3, <2>4, <3>1
      <3>2. CASE e \notin S
        BY <2>2, <2>3, <2>4, <3>2
      <3> QED BY <3>1, <3>2
    <2> QED BY <2>1, <2>5, Zenon
  <1> HIDE DEF P
  <1>3. Seq(A) \subseteq P
    BY <1>1, <1>2, SeqInduction
  <1> QED BY <1>3 DEF P

LEMMA KeptInjective ==
  ASSUME NEW A, NEW s \in Seq(A), NEW S, IsInjective(s)
  PROVE  IsInjective(Kept(s, S))
  <1> DEFINE P == {t \in Seq(A) : IsInjective(t) => IsInjective(Kept(t, S))}
  <1>1. <<>> \in P
    <2>1. Kept(<<>>, S) = <<>> /\ <<>> \in Seq(A)
      BY KeptEmpty, EmptySeq
    <2> QED BY <2>1
  <1>2. ASSUME NEW t \in Seq(A), NEW e \in A, t \in P PROVE Append(t, e) \in P
    <2>1. Append(t, e) \in Seq(A) /\ Kept(t, S) \in Seq(A)
      BY AppendProperties, KeptType
    <2>2. Kept(Append(t, e), S) = IF e \in S THEN Append(Kept(t, S), e) ELSE Kept(t, S)
      BY KeptAppend
    <2>3. ToSet(Kept(t, S)) = ToSet(t) \cap S
      BY KeptSet
    <2>4. IsInjective(t) => IsInjective(Kept(t, S))
      BY <1>2
    <2>5. ASSUME IsInjective(Append(t, e)) PROVE IsInjective(Kept(Append(t, e), S))
      <3>1. IsInjective(t) /\ e \notin ToSet(t)
        BY <2>5, AppendSet
      <3>2. IsInjective(Append(Kept(t, S), e))
        BY <2>1, <2>3, <2>4, <3>1, AppendSet
      <3>3. CASE e \in S
        BY <2>2, <3>2, <3>3
      <3>4. CASE e \notin S
        BY <2>2, <2>4, <3>1, <3>4
      <3> QED BY <3>3, <3>4
    <2> QED BY <2>1, <2>5, Zenon
  <1> HIDE DEF P
  <1>3. Seq(A) \subseteq P
    BY <1>1, <1>2, SeqInduction
  <1> QED BY <1>3 DEF P

LEMMA KeptTwice ==
  ASSUME NEW A, NEW s \in Seq(A), NEW S, NEW T
  PROVE  Kept(Kept(s, S), T) = Kept(s, S \cap T)
  <1> DEFINE P == {t \in Seq(A) : Kept(Kept(t, S), T) = Kept(t, S \cap T)}
  <1>1. <<>> \in P
    <2>1. Kept(<<>>, S) = <<>> /\ Kept(<<>>, S \cap T) = <<>> /\ Kept(<<>>, T) = <<>>
      BY KeptEmpty
    <2>2. <<>> \in Seq(A)
      BY EmptySeq
    <2> QED BY <2>1, <2>2
  <1>2. ASSUME NEW t \in Seq(A), NEW e \in A, t \in P PROVE Append(t, e) \in P
    <2>1. Append(t, e) \in Seq(A) /\ Kept(t, S) \in Seq(A)
      BY AppendProperties, KeptType
    <2>2. /\ Kept(Append(t, e), S) = IF e \in S THEN Append(Kept(t, S), e) ELSE Kept(t, S)
          /\ Kept(Append(t, e), S \cap T)
               = IF e \in S \cap T THEN Append(Kept(t, S \cap T), e) ELSE Kept(t, S \cap T)
          /\ Kept(Append(Kept(t, S), e), T)
               = IF e \in T THEN Append(Kept(Kept(t, S), T), e) ELSE Kept(Kept(t, S), T)
      BY <2>1, KeptAppend
    <2>3. Kept(Kept(t, S), T) = Kept(t, S \cap T)
      BY <1>2
    <2>4. Kept(Kept(Append(t, e), S), T) = Kept(Append(t, e), S \cap T)
      <3> HIDE DEF P
      <3>1. CASE e \in S /\ e \in T
        BY <2>2, <2>3, <3>1
      <3>2. CASE e \in S /\ e \notin T
        BY <2>2, <2>3, <3>2
      <3>3. CASE e \notin S
        BY <2>2, <2>3, <3>3
      <3> QED BY <3>1, <3>2, <3>3
    <2> QED BY <2>1, <2>4, Zenon
  <1> HIDE DEF P
  <1>3. Seq(A) \subseteq P
    BY <1>1, <1>2, SeqInduction
  <1> QED BY <1>3 DEF P

LEMMA KeptAll ==
  ASSUME NEW A, NEW s \in Seq(A), NEW S, ToSet(s) \subseteq S
  PROVE  Kept(s, S) = s
  <1> DEFINE P == {t \in Seq(A) : ToSet(t) \subseteq S => Kept(t, S) = t}
  <1>1. <<>> \in P
    <2>1. Kept(<<>>, S) = <<>> /\ <<>> \in Seq(A)
      BY KeptEmpty, EmptySeq
    <2> QED BY <2>1
  <1>2. ASSUME NEW t \in Seq(A), NEW e \in A, t \in P PROVE Append(t, e) \in P
    <2>1. Append(t, e) \in Seq(A) /\ ToSet(Append(t, e)) = ToSet(t) \cup {e}
      BY AppendProperties, AppendSet
    <2>2. Kept(Append(t, e), S) = IF e \in S THEN Append(Kept(t, S), e) ELSE Kept(t, S)
      BY KeptAppend
    <2>3. ToSet(t) \subseteq S => Kept(t, S) = t
      BY <1>2
    <2>4. ToSet(Append(t, e)) \subseteq S => Kept(Append(t, e), S) = Append(t, e)
      BY <2>1, <2>2, <2>3
    <2> QED BY <2>1, <2>4, Zenon
  <1> HIDE DEF P
  <1>3. Seq(A) \subseteq P
    BY <1>1, <1>2, SeqInduction
  <1> QED BY <1>3 DEF P

\* Only what is in the sequence counts.
LEMMA KeptSame ==
  ASSUME NEW A, NEW s \in Seq(A), NEW S, NEW T, ToSet(s) \cap S = ToSet(s) \cap T
  PROVE  Kept(s, S) = Kept(s, T)
  <1>1. Kept(s, ToSet(s)) = s
    BY KeptAll
  <1>2. /\ Kept(Kept(s, ToSet(s)), S) = Kept(s, ToSet(s) \cap S)
        /\ Kept(Kept(s, ToSet(s)), T) = Kept(s, ToSet(s) \cap T)
    BY KeptTwice
  <1> QED BY <1>1, <1>2

LEMMA ReverseLen ==
  ASSUME NEW A, NEW s \in Seq(A)
  PROVE  /\ Reverse(s) \in Seq(A) /\ Len(Reverse(s)) = Len(s) /\ Len(s) \in Nat
         /\ \A i \in 1 .. Len(s) : Reverse(s)[i] = s[(Len(s) - i) + 1]
  <1> DEFINE n == Len(s)
  <1>1. /\ n \in Nat /\ \A i \in 1 .. n : s[i] \in A
        /\ \A i \in 1 .. n : (n - i) + 1 \in 1 .. n
    BY ElementOfSeq, LenProperties
  <1>2. Reverse(s) = [i \in 1 .. n |-> s[(n - i) + 1]]
    BY DEF Reverse
  <1> HIDE DEF n
  <1>3. [i \in 1 .. n |-> s[(n - i) + 1]] \in [1 .. n -> A]
    BY <1>1
  <1>4. /\ Reverse(s) \in Seq(A) /\ Len(Reverse(s)) = n
        /\ \A i \in 1 .. n : Reverse(s)[i] = s[(n - i) + 1]
    BY <1>1, <1>2, <1>3, SeqDef, LenProperties
  <1> QED BY <1>1, <1>4 DEF n

LEMMA ReverseAppend ==
  ASSUME NEW A, NEW s \in Seq(A), NEW e \in A
  PROVE  /\ Reverse(Append(s, e)) = <<e>> \o Reverse(s)
         /\ Reverse(<<e>> \o s) = Append(Reverse(s), e)
  <1> DEFINE n == Len(s)
  <1>1. n \in Nat
    BY LenProperties
  <1>2. /\ Reverse(s) \in Seq(A) /\ Len(Reverse(s)) = n
        /\ \A i \in 1 .. n : Reverse(s)[i] = s[(n - i) + 1]
    BY ReverseLen
  <1>3. ASSUME NEW t \in Seq(A), Len(t) = n + 1
        PROVE  /\ Reverse(t) \in Seq(A) /\ Len(Reverse(t)) = n + 1
               /\ \A i \in 1 .. n + 1 : Reverse(t)[i] = t[(n + 1 - i) + 1]
    BY <1>3, ReverseLen
  <1>4. <<e>> \in Seq(A) /\ Len(<<e>>) = 1 /\ <<e>>[1] = e
    OBVIOUS
  <1>5. Reverse(Append(s, e)) = <<e>> \o Reverse(s)
    <2> DEFINE t == Append(s, e)
               r == <<e>> \o Reverse(s)
    <2>1. /\ t \in Seq(A) /\ Len(t) = n + 1 /\ t[n + 1] = e /\ \A i \in 1 .. n : t[i] = s[i]
      BY AppendProperties, LenProperties
    <2>2. /\ r \in Seq(A) /\ Len(r) = n + 1
          /\ \A i \in 1 .. n + 1 : r[i] = IF i = 1 THEN e ELSE Reverse(s)[i - 1]
      BY <1>1, <1>2, <1>4, ConcatProperties
    <2> HIDE DEF t, r, n
    <2>3. ASSUME NEW i \in 1 .. n + 1 PROVE Reverse(t)[i] = r[i]
      <3>1. CASE i = 1
        <4>1. (n + 1 - i) + 1 = n + 1
          BY <1>1, <3>1
        <4> QED BY <1>3, <2>1, <2>2, <3>1, <4>1
      <3>2. CASE i # 1
        <4>1. /\ (n + 1 - i) + 1 \in 1 .. n /\ i - 1 \in 1 .. n
              /\ (n + 1 - i) + 1 = (n - (i - 1)) + 1
          BY <1>1, <3>2
        <4>2. Reverse(t)[i] = t[(n + 1 - i) + 1] /\ r[i] = Reverse(s)[i - 1]
          BY <1>3, <2>1, <2>2, <3>2
        <4>3. t[(n + 1 - i) + 1] = s[(n + 1 - i) + 1]
          BY <2>1, <4>1
        <4>4. Reverse(s)[i - 1] = s[(n - (i - 1)) + 1]
          BY <1>2, <4>1
        <4> QED BY <4>1, <4>2, <4>3, <4>4, Zenon
      <3> QED BY <3>1, <3>2
    <2>4. Reverse(t) \in Seq(A) /\ Len(Reverse(t)) = n + 1
      BY <1>3, <2>1
    <2>5. Reverse(t) = r
      BY <2>2, <2>3, <2>4, SeqEqual
    <2> QED BY <2>5 DEF t, r
  <1>6. Reverse(<<e>> \o s) = Append(Reverse(s), e)
    <2> DEFINE t == <<e>> \o s
               r == Append(Reverse(s), e)
    <2>1. /\ t \in Seq(A) /\ Len(t) = n + 1
          /\ \A i \in 1 .. n + 1 : t[i] = IF i = 1 THEN e ELSE s[i - 1]
      BY <1>1, <1>4, ConcatProperties
    <2>2. /\ r \in Seq(A) /\ Len(r) = n + 1 /\ r[n + 1] = e
          /\ \A i \in 1 .. n : r[i] = Reverse(s)[i]
      BY <1>1, <1>2, AppendProperties
    <2> HIDE DEF t, r, n
    <2>3. ASSUME NEW i \in 1 .. n + 1 PROVE Reverse(t)[i] = r[i]
      <3>1. CASE i = n + 1
        <4>1. (n + 1 - i) + 1 = 1
          BY <1>1, <3>1
        <4> QED BY <1>3, <2>1, <2>2, <3>1, <4>1
      <3>2. CASE i # n + 1
        <4>1. /\ i \in 1 .. n /\ (n + 1 - i) + 1 \in 1 .. n + 1 /\ (n + 1 - i) + 1 # 1
              /\ ((n + 1 - i) + 1) - 1 = (n - i) + 1
          BY <1>1, <3>2
        <4>2. Reverse(t)[i] = t[(n + 1 - i) + 1] /\ r[i] = Reverse(s)[i]
          BY <1>3, <2>1, <2>2, <4>1
        <4>3. t[(n + 1 - i) + 1] = s[((n + 1 - i) + 1) - 1]
          BY <2>1, <4>1
        <4>4. Reverse(s)[i] = s[(n - i) + 1]
          BY <1>2, <4>1
        <4> QED BY <4>1, <4>2, <4>3, <4>4, Zenon
      <3> QED BY <3>1, <3>2
    <2>4. Reverse(t) \in Seq(A) /\ Len(Reverse(t)) = n + 1
      BY <1>3, <2>1
    <2>5. Reverse(t) = r
      BY <2>2, <2>3, <2>4, SeqEqual
    <2> QED BY <2>5 DEF t, r
  <1> QED BY <1>5, <1>6

\* The last of what is kept, which is the first of its reverse, is kept no longer.
LEMMA KeptButLast ==
  ASSUME NEW A, NEW s \in Seq(A), NEW S, NEW w \in A, NEW rest \in Seq(A)
  PROVE  IsInjective(s) /\ Reverse(Kept(s, S)) = <<w>> \o rest
           => w \in ToSet(s) \cap S /\ Reverse(Kept(s, S \ {w})) = rest
  <1> SUFFICES ASSUME IsInjective(s), Reverse(Kept(s, S)) = <<w>> \o rest
               PROVE  w \in ToSet(s) \cap S /\ Reverse(Kept(s, S \ {w})) = rest
    OBVIOUS
  <1> DEFINE k == Kept(s, S)
  <1>1. /\ k \in Seq(A) /\ IsInjective(k) /\ ToSet(k) = ToSet(s) \cap S
        /\ Len(Reverse(k)) = Len(k) /\ Len(Reverse(k)) = Len(rest) + 1 /\ Len(rest) \in Nat
    BY KeptType, KeptInjective, KeptSet, ReverseLen, PrependSet, LenProperties
  <1>2. PICK q \in Seq(A), e \in A : k = Append(q, e)
    <2> HIDE DEF k
    <2>1. Len(k) # 0
      BY <1>1
    <2>2. k # <<>>
      BY <2>1, EmptySeq
    <2> QED BY <1>1, <2>2, SequenceEmptyOrAppend
  <1>3. Reverse(k) = <<e>> \o Reverse(q) /\ Reverse(q) \in Seq(A)
    BY <1>2, ReverseAppend, ReverseLen
  <1>4. e = w /\ Reverse(q) = rest
    <2>1. /\ Head(<<e>> \o Reverse(q)) = e /\ Tail(<<e>> \o Reverse(q)) = Reverse(q)
          /\ Head(<<w>> \o rest) = w /\ Tail(<<w>> \o rest) = rest
      BY <1>3, PrependSet
    <2>2. <<e>> \o Reverse(q) = <<w>> \o rest
      BY <1>3
    <2> QED BY <2>1, <2>2
  <1>5. w \notin ToSet(q) /\ ToSet(k) = ToSet(q) \cup {w}
    BY <1>1, <1>2, <1>4, AppendSet
  <1>6. Kept(k, S \ {w}) = Kept(q, S \ {w})
    BY <1>2, <1>4, KeptAppend
  <1>7. Kept(q, S \ {w}) = q
    <2>1. ToSet(q) \subseteq S \ {w}
      BY <1>1, <1>5
    <2> QED BY <2>1, KeptAll
  <1>8. Kept(k, S \ {w}) = Kept(s, S \ {w})
    <2>1. S \cap (S \ {w}) = S \ {w}
      OBVIOUS
    <2> QED BY <2>1, KeptTwice
  <1> QED BY <1>1, <1>4, <1>5, <1>6, <1>7, <1>8

LEMMA SetSize ==
  ASSUME NEW A, NEW s \in Seq(A)
  PROVE  /\ ToSet(s) \subseteq A /\ IsFiniteSet(ToSet(s))
         /\ IsInjective(s) => Cardinality(ToSet(s)) = Len(s)
  <1> DEFINE Sized(t) == /\ ToSet(t) \subseteq A /\ IsFiniteSet(ToSet(t))
                         /\ IsInjective(t) => Cardinality(ToSet(t)) = Len(t)
             P == {t \in Seq(A) : Sized(t)}
  <1>1. <<>> \in P
    <2>1. <<>> \in Seq(A) /\ ToSet(<<>>) = {} /\ Len(<<>>) = 0
      BY EmptySeq DEF ToSet
    <2>2. Sized(<<>>)
      BY <2>1, FS_EmptySet
    <2> HIDE DEF Sized
    <2> QED BY <2>1, <2>2
  <1>2. ASSUME NEW t \in Seq(A), NEW e \in A, t \in P PROVE Append(t, e) \in P
    <2>1. /\ Append(t, e) \in Seq(A) /\ ToSet(Append(t, e)) = ToSet(t) \cup {e}
          /\ IsInjective(Append(t, e)) <=> IsInjective(t) /\ e \notin ToSet(t)
          /\ Len(Append(t, e)) = Len(t) + 1
      BY AppendProperties, AppendSet
    <2>2. Sized(t)
      BY <1>2
    <2>3. /\ IsFiniteSet(ToSet(t) \cup {e})
          /\ e \notin ToSet(t) => Cardinality(ToSet(t) \cup {e}) = Cardinality(ToSet(t)) + 1
      BY <2>2, FS_AddElement
    <2> HIDE DEF P
    <2>4. Sized(Append(t, e))
      BY <2>1, <2>2, <2>3
    <2> HIDE DEF Sized
    <2> QED BY <2>1, <2>4 DEF P
  <1> HIDE DEF P
  <1>3. Seq(A) \subseteq P
    BY <1>1, <1>2, SeqInduction
  <1> QED BY <1>3 DEF P

LEMMA HeadTailIs ==
  ASSUME NEW A, NEW s \in Seq(A), s # <<>>
  PROVE  s = <<Head(s)>> \o Tail(s) /\ Head(s) \in A /\ Tail(s) \in Seq(A)
  <1> DEFINE t == <<Head(s)>> \o Tail(s)
  <1>1. /\ Head(s) = s[1] /\ Tail(s) \in Seq(A) /\ Len(Tail(s)) = Len(s) - 1
        /\ \A i \in 1 .. Len(Tail(s)) : Tail(s)[i] = s[i + 1]
        /\ Len(s) \in Nat \ {0} /\ s[1] \in A
    BY HeadTailProperties, LenProperties, EmptySeq, ElementOfSeq
  <1>2. <<Head(s)>> \in Seq(A) /\ Len(<<Head(s)>>) = 1 /\ <<Head(s)>>[1] = Head(s)
    BY <1>1
  <1>3. /\ t \in Seq(A) /\ Len(t) = Len(s)
        /\ \A i \in 1 .. Len(s) : t[i] = IF i = 1 THEN Head(s) ELSE Tail(s)[i - 1]
    BY <1>1, <1>2, ConcatProperties
  <1> HIDE DEF t
  <1>4. \A i \in 1 .. Len(s) : t[i] = s[i]
    BY <1>1, <1>3
  <1>5. t = s
    BY <1>3, <1>4, SeqEqual
  <1> QED BY <1>1, <1>5 DEF t

\* A sequence may grow at both ends in either order.
LEMMA BothEnds ==
  ASSUME NEW A, NEW s \in Seq(A), NEW d \in A, NEW e \in A
  PROVE  Append(<<d>> \o s, e) = <<d>> \o Append(s, e)
  <1>1. <<d>> \in Seq(A) /\ <<e>> \in Seq(A) /\ <<d>> \o s \in Seq(A)
    BY PrependSet
  <1>2. Append(<<d>> \o s, e) = (<<d>> \o s) \o <<e>> /\ Append(s, e) = s \o <<e>>
    BY <1>1, AppendIsConcat
  <1>3. (<<d>> \o s) \o <<e>> = <<d>> \o (s \o <<e>>)
    BY <1>1, ConcatAssociative
  <1> QED BY <1>2, <1>3
-----------------------------------------------------------------------------
LEMMA Apart ==
  ASSUME NEW a, NEW b, NEW c, a \in Packet
  PROVE  Cardinality({a, b, c} \ Packet) # 3
  <1>1. {a, b, c} \ Packet \subseteq {b} \cup {c}
    OBVIOUS
  <1>2. /\ IsFiniteSet({b}) /\ IsFiniteSet({c})
        /\ Cardinality({b}) = 1 /\ Cardinality({c}) = 1
    BY FS_Singleton
  <1>3. /\ IsFiniteSet({b} \cup {c})
        /\ Cardinality({b} \cup {c})
             = Cardinality({b}) + Cardinality({c}) - Cardinality({b} \cap {c})
    BY <1>2, FS_Union
  <1>4. Cardinality({b} \cap {c}) \in Nat
    BY <1>2, FS_Subset, FS_CardinalityType
  <1>5. Cardinality({b} \cup {c}) <= 2
    BY <1>2, <1>3, <1>4
  <1>6. /\ Cardinality({a, b, c} \ Packet) <= Cardinality({b} \cup {c})
        /\ Cardinality({b} \cup {c}) \in Nat
        /\ Cardinality({a, b, c} \ Packet) \in Nat
    BY <1>1, <1>3, FS_Subset, FS_CardinalityType
  <1> QED BY <1>5, <1>6

LEMMA Names == /\ Units \in Nat \ {0} /\ Wrap \in Nat \ {0} /\ Limit \in Nat \ {0}
               /\ Resets \in Nat
               /\ Dummy \notin Packet /\ Death \notin Packet /\ None \notin Packet
               /\ 1 \in Unit /\ 0 \in 0 .. Wrap - 1
  <1>1. /\ Units \in Nat \ {0} /\ Limit \in Nat \ {0} /\ Resets \in Nat
        /\ Wrap \in Nat /\ Wrap > 2 * Limit
    BY PacketsAssumption
  <1>2. Cardinality({Dummy, Death, None} \ Packet) = 3
    BY PacketsAssumption
  <1>3. /\ {Dummy, Death, None} = {Death, Dummy, None}
        /\ {Dummy, Death, None} = {None, Dummy, Death}
    OBVIOUS
  <1>4. Dummy \notin Packet /\ Death \notin Packet /\ None \notin Packet
    BY <1>2, <1>3, Apart
  <1> QED BY <1>1, <1>4 DEF Unit

LEMMA IncIs == ASSUME NEW n \in 0 .. Wrap - 1 PROVE Inc(n) \in 0 .. Wrap - 1
  <1>1. Wrap \in Nat \ {0} /\ n + 1 \in Nat
    BY Names
  <1>2. (n + 1) % Wrap \in 0 .. Wrap - 1
    BY <1>1
  <1> QED BY <1>2 DEF Inc

\* A message put into a port, and one taken from it.
LEMMA Puts ==
  ASSUME NEW q \in Seq(Packet \cup {Dummy}), NEW m \in Packet \cup {Dummy}
  PROVE  /\ Append(q, m) \in Seq(Packet \cup {Dummy})
         /\ m # Dummy => (Has(Append(q, m)) <=> Has(q)) /\ (Single(Append(q, m)) <=> Single(q))
         /\ m = Dummy => Has(Append(q, m)) /\ (~Has(q) => Single(Append(q, m)))
  <1>1. /\ Append(q, m) \in Seq(Packet \cup {Dummy})
        /\ Len(Append(q, m)) = Len(q) + 1 /\ Len(q) \in Nat
        /\ Append(q, m)[Len(q) + 1] = m
        /\ \A i \in 1 .. Len(q) : Append(q, m)[i] = q[i]
    BY AppendProperties, LenProperties
  <1> HIDE DEF Append
  <1>2. ASSUME m # Dummy
        PROVE  (Has(Append(q, m)) <=> Has(q)) /\ (Single(Append(q, m)) <=> Single(q))
    BY <1>1, <1>2 DEF Has, Single
  <1>3. ASSUME m = Dummy
        PROVE  Has(Append(q, m)) /\ (~Has(q) => Single(Append(q, m)))
    BY <1>1, <1>3 DEF Has, Single
  <1> QED BY <1>1, <1>2, <1>3

LEMMA Takes ==
  ASSUME NEW q \in Seq(Packet \cup {Dummy}), q # <<>>
  PROVE  /\ Tail(q) \in Seq(Packet \cup {Dummy})
         /\ Head(q) # Dummy => (Has(Tail(q)) <=> Has(q)) /\ (Single(q) => Single(Tail(q)))
         /\ Head(q) = Dummy => Has(q) /\ (Single(q) => ~Has(Tail(q)))
  <1>1. /\ Tail(q) \in Seq(Packet \cup {Dummy})
        /\ Len(Tail(q)) = Len(q) - 1 /\ Len(q) \in Nat \ {0}
        /\ Head(q) = q[1]
        /\ \A i \in 1 .. Len(q) - 1 : Tail(q)[i] = q[i + 1]
    BY HeadTailProperties, LenProperties, EmptySeq
  <1> HIDE DEF Tail, Head
  <1>2. /\ 1 \in 1 .. Len(q)
        /\ \A i \in 1 .. Len(q) - 1 : i + 1 \in 1 .. Len(q)
        /\ \A i \in 1 .. Len(q) : i # 1 => i - 1 \in 1 .. Len(q) - 1 /\ q[i] = Tail(q)[i - 1]
    BY <1>1
  <1>3. ASSUME Head(q) # Dummy
        PROVE  (Has(Tail(q)) <=> Has(q)) /\ (Single(q) => Single(Tail(q)))
    <2>1. Has(Tail(q)) => Has(q)
      BY <1>1, <1>2 DEF Has
    <2>2. Has(q) => Has(Tail(q))
      BY <1>1, <1>2, <1>3 DEF Has
    <2>3. Single(q) => Single(Tail(q))
      BY <1>1, <1>2 DEF Single
    <2> QED BY <2>1, <2>2, <2>3
  <1>4. ASSUME Head(q) = Dummy
        PROVE  Has(q) /\ (Single(q) => ~Has(Tail(q)))
    BY <1>1, <1>2, <1>4 DEF Has, Single
  <1> QED BY <1>1, <1>3, <1>4
-----------------------------------------------------------------------------
LEMMA InvInit == Init => IInv
  <1> SUFFICES ASSUME Init PROVE IInv
    OBVIOUS
  <1>1. <<>> \in Seq(Packet \cup {Dummy}) /\ ~Has(<<>>)
    BY EmptySeq DEF Has
  <1>2. Types
    BY <1>1, Names DEF Init, Types
  <1>3. LockInv
    BY <1>1 DEF Init, LockInv, Putting
  <1> QED BY <1>2, <1>3 DEF IInv

\* A step that leaves alone what the lock is about.
LEMMA Elsewhere ==
  ASSUME IInv, UNCHANGED <<port, cmds_acked, cmds_complete, exter, unit_no>>,
         cmds_sent' \in [Unit -> 0 .. Wrap - 1]
  PROVE  IInv'
  <1>1. Types'
    BY DEF IInv, Types
  <1>2. LockInv'
    BY DEF IInv, LockInv, Putting
  <1> QED BY <1>1, <1>2 DEF IInv

\* A packet goes into the port of a unit, or is taken from it.
LEMMA PacketKeeps ==
  ASSUME IInv, NEW u \in Unit, UNCHANGED <<cmds, exter, unit_no>>,
         \/ \E p \in Packet : port' = [port EXCEPT ![u] = Append(@, p)]
         \/ /\ port[u] # <<>> /\ Head(port[u]) # Dummy
            /\ port' = [port EXCEPT ![u] = Tail(@)]
  PROVE  IInv'
  <1>1. port[u] \in Seq(Packet \cup {Dummy})
    BY DEF IInv, Types
  <1>2. PICK q \in Seq(Packet \cup {Dummy}) :
          /\ port' = [port EXCEPT ![u] = q]
          /\ Has(q) <=> Has(port[u])
          /\ Single(port[u]) => Single(q)
    <2>1. ASSUME NEW p \in Packet, port' = [port EXCEPT ![u] = Append(@, p)]
          PROVE  /\ Append(port[u], p) \in Seq(Packet \cup {Dummy})
                 /\ port' = [port EXCEPT ![u] = Append(port[u], p)]
                 /\ Has(Append(port[u], p)) <=> Has(port[u])
                 /\ Single(port[u]) => Single(Append(port[u], p))
      <3>1. p # Dummy
        BY Names
      <3> QED BY <1>1, <2>1, <3>1, Puts
    <2>2. ASSUME port[u] # <<>>, Head(port[u]) # Dummy, port' = [port EXCEPT ![u] = Tail(@)]
          PROVE  /\ Tail(port[u]) \in Seq(Packet \cup {Dummy})
                 /\ port' = [port EXCEPT ![u] = Tail(port[u])]
                 /\ Has(Tail(port[u])) <=> Has(port[u])
                 /\ Single(port[u]) => Single(Tail(port[u]))
      BY <1>1, <2>2, Takes
    <2> QED BY <2>1, <2>2
  <1>3. UNCHANGED <<cmds_sent, cmds_acked, cmds_complete, exter, unit_no>>
    BY DEF cmds
  <1>4. Types'
    BY <1>2, <1>3 DEF IInv, Types
  <1>5. \A v \in Unit : port'[v] = IF v = u THEN q ELSE port[v]
    BY <1>2 DEF IInv, Types
  <1>6. LockInv'
    BY <1>2, <1>3, <1>5 DEF IInv, LockInv, Putting
  <1> QED BY <1>4, <1>6 DEF IInv

\* exter_int_helper takes the message lock of a unit that has something to send.
LEMMA FindWorkKeeps ==
  ASSUME IInv, NEW n \in 1 .. Units + 1, FindWork(n), exter # "put",
         UNCHANGED <<port, cmds_sent, cmds_complete>>
  PROVE  IInv'
  <1>1. CASE \E u \in n .. Units : Sendable(u) /\ exter' = "put"
    <2>1. PICK u \in n .. Units :
            /\ Sendable(u)
            /\ cmds_acked' = [cmds_acked EXCEPT ![u] = cmds_sent[u]]
            /\ unit_no' = u + 1 /\ exter' = "put"
      BY <1>1 DEF FindWork
    <2>2. u \in Unit /\ Units \in Nat
      BY Names DEF Unit
    <2>3. \A v \in Unit : cmds_acked'[v] = IF v = u THEN cmds_sent[u] ELSE cmds_acked[v]
      BY <2>1, <2>2 DEF IInv, Types
    <2>4. \A v \in Unit : ~Putting(v) /\ (Putting(v)' <=> v = u)
      BY <2>1, <2>2 DEF Putting, Unit
    <2>5. Types'
      <3>1. unit_no' \in 1 .. Units + 1 /\ unit_no' - 1 \in Unit
        BY <2>1, <2>2 DEF Unit
      <3>2. cmds_acked' \in [Unit -> 0 .. Wrap - 1]
        BY <2>1, <2>2 DEF IInv, Types
      <3> QED BY <2>1, <3>1, <3>2 DEF IInv, Types
    <2>6. ASSUME NEW v \in Unit
          PROVE  IF cmds_acked'[v] = cmds_complete'[v]
                   THEN ~Has(port'[v]) /\ ~Putting(v)'
                   ELSE Single(port'[v]) /\ (Putting(v)' <=> ~Has(port'[v]))
      <3>1. CASE v = u
        <4>1. cmds_acked'[u] # cmds_complete'[u] /\ ~Has(port'[u])
          BY <2>1, <2>2, <2>3 DEF Sendable, IInv, LockInv
        <4>2. Single(port'[u])
          BY <4>1 DEF Has, Single
        <4> QED BY <3>1, <2>4, <4>1, <4>2
      <3>2. CASE v # u
        BY <3>2, <2>3, <2>4 DEF IInv, LockInv
      <3> QED BY <3>1, <3>2
    <2>7. LockInv'
      BY <2>6 DEF LockInv
    <2> QED BY <2>5, <2>7 DEF IInv
  <1>2. CASE exter' = "wait" /\ unit_no' = Units + 1 /\ UNCHANGED cmds_acked
    <2>1. Types'
      BY <1>2, Names DEF IInv, Types
    <2>2. \A v \in Unit : ~Putting(v) /\ ~Putting(v)'
      BY <1>2 DEF Putting
    <2>3. LockInv'
      BY <1>2, <2>2 DEF IInv, LockInv
    <2> QED BY <2>1, <2>3 DEF IInv
  <1> QED BY <1>1, <1>2 DEF FindWork

\* The dummy message is put ...
LEMMA PutsKeeps ==
  ASSUME IInv, PutsDummy
  PROVE  IInv'
  <1> DEFINE u == unit_no - 1
  <1>1. /\ exter = "put" /\ exter' = "next"
        /\ port' = [port EXCEPT ![u] = Append(@, Dummy)]
        /\ UNCHANGED <<cmds_sent, cmds_acked, cmds_complete, unit_no>>
    BY DEF PutsDummy, cmds
  <1>2. u \in Unit /\ unit_no \in Nat
    BY <1>1, Names DEF IInv, Types
  <1>3. \A v \in Unit : (Putting(v) <=> v = u) /\ ~Putting(v)'
    BY <1>1, <1>2 DEF Putting, Unit
  <1> HIDE DEF u
  <1>4. port[u] \in Seq(Packet \cup {Dummy}) /\ ~Has(port[u])
        /\ cmds_acked[u] # cmds_complete[u]
    BY <1>2, <1>3 DEF IInv, LockInv, Types
  <1>5. /\ Append(port[u], Dummy) \in Seq(Packet \cup {Dummy})
        /\ Has(Append(port[u], Dummy)) /\ Single(Append(port[u], Dummy))
    BY <1>4, Puts
  <1>6. \A v \in Unit : port'[v] = IF v = u THEN Append(port[u], Dummy) ELSE port[v]
    BY <1>1 DEF IInv, Types
  <1>7. Types'
    BY <1>1, <1>2, <1>5 DEF IInv, Types
  <1>8. LockInv'
    BY <1>1, <1>3, <1>4, <1>5, <1>6 DEF IInv, LockInv
  <1> QED BY <1>7, <1>8 DEF IInv

\* ... and taken, which releases the lock.
LEMMA TakesKeeps ==
  ASSUME IInv, NEW u \in Unit, TakeDummy(u)
  PROVE  IInv'
  <1>1. /\ port[u] # <<>> /\ Head(port[u]) = Dummy
        /\ port' = [port EXCEPT ![u] = Tail(@)]
        /\ cmds_complete' = [cmds_complete EXCEPT ![u] = cmds_acked[u]]
        /\ UNCHANGED <<cmds_sent, cmds_acked, exter, unit_no>>
    BY DEF TakeDummy, GetMsg, interrupt
  <1>2. port[u] \in Seq(Packet \cup {Dummy})
    BY DEF IInv, Types
  <1>3. /\ Tail(port[u]) \in Seq(Packet \cup {Dummy})
        /\ Has(port[u]) /\ (Single(port[u]) => ~Has(Tail(port[u])))
    BY <1>1, <1>2, Takes
  <1>4. ~Putting(u) /\ ~Has(Tail(port[u]))
    BY <1>3 DEF IInv, LockInv
  <1>5. /\ \A v \in Unit : port'[v] = IF v = u THEN Tail(port[u]) ELSE port[v]
        /\ \A v \in Unit : cmds_complete'[v] = IF v = u THEN cmds_acked[u] ELSE cmds_complete[v]
        /\ \A v \in Unit : Putting(v)' <=> Putting(v)
    BY <1>1 DEF IInv, Types, Putting
  <1>6. Types'
    BY <1>1, <1>3 DEF IInv, Types
  <1>7. LockInv'
    BY <1>1, <1>4, <1>5 DEF IInv, LockInv
  <1> QED BY <1>6, <1>7 DEF IInv

\* The Amiga starts anew, with a loop of the EXTER task cut short or not.
LEMMA BootKeeps ==
  ASSUME IInv, Boot, UNCHANGED unit_no
  PROVE  IInv'
  <1>1. <<>> \in Seq(Packet \cup {Dummy}) /\ ~Has(<<>>)
    BY EmptySeq DEF Has
  <1>2. Types'
    BY <1>1, Names DEF Boot, IInv, Types
  <1>3. LockInv'
    BY <1>1 DEF Boot, LockInv, Putting
  <1> QED BY <1>2, <1>3 DEF IInv

LEMMA InvNext == IInv /\ [Next]_vars => IInv'
  <1> SUFFICES ASSUME IInv, [Next]_vars PROVE IInv'
    OBVIOUS
  <1>1. cmds_sent \in [Unit -> 0 .. Wrap - 1] /\ unit_no \in 1 .. Units + 1
    BY DEF IInv, Types
  <1>2. ASSUME NEW u \in Unit, HandlerTask(u) PROVE IInv'
    <2>1. CASE DoCommand(u)
      BY <2>1, PacketKeeps DEF DoCommand, GetMsg, interrupt
    <2>2. CASE SetAside(u) \/ Refuse(u)
      BY <2>2, PacketKeeps DEF SetAside, Refuse, GetMsg, interrupt
    <2>3. CASE Enqueue(u) \/ Scan(u)
      BY <1>1, <2>3, Elsewhere DEF Enqueue, Scan, cmds, interrupt
    <2> QED BY <1>2, <2>1, <2>2, <2>3, TakesKeeps DEF HandlerTask
  <1>3. ASSUME NEW u \in Unit, UnitThread(u) PROVE IInv'
    <2>1. CASE Sends(u)
      <3>1. cmds_sent[u] \in 0 .. Wrap - 1
        BY <1>1
      <3>2. cmds_sent' \in [Unit -> 0 .. Wrap - 1]
        BY <1>1, <2>1, <3>1, IncIs DEF Sends
      <3> QED BY <2>1, <3>2, Elsewhere DEF Sends, amiga, interrupt
    <2>2. CASE ThreadReads(u) \/ Marks(u) \/ SendsBack(u) \/ Requests(u)
      BY <1>1, <2>2, Elsewhere DEF ThreadReads, Marks, SendsBack, Requests, amiga, cmds, interrupt
    <2> QED BY <1>3, <2>1, <2>2 DEF UnitThread
  <1>4. ASSUME NEW p \in Packet, NEW u \in Unit, Send(p, u) PROVE IInv'
    BY <1>4, PacketKeeps DEF Send, interrupt
  <1>5. CASE OtherRequest \/ Server \/ NotForUs \/ Vsync \/ UNCHANGED vars
    BY <1>1, <1>5, Elsewhere
       DEF OtherRequest, Server, NotForUs, Vsync, vars, amiga, cmds, interrupt
  <1>6. CASE Helper10 \/ Helper11
    <2>1. 1 \in 1 .. Units + 1
      BY Names
    <2>2. CASE Helper10
      BY <2>1, <2>2, FindWorkKeeps DEF Helper10, amiga
    <2>3. CASE Helper11
      BY <1>1, <2>3, FindWorkKeeps DEF Helper11, amiga
    <2> QED BY <1>6, <2>2, <2>3
  <1>7. CASE PutsDummy
    BY <1>7, PutsKeeps
  <1>8. CASE ResetBegins \/ ResetGoesOn
    BY <1>1, <1>8, Elsewhere DEF ResetBegins, ResetGoesOn, Kill, amiga, cmds, interrupt
  <1>9. CASE ResetEnds
    BY <1>9, BootKeeps DEF ResetEnds
  <1> QED BY <1>2, <1>3, <1>4, <1>5, <1>6, <1>7, <1>8, <1>9 DEF Next, ExterTask
-----------------------------------------------------------------------------
\* IInv is an invariant.
THEOREM Invariance == Spec => []IInv
  BY InvInit, InvNext, PTL DEF Spec

\* The message lock of a unit is taken exactly while its one dummy message is on its way from
\* exter_int_helper to the handler's port and out of it, for any number of units and whatever
\* interrupts and resets come in between.
THEOREM PutOnce == Spec => []MessageLock
  <1>1. ASSUME IInv PROVE MessageLock
    <2> SUFFICES ASSUME NEW u \in Unit
                 PROVE  IF cmds_acked[u] = cmds_complete[u]
                          THEN Dummies(u) = 0 /\ ~Putting(u)
                          ELSE Dummies(u) + (IF Putting(u) THEN 1 ELSE 0) = 1
      BY DEF MessageLock
    <2>1. ~Has(port[u]) => Dummies(u) = 0
      <3>1. ~Has(port[u]) => {i \in 1 .. Len(port[u]) : port[u][i] = Dummy} = {}
        BY DEF Has
      <3> QED BY <3>1, FS_EmptySet DEF Dummies
    <2>2. ASSUME Has(port[u]), Single(port[u]) PROVE Dummies(u) = 1
      <3>1. PICK i \in 1 .. Len(port[u]) : port[u][i] = Dummy
        BY <2>2 DEF Has
      <3>2. {j \in 1 .. Len(port[u]) : port[u][j] = Dummy} = {i}
        BY <2>2, <3>1 DEF Single
      <3> QED BY <3>2, FS_Singleton DEF Dummies
    <2> QED BY <1>1, <2>1, <2>2 DEF IInv, LockInv
  <1> QED BY <1>1, Invariance, PTL
-----------------------------------------------------------------------------
(* Where the packets are, while the Amiga runs: in a port, in the chain of *)
(* one handler, or with a client, and what is in the chain tells what the  *)
(* thread has still to do.                                                 *)

PortInv ==
  \A u, v \in Unit : \A i \in 1 .. Len(port[u]), j \in 1 .. Len(port[v]) :
    port[u][i] \in Packet => /\ status[port[u][i]] = "sent"
                             /\ port[u][i] = port[v][j] => u = v /\ i = j

ChainInv ==
  \A u \in Unit :
    /\ handler[u] = "enqueue" => hand[u] \in Packet
    /\ IsInjective(Chain(u))
    /\ \A p \in ToSet(Chain(u)) : status[p] \in {"handed", "aside", "done"}
    /\ \A v \in Unit : u # v => ToSet(Chain(u)) \cap ToSet(Chain(v)) = {}

\* The packets that are started, counted before they are put into the queue, ...
Busy(u) == {p \in ToSet(Chain(u)) : status[p] \in {"handed", "done"}}
StartedInv ==
  \A u \in Unit :
    /\ Cardinality(Busy(u)) = started[u] + (IF handler[u] = "enqueue" THEN 1 ELSE 0)
    /\ Cardinality(Busy(u)) <= Limit

\* ... and what is written to back_pipe: one item, for a packet finished before the
\* last dummy was taken, and those that were finished since.
Finished(u) == {p \in ToSet(Chain(u)) : status[p] = "done"}
BackInv ==
  \A u \in Unit :
    back_pipe[u] + (IF thread[u] = "back" THEN 1 ELSE 0)
      <= (IF handler[u] = "scan" THEN 1 ELSE Limit + 1) + Cardinality(Finished(u))

WorkInv ==
  \A u \in Unit : /\ reset_state[u] = "startup" /\ thread[u] # "dead"
                  /\ unit_pipe[u] \in Seq(Packet)
                  /\ work[u] # None <=> thread[u] \in {"process", "mark"}
                  /\ Unfinished(u) = Backlog(u)

\* Steps by which no packet is finished and none is replied to.
SameEnd == \A u \in Unit : Finished(u)' = Finished(u)

RunInv == PortInv /\ ChainInv /\ StartedInv /\ BackInv /\ WorkInv
ResetInv == ~AmigaRuns => resets < Resets
PacketInv == TypeOK /\ ResetInv /\ (AmigaRuns => RunInv)

Message == Packet \cup {Dummy}

\* What follows from the invariant for one unit.
LEMMA ChainFacts ==
  ASSUME TypeOK, ChainInv, NEW u \in Unit
  PROVE  /\ Chain(u) \in Seq(Packet) /\ IsInjective(Chain(u))
         /\ ToSet(Chain(u)) \subseteq Packet
         /\ Busy(u) \subseteq ToSet(Chain(u)) /\ Finished(u) \subseteq Busy(u)
         /\ IsFiniteSet(Busy(u)) /\ Cardinality(Busy(u)) \in Nat
         /\ IsFiniteSet(Finished(u)) /\ Cardinality(Finished(u)) \in Nat
         /\ Cardinality(Finished(u)) <= Cardinality(Busy(u))
  <1>1. queue[u] \in Seq(Packet)
    BY DEF TypeOK
  <1>2. Chain(u) \in Seq(Packet)
    <2>1. CASE handler[u] = "enqueue"
      <3>1. hand[u] \in Packet
        BY <2>1 DEF ChainInv
      <3>2. <<hand[u]>> \o queue[u] \in Seq(Packet)
        BY <1>1, <3>1, PrependSet
      <3> QED BY <2>1, <3>2 DEF Chain
    <2>2. CASE handler[u] # "enqueue"
      BY <1>1, <2>2 DEF Chain
    <2> QED BY <2>1, <2>2
  <1>3. ToSet(Chain(u)) \subseteq Packet /\ IsFiniteSet(ToSet(Chain(u)))
    BY <1>2, SetSize
  <1>4. Busy(u) \subseteq ToSet(Chain(u)) /\ Finished(u) \subseteq Busy(u)
    BY DEF Busy, Finished
  <1>5. IsFiniteSet(Busy(u)) /\ IsFiniteSet(Finished(u))
        /\ Cardinality(Finished(u)) <= Cardinality(Busy(u))
    BY <1>3, <1>4, FS_Subset
  <1>6. Cardinality(Busy(u)) \in Nat /\ Cardinality(Finished(u)) \in Nat
    BY <1>5, FS_CardinalityType
  <1> QED BY <1>2, <1>3, <1>4, <1>5, <1>6 DEF ChainInv

\* Messages in the ports: none moves, one is put into a port, one is taken from it.
LEMMA PortStays ==
  ASSUME PortInv, port' = port, \A p \in Packet : status[p] = "sent" => status'[p] = "sent"
  PROVE  PortInv'
  BY DEF PortInv

LEMMA PortPut ==
  ASSUME PortInv, port \in [Unit -> Seq(Message)], NEW u \in Unit, NEW m \in Message,
         port' = [port EXCEPT ![u] = Append(@, m)],
         m \in Packet => status[m] # "sent" /\ status'[m] = "sent",
         \A p \in Packet : status[p] = "sent" => status'[p] = "sent",
         Dummy \notin Packet
  PROVE  PortInv'
  <1>1. \A v \in Unit : port'[v] = IF v = u THEN Append(port[u], m) ELSE port[v]
    OBVIOUS
  <1>2. /\ Len(Append(port[u], m)) = Len(port[u]) + 1 /\ Len(port[u]) \in Nat
        /\ Append(port[u], m)[Len(port[u]) + 1] = m
        /\ \A i \in 1 .. Len(port[u]) : Append(port[u], m)[i] = port[u][i]
    BY AppendProperties, LenProperties
  <1>3. \A v \in Unit : \A i \in 1 .. Len(port[v]) : port[v][i] \in Packet => port[v][i] # m
    BY DEF PortInv
  <1>4. SUFFICES ASSUME NEW v \in Unit, NEW w \in Unit,
                        NEW i \in 1 .. Len(port'[v]), NEW j \in 1 .. Len(port'[w]),
                        port'[v][i] \in Packet
                 PROVE  /\ status'[port'[v][i]] = "sent"
                        /\ port'[v][i] = port'[w][j] => v = w /\ i = j
    BY DEF PortInv
  <1> DEFINE new(x, k) == x = u /\ k = Len(port[u]) + 1
  <1>5. /\ new(v, i) => port'[v][i] = m
        /\ ~new(v, i) => i \in 1 .. Len(port[v]) /\ port'[v][i] = port[v][i]
    BY <1>1, <1>2
  <1>6. /\ new(w, j) => port'[w][j] = m
        /\ ~new(w, j) => j \in 1 .. Len(port[w]) /\ port'[w][j] = port[w][j]
    BY <1>1, <1>2
  <1>7. CASE new(v, i)
    BY <1>3, <1>4, <1>5, <1>6, <1>7
  <1>8. CASE ~new(v, i)
    BY <1>3, <1>4, <1>5, <1>6, <1>8 DEF PortInv
  <1> QED BY <1>7, <1>8

LEMMA PortTake ==
  ASSUME PortInv, port \in [Unit -> Seq(Message)], NEW u \in Unit, port[u] # <<>>,
         port' = [port EXCEPT ![u] = Tail(@)],
         \A p \in Packet : status[p] = "sent" /\ p # Head(port[u]) => status'[p] = "sent"
  PROVE  PortInv'
  <1>1. \A v \in Unit : port'[v] = IF v = u THEN Tail(port[u]) ELSE port[v]
    OBVIOUS
  <1>2. /\ Len(Tail(port[u])) = Len(port[u]) - 1 /\ Len(port[u]) \in Nat \ {0}
        /\ Head(port[u]) = port[u][1]
        /\ \A i \in 1 .. Len(port[u]) - 1 : Tail(port[u])[i] = port[u][i + 1]
    BY HeadTailProperties, LenProperties, EmptySeq
  <1> DEFINE at(x, k) == IF x = u THEN k + 1 ELSE k
  <1>3. ASSUME NEW x \in Unit, NEW k \in 1 .. Len(port'[x])
        PROVE  /\ at(x, k) \in 1 .. Len(port[x]) /\ port'[x][k] = port[x][at(x, k)]
               /\ x = u => at(x, k) # 1
    BY <1>1, <1>2
  <1>4. 1 \in 1 .. Len(port[u])
    BY <1>2
  <1>5. SUFFICES ASSUME NEW v \in Unit, NEW w \in Unit,
                        NEW i \in 1 .. Len(port'[v]), NEW j \in 1 .. Len(port'[w]),
                        port'[v][i] \in Packet
                 PROVE  /\ status'[port'[v][i]] = "sent"
                        /\ port'[v][i] = port'[w][j] => v = w /\ i = j
    BY DEF PortInv
  <1>6. status[port'[v][i]] = "sent" /\ port'[v][i] # Head(port[u])
    BY <1>2, <1>3, <1>4, <1>5 DEF PortInv
  <1>7. ASSUME port'[v][i] = port'[w][j] PROVE v = w /\ i = j
    <2>1. v = w /\ at(v, i) = at(w, j)
      BY <1>3, <1>5, <1>7 DEF PortInv
    <2> QED BY <2>1
  <1> QED BY <1>5, <1>6, <1>7

\* The chains: none changes.
Same(u) == Chain(u)' = Chain(u) /\ \A p \in ToSet(Chain(u)) : status'[p] = status[p]

LEMMA SameFacts ==
  ASSUME TypeOK, ChainInv, NEW u \in Unit, Same(u)
  PROVE  Busy(u)' = Busy(u) /\ Finished(u)' = Finished(u) /\ Unfinished(u)' = Unfinished(u)
  <1>1. Busy(u)' = Busy(u) /\ Finished(u)' = Finished(u)
    BY DEF Same, Busy, Finished
  <1>2. ToSet(Chain(u)) \cap Handed = ToSet(Chain(u)) \cap Handed'
    BY DEF Same, Handed
  <1>3. Kept(Chain(u), Handed) = Kept(Chain(u), Handed')
    BY <1>2, ChainFacts, KeptSame
  <1> QED BY <1>1, <1>3 DEF Same, Unfinished

\* A packet that was in no chain is put in front of one, ...
Prepended(u, p) ==
  /\ status[p] \notin {"handed", "aside", "done"}
  /\ status' = [status EXCEPT ![p] = status'[p]] /\ status'[p] \in {"handed", "aside", "done"}
  /\ Chain(u)' = <<p>> \o Chain(u)
  /\ \A v \in Unit : v # u => Chain(v)' = Chain(v)
  /\ \A v \in Unit : handler'[v] = "enqueue" => hand'[v] \in Packet

LEMMA PrependFacts ==
  ASSUME TypeOK, ChainInv, NEW u \in Unit, NEW p \in Packet, Prepended(u, p)
  PROVE  /\ ChainInv'
         /\ \A v \in Unit : v # u => Same(v)
         /\ Finished(u)' = Finished(u) \cup (IF status'[p] = "done" THEN {p} ELSE {})
         /\ Busy(u)' = Busy(u) \cup (IF status'[p] = "aside" THEN {} ELSE {p})
         /\ p \notin Busy(u)
         /\ Unfinished(u)' = IF status'[p] = "handed" THEN Append(Unfinished(u), p)
                             ELSE Unfinished(u)
  <1>1. \A v \in Unit : Chain(v) \in Seq(Packet) /\ IsInjective(Chain(v))
                        /\ ToSet(Chain(v)) \subseteq Packet
    BY ChainFacts
  <1>2. \A v \in Unit : p \notin ToSet(Chain(v))
    BY DEF ChainInv, Prepended
  <1>3. \A q \in Packet : q # p => status'[q] = status[q]
    BY DEF Prepended, TypeOK
  <1>4. \A v \in Unit : v # u => Same(v)
    BY <1>1, <1>2, <1>3 DEF Same, Prepended
  <1>5. /\ ToSet(<<p>> \o Chain(u)) = ToSet(Chain(u)) \cup {p}
        /\ IsInjective(<<p>> \o Chain(u)) /\ <<p>> \o Chain(u) \in Seq(Packet)
        /\ <<p>> \o Chain(u) # <<>>
        /\ Head(<<p>> \o Chain(u)) = p /\ Tail(<<p>> \o Chain(u)) = Chain(u)
    BY <1>1, <1>2, PrependSet
  <1>6. ToSet(Chain(u)') = ToSet(Chain(u)) \cup {p} /\ IsInjective(Chain(u)')
    BY <1>5 DEF Prepended
  <1>7. \A q \in ToSet(Chain(u)) : status'[q] = status[q]
    BY <1>1, <1>2, <1>3
  <1>8. ChainInv'
    <2>1. ASSUME NEW v \in Unit
          PROVE  /\ IsInjective(Chain(v)')
                 /\ \A q \in ToSet(Chain(v)') : status'[q] \in {"handed", "aside", "done"}
      BY <1>4, <1>6, <1>7 DEF ChainInv, Same, Prepended
    <2>2. ASSUME NEW v \in Unit, NEW w \in Unit, v # w
          PROVE  ToSet(Chain(v)') \cap ToSet(Chain(w)') = {}
      <3>1. ToSet(Chain(v)) \cap ToSet(Chain(w)) = {}
        BY <2>2 DEF ChainInv
      <3>2. \A x \in Unit : ToSet(Chain(x)') = ToSet(Chain(x)) \cup (IF x = u THEN {p} ELSE {})
        BY <1>4, <1>6 DEF Same
      <3> QED BY <1>2, <2>2, <3>1, <3>2
    <2> QED BY <2>1, <2>2 DEF ChainInv, Prepended
  <1>9. /\ Finished(u)' = Finished(u) \cup (IF status'[p] = "done" THEN {p} ELSE {})
        /\ Busy(u)' = Busy(u) \cup (IF status'[p] = "aside" THEN {} ELSE {p})
        /\ p \notin Busy(u)
    BY <1>2, <1>6, <1>7 DEF Finished, Busy, Prepended
  <1>10. Kept(<<p>> \o Chain(u), Handed')
           = IF status'[p] = "handed" THEN <<p>> \o Kept(Chain(u), Handed)
             ELSE Kept(Chain(u), Handed)
    <2> DEFINE t == <<p>> \o Chain(u)
               k == Kept(t, Handed')
    <2>0. t \in Seq(Packet) /\ t # <<>> /\ Head(t) = p /\ Tail(t) = Chain(u)
      BY <1>5
    <2> HIDE DEF t
    <2>1. ToSet(Chain(u)) \cap Handed = ToSet(Chain(u)) \cap Handed'
      BY <1>7 DEF Handed
    <2>2. Kept(Chain(u), Handed) = Kept(Chain(u), Handed')
      BY <1>1, <2>1, KeptSame
    <2>3. IF p \in Handed'
            THEN k # <<>> /\ Head(k) = p /\ Tail(k) = Kept(Chain(u), Handed')
            ELSE k = Kept(Chain(u), Handed')
      <3>1. IF Head(t) \in Handed'
              THEN /\ Kept(t, Handed') # <<>> /\ Head(Kept(t, Handed')) = Head(t)
                   /\ Tail(Kept(t, Handed')) = Kept(Tail(t), Handed')
              ELSE Kept(t, Handed') = Kept(Tail(t), Handed')
        BY <2>0, KeptTail
      <3> QED BY <2>0, <3>1
    <2>4. p \in Handed' <=> status'[p] = "handed"
      BY DEF Handed
    <2>5. k \in Seq(Packet)
      BY <2>0, KeptType
    <2> HIDE DEF k
    <2>6. k # <<>> => k = <<Head(k)>> \o Tail(k)
      BY <2>5, HeadTailIs
    <2>7. k = IF status'[p] = "handed" THEN <<p>> \o Kept(Chain(u), Handed)
              ELSE Kept(Chain(u), Handed)
      BY <2>2, <2>3, <2>4, <2>6
    <2> QED BY <2>7 DEF k, t
  <1>11. Unfinished(u)' = IF status'[p] = "handed" THEN Append(Unfinished(u), p)
                          ELSE Unfinished(u)
    <2>1. Kept(Chain(u), Handed) \in Seq(Packet)
      BY <1>1, KeptType
    <2>2. Reverse(<<p>> \o Kept(Chain(u), Handed)) = Append(Reverse(Kept(Chain(u), Handed)), p)
      BY <2>1, ReverseAppend
    <2> QED BY <1>10, <2>2 DEF Unfinished, Prepended
  <1> QED BY <1>4, <1>8, <1>9, <1>11

\* ... and steps that change no chain and nothing of a packet in one.
LEMMA AllSame ==
  ASSUME TypeOK, ChainInv, \A u \in Unit : Same(u),
         \A u \in Unit : handler'[u] = "enqueue" => hand'[u] \in Packet
  PROVE  /\ ChainInv'
         /\ \A u \in Unit : /\ Busy(u)' = Busy(u) /\ Finished(u)' = Finished(u)
                            /\ Unfinished(u)' = Unfinished(u)
  <1>1. ChainInv'
    BY DEF ChainInv, Same
  <1> QED BY <1>1, SameFacts
-----------------------------------------------------------------------------
(* The handler tasks.                                                      *)

LEMMA Received ==
  ASSUME TypeOK, PortInv, NEW u \in Unit, GetMsg(u), Head(port[u]) # Dummy
  PROVE  Head(port[u]) \in Packet /\ status[Head(port[u])] = "sent"
  <1>1. /\ port[u] \in Seq(Message) /\ port[u] # <<>>
        /\ Head(port[u]) = port[u][1] /\ 1 \in 1 .. Len(port[u]) /\ port[u][1] \in Message
    BY ElementOfSeq, EmptySeq DEF TypeOK, GetMsg, Message
  <1>2. port[u][1] \in Packet
    BY <1>1 DEF Message
  <1> QED BY <1>1, <1>2 DEF PortInv

LEMMA DoCommandKeeps ==
  ASSUME TypeOK, RunInv, NEW u \in Unit, DoCommand(u)
  PROVE  RunInv' /\ SameEnd
  <1> DEFINE p == Head(port[u])
  <1>1. /\ p \in Packet /\ status[p] = "sent"
        /\ port[u] # <<>> /\ port \in [Unit -> Seq(Message)] /\ port' = [port EXCEPT ![u] = Tail(@)]
        /\ started[u] < Limit /\ handler[u] = "loop" /\ handler' = [handler EXCEPT ![u] = "enqueue"]
        /\ status' = [status EXCEPT ![p] = "handed"]
        /\ unit_pipe' = [unit_pipe EXCEPT ![u] = Append(@, p)]
        /\ hand' = [hand EXCEPT ![u] = p]
        /\ UNCHANGED <<queue, started, back_pipe, thread, work, reset_state>>
    BY Received DEF RunInv, DoCommand, GetMsg, MayStart, TypeOK, Message, threads, reset
  <1> HIDE DEF p
  <1>2. PortInv'
    <2>1. \A q \in Packet : status[q] = "sent" /\ q # p => status'[q] = "sent"
      BY <1>1 DEF TypeOK
    <2> QED BY <1>1, <2>1, PortTake DEF RunInv, p
  <1>3. Prepended(u, p) /\ status'[p] = "handed"
    <2>1. status'[p] = "handed" /\ status' = [status EXCEPT ![p] = status'[p]]
      BY <1>1 DEF TypeOK
    <2>2. /\ Chain(u)' = <<p>> \o Chain(u)
          /\ \A v \in Unit : v # u => Chain(v)' = Chain(v)
          /\ \A v \in Unit : handler'[v] = "enqueue" => hand'[v] \in Packet
      BY <1>1 DEF Chain, TypeOK, RunInv, ChainInv
    <2> QED BY <1>1, <2>1, <2>2 DEF Prepended
  <1>4. /\ ChainInv'
        /\ \A v \in Unit : v # u => Same(v)
        /\ Finished(u)' = Finished(u) /\ Busy(u)' = Busy(u) \cup {p} /\ p \notin Busy(u)
        /\ Unfinished(u)' = Append(Unfinished(u), p)
    BY <1>1, <1>3, PrependFacts DEF RunInv
  <1>5. \A v \in Unit : v # u => /\ Busy(v)' = Busy(v) /\ Finished(v)' = Finished(v)
                                 /\ Unfinished(v)' = Unfinished(v)
    BY <1>4, SameFacts DEF RunInv
  <1>6. /\ Cardinality(Busy(u)') = Cardinality(Busy(u)) + 1 /\ Cardinality(Busy(u)) \in Nat
        /\ started[u] \in Nat /\ Limit \in Nat
    <2>1. IsFiniteSet(Busy(u)) /\ Cardinality(Busy(u)) \in Nat
      BY ChainFacts DEF RunInv
    <2>2. Cardinality(Busy(u) \cup {p}) = Cardinality(Busy(u)) + 1
      BY <1>4, <2>1, FS_AddElement
    <2>3. started[u] \in Nat /\ Limit \in Nat
      BY Names DEF TypeOK
    <2> QED BY <1>4, <2>1, <2>2, <2>3
  <1>7. \A v \in Unit : handler'[v] = IF v = u THEN "enqueue" ELSE handler[v]
    BY <1>1 DEF TypeOK
  <1>8. StartedInv'
    <2>1. ASSUME NEW v \in Unit
          PROVE  /\ Cardinality(Busy(v)') = started'[v] + (IF handler'[v] = "enqueue" THEN 1 ELSE 0)
                 /\ Cardinality(Busy(v)') <= Limit
      <3>1. CASE v = u
        <4>1. Cardinality(Busy(u)) = started[u] + (IF handler[u] = "enqueue" THEN 1 ELSE 0)
          BY DEF RunInv, StartedInv
        <4>2. Cardinality(Busy(u)) = started[u]
          BY <1>1, <1>6, <4>1
        <4> QED BY <1>1, <1>6, <1>7, <3>1, <4>2
      <3>2. CASE v # u
        BY <1>1, <1>5, <1>7, <3>2 DEF RunInv, StartedInv
      <3> QED BY <3>1, <3>2
    <2> QED BY <2>1 DEF StartedInv
  <1>9. BackInv'
    BY <1>1, <1>4, <1>5, <1>7 DEF RunInv, BackInv
  <1>10. WorkInv'
    <2>1. Append(unit_pipe[u], p) \in Seq(Packet) /\ Backlog(u)' = Append(Backlog(u), p)
      <3>1. unit_pipe[u] \in Seq(Packet) /\ (work[u] = None \/ work[u] \in Packet)
        BY DEF RunInv, WorkInv, TypeOK
      <3>2. unit_pipe'[u] = Append(unit_pipe[u], p)
        BY <1>1 DEF TypeOK
      <3>3. work[u] # None => <<work[u]>> \o Append(unit_pipe[u], p)
                                = Append(<<work[u]>> \o unit_pipe[u], p)
        BY <1>1, <3>1, BothEnds
      <3>4. Append(unit_pipe[u], p) \in Seq(Packet)
        BY <1>1, <3>1, AppendProperties
      <3> QED BY <1>1, <3>2, <3>3, <3>4 DEF Backlog
    <2>2. \A v \in Unit : unit_pipe'[v] = IF v = u THEN Append(unit_pipe[u], p) ELSE unit_pipe[v]
      BY <1>1 DEF TypeOK
    <2>3. \A v \in Unit : v # u => Backlog(v)' = Backlog(v)
      BY <1>1, <2>2 DEF Backlog
    <2> QED BY <1>1, <1>4, <1>5, <2>1, <2>2, <2>3 DEF RunInv, WorkInv
  <1> QED BY <1>2, <1>4, <1>5, <1>8, <1>9, <1>10 DEF RunInv, SameEnd

\* A packet that is refused goes back to its client and was in no chain.
LEMMA RefuseKeeps ==
  ASSUME TypeOK, RunInv, NEW u \in Unit, Refuse(u)
  PROVE  RunInv' /\ SameEnd
  <1> DEFINE p == Head(port[u])
  <1>1. /\ p \in Packet /\ status[p] = "sent"
        /\ port[u] # <<>> /\ port \in [Unit -> Seq(Message)] /\ port' = [port EXCEPT ![u] = Tail(@)]
        /\ status' = [status EXCEPT ![p] = "client"]
        /\ UNCHANGED <<handler, hand, queue, started, unit_pipe, back_pipe, thread, work,
                       reset_state>>
    BY Received DEF RunInv, Refuse, GetMsg, TypeOK, Message, pipes, threads, reset
  <1> HIDE DEF p
  <1>2. \A q \in Packet : q # p => status'[q] = status[q]
    BY <1>1 DEF TypeOK
  <1>3. PortInv'
    BY <1>1, <1>2, PortTake DEF RunInv, p
  <1>4. ASSUME NEW v \in Unit PROVE Same(v)
    <2>1. \A q \in ToSet(Chain(v)) : q \in Packet /\ q # p
      BY <1>1, ChainFacts DEF RunInv, ChainInv
    <2> QED BY <1>1, <1>2, <2>1 DEF Same, Chain
  <1>5. /\ ChainInv'
        /\ \A v \in Unit : /\ Busy(v)' = Busy(v) /\ Finished(v)' = Finished(v)
                           /\ Unfinished(v)' = Unfinished(v) /\ Backlog(v)' = Backlog(v)
    BY <1>1, <1>4, AllSame DEF RunInv, ChainInv, Backlog
  <1>6. StartedInv' /\ BackInv' /\ WorkInv'
    BY <1>1, <1>5 DEF RunInv, StartedInv, BackInv, WorkInv
  <1> QED BY <1>3, <1>5, <1>6 DEF RunInv, SameEnd

LEMMA SetAsideKeeps ==
  ASSUME TypeOK, RunInv, NEW u \in Unit, SetAside(u)
  PROVE  RunInv' /\ SameEnd
  <1> DEFINE p == Head(port[u])
  <1>1. /\ p \in Packet /\ status[p] = "sent"
        /\ port[u] # <<>> /\ port \in [Unit -> Seq(Message)] /\ port' = [port EXCEPT ![u] = Tail(@)]
        /\ handler[u] = "loop" /\ status' = [status EXCEPT ![p] = "aside"]
        /\ queue' = [queue EXCEPT ![u] = <<p>> \o @]
        /\ UNCHANGED <<handler, hand, started, unit_pipe, back_pipe, thread, work, reset_state>>
    BY Received DEF RunInv, SetAside, GetMsg, TypeOK, Message, pipes, threads, reset
  <1> HIDE DEF p
  <1>2. PortInv'
    <2>1. \A q \in Packet : status[q] = "sent" /\ q # p => status'[q] = "sent"
      BY <1>1 DEF TypeOK
    <2> QED BY <1>1, <2>1, PortTake DEF RunInv, p
  <1>3. Prepended(u, p) /\ status'[p] = "aside"
    <2>1. status'[p] = "aside" /\ status' = [status EXCEPT ![p] = status'[p]]
      BY <1>1 DEF TypeOK
    <2>2. /\ Chain(u)' = <<p>> \o Chain(u)
          /\ \A v \in Unit : v # u => Chain(v)' = Chain(v)
          /\ \A v \in Unit : handler'[v] = "enqueue" => hand'[v] \in Packet
      BY <1>1 DEF Chain, TypeOK, RunInv, ChainInv
    <2> QED BY <1>1, <2>1, <2>2 DEF Prepended
  <1>4. /\ ChainInv'
        /\ \A v \in Unit : v # u => Same(v)
        /\ Finished(u)' = Finished(u) /\ Busy(u)' = Busy(u) /\ Unfinished(u)' = Unfinished(u)
    BY <1>1, <1>3, PrependFacts DEF RunInv
  <1>5. \A v \in Unit : /\ Busy(v)' = Busy(v) /\ Finished(v)' = Finished(v)
                        /\ Unfinished(v)' = Unfinished(v)
    BY <1>4, SameFacts DEF RunInv
  <1>6. StartedInv' /\ BackInv'
    BY <1>1, <1>5 DEF RunInv, StartedInv, BackInv
  <1>7. WorkInv'
    BY <1>1, <1>5 DEF RunInv, WorkInv, Backlog
  <1> QED BY <1>2, <1>4, <1>5, <1>6, <1>7 DEF RunInv, SameEnd

\* The chain has the packet in hand and has it still when it is in the queue.
LEMMA EnqueueKeeps ==
  ASSUME TypeOK, RunInv, NEW u \in Unit, Enqueue(u)
  PROVE  RunInv' /\ SameEnd /\ started'[u] \in 0 .. Limit
  <1>1. /\ handler[u] = "enqueue" /\ handler' = [handler EXCEPT ![u] = "loop"]
        /\ hand' = [hand EXCEPT ![u] = None]
        /\ queue' = [queue EXCEPT ![u] = <<hand[u]>> \o @]
        /\ started' = [started EXCEPT ![u] = @ + 1]
        /\ UNCHANGED <<port, status, unit_pipe, back_pipe, thread, work, reset_state>>
    BY DEF Enqueue, pipes, threads, reset
  <1>2. \A v \in Unit : /\ handler'[v] = IF v = u THEN "loop" ELSE handler[v]
                        /\ started'[v] = IF v = u THEN started[u] + 1 ELSE started[v]
                        /\ v # u => hand'[v] = hand[v]
    BY <1>1 DEF TypeOK
  <1>3. \A v \in Unit : Same(v)
    BY <1>1, <1>2 DEF Same, Chain, TypeOK
  <1>4. /\ ChainInv'
        /\ \A v \in Unit : /\ Busy(v)' = Busy(v) /\ Finished(v)' = Finished(v)
                           /\ Unfinished(v)' = Unfinished(v)
    BY <1>2, <1>3, AllSame DEF RunInv, ChainInv
  <1>5. PortInv'
    BY <1>1, PortStays DEF RunInv
  <1>6. StartedInv' /\ started'[u] \in 0 .. Limit
    <2>1. started \in [Unit -> Nat] /\ Limit \in Nat
      BY Names DEF TypeOK
    <2> QED BY <1>1, <1>2, <1>4, <2>1 DEF RunInv, StartedInv
  <1>7. BackInv'
    BY <1>1, <1>2, <1>4 DEF RunInv, BackInv
  <1>8. WorkInv'
    BY <1>1, <1>4 DEF RunInv, WorkInv, Backlog
  <1> QED BY <1>4, <1>5, <1>6, <1>7, <1>8 DEF RunInv, SameEnd

LEMMA TakeDummyKeeps ==
  ASSUME TypeOK, RunInv, NEW u \in Unit, TakeDummy(u)
  PROVE  RunInv' /\ SameEnd
  <1>1. /\ port[u] # <<>> /\ Head(port[u]) = Dummy /\ port' = [port EXCEPT ![u] = Tail(@)]
        /\ port \in [Unit -> Seq(Message)]
        /\ handler[u] = "loop" /\ handler' = [handler EXCEPT ![u] = "scan"]
        /\ back_pipe' = [back_pipe EXCEPT ![u] = 0]
        /\ UNCHANGED <<status, hand, queue, started, unit_pipe, thread, work, reset_state>>
    BY DEF TakeDummy, GetMsg, threads, reset, TypeOK, Message
  <1>2. \A v \in Unit : /\ handler'[v] = IF v = u THEN "scan" ELSE handler[v]
                        /\ back_pipe'[v] = IF v = u THEN 0 ELSE back_pipe[v]
    BY <1>1 DEF TypeOK
  <1>3. \A v \in Unit : Same(v)
    BY <1>1, <1>2 DEF Same, Chain
  <1>4. /\ ChainInv'
        /\ \A v \in Unit : /\ Busy(v)' = Busy(v) /\ Finished(v)' = Finished(v)
                           /\ Unfinished(v)' = Unfinished(v)
    BY <1>1, <1>2, <1>3, AllSame DEF RunInv, ChainInv
  <1>5. PortInv'
    BY <1>1, PortTake DEF RunInv
  <1>6. StartedInv'
    BY <1>1, <1>2, <1>4 DEF RunInv, StartedInv
  <1>7. BackInv'
    <2>1. Cardinality(Finished(u)) \in Nat
      BY ChainFacts DEF RunInv
    <2> QED BY <1>1, <1>2, <1>4, <2>1 DEF RunInv, BackInv
  <1>8. WorkInv'
    BY <1>1, <1>4 DEF RunInv, WorkInv, Backlog
  <1> QED BY <1>4, <1>5, <1>6, <1>7, <1>8 DEF RunInv, SameEnd

\* What is replied to leaves the chain, which goes on as it did.
LEMMA ScanKeeps ==
  ASSUME TypeOK, RunInv, NEW u \in Unit, Scan(u)
  PROVE  /\ RunInv' /\ started'[u] \in 0 .. Limit /\ queue'[u] \in Seq(Packet)
         /\ Finished(u)' = {} /\ \A v \in Unit : v # u => Finished(v)' = Finished(v)
  <1> DEFINE R == Replied(u)
  <1>1. /\ handler[u] = "scan" /\ handler' = [handler EXCEPT ![u] = "loop"]
        /\ status' = [p \in Packet |-> IF p \in R THEN "client" ELSE status[p]]
        /\ queue' = [queue EXCEPT ![u] = Kept(@, Packet \ R)]
        /\ started' = [started EXCEPT ![u] = @ - Cardinality(R)]
        /\ UNCHANGED <<port, hand, unit_pipe, back_pipe, thread, work, reset_state>>
    BY DEF Scan, pipes, threads, reset
  <1>2. Chain(u) = queue[u] /\ R = Finished(u)
    BY <1>1 DEF Chain, Replied, Finished, Done
  <1> HIDE DEF R
  <1>3. \A v \in Unit : /\ handler'[v] = IF v = u THEN "loop" ELSE handler[v]
                        /\ started'[v] = IF v = u THEN started[u] - Cardinality(R) ELSE started[v]
                        /\ queue'[v] = IF v = u THEN Kept(queue[u], Packet \ R) ELSE queue[v]
    BY <1>1 DEF TypeOK
  <1>4. \A v \in Unit : /\ Chain(v) \in Seq(Packet) /\ IsInjective(Chain(v))
                        /\ ToSet(Chain(v)) \subseteq Packet
    BY ChainFacts DEF RunInv
  <1>5. /\ R \subseteq Busy(u) /\ R \subseteq Packet
        /\ IsFiniteSet(Busy(u)) /\ IsFiniteSet(R) /\ Cardinality(Busy(u)) \in Nat
        /\ Cardinality(R) \in Nat /\ Cardinality(R) <= Cardinality(Busy(u))
    BY <1>2, <1>4, ChainFacts DEF RunInv, Finished
  <1>6. \A p \in Packet : status'[p] = IF p \in R THEN "client" ELSE status[p]
    BY <1>1
  <1>7. \A v \in Unit : v # u => Same(v)
    <2>1. \A v \in Unit : v # u => ToSet(Chain(v)) \cap R = {}
      BY <1>2 DEF RunInv, ChainInv, Finished
    <2>2. \A v \in Unit : v # u => Chain(v)' = Chain(v)
      BY <1>1, <1>3 DEF Chain
    <2>3. ASSUME NEW v \in Unit, v # u, NEW p \in ToSet(Chain(v)) PROVE status'[p] = status[p]
      <3>1. p \in Packet /\ p \notin R
        BY <1>4, <2>1, <2>3
      <3> QED BY <1>6, <3>1
    <2> QED BY <2>2, <2>3 DEF Same
  <1>8. /\ Chain(u)' = Kept(Chain(u), Packet \ R) /\ Chain(u)' \in Seq(Packet)
        /\ IsInjective(Chain(u)') /\ ToSet(Chain(u)') = ToSet(Chain(u)) \ R
    <2>1. Chain(u)' = Kept(Chain(u), Packet \ R)
      BY <1>2, <1>3 DEF Chain
    <2>2. /\ Kept(Chain(u), Packet \ R) \in Seq(Packet)
          /\ IsInjective(Kept(Chain(u), Packet \ R))
          /\ ToSet(Kept(Chain(u), Packet \ R)) = ToSet(Chain(u)) \cap (Packet \ R)
      BY <1>4, KeptType, KeptInjective, KeptSet
    <2> QED BY <1>4, <2>1, <2>2
  <1>9. Busy(u)' = Busy(u) \ R /\ Finished(u)' = {}
    BY <1>2, <1>4, <1>6, <1>8 DEF Busy, Finished
  <1>10. Unfinished(u)' = Unfinished(u)
    <2>1. Handed' = Handed /\ (Packet \ R) \cap Handed = Handed
      BY <1>2, <1>6 DEF Handed, Finished
    <2>2. Kept(Kept(Chain(u), Packet \ R), Handed) = Kept(Chain(u), Handed)
      BY <1>4, <2>1, KeptTwice
    <2> QED BY <1>8, <2>1, <2>2 DEF Unfinished
  <1>11. \A v \in Unit : v # u => /\ Busy(v)' = Busy(v) /\ Finished(v)' = Finished(v)
                                  /\ Unfinished(v)' = Unfinished(v)
    BY <1>7, SameFacts DEF RunInv
  <1>12. ChainInv'
    <2>1. ASSUME NEW v \in Unit
          PROVE  /\ handler'[v] = "enqueue" => hand'[v] \in Packet
                 /\ IsInjective(Chain(v)')
                 /\ \A q \in ToSet(Chain(v)') : status'[q] \in {"handed", "aside", "done"}
      <3>1. CASE v = u
        BY <1>3, <1>4, <1>6, <1>8, <3>1 DEF RunInv, ChainInv
      <3>2. CASE v # u
        BY <1>1, <1>3, <1>7, <3>2 DEF RunInv, ChainInv, Same
      <3> QED BY <3>1, <3>2
    <2>2. ASSUME NEW v \in Unit, NEW w \in Unit, v # w
          PROVE  ToSet(Chain(v)') \cap ToSet(Chain(w)') = {}
      <3>1. ToSet(Chain(v)) \cap ToSet(Chain(w)) = {}
        BY <2>2 DEF RunInv, ChainInv
      <3>2. \A x \in Unit : ToSet(Chain(x)') \subseteq ToSet(Chain(x))
        BY <1>7, <1>8 DEF Same
      <3> QED BY <3>1, <3>2
    <2> QED BY <2>1, <2>2 DEF ChainInv
  <1>13. PortInv'
    <2>1. \A p \in Packet : status[p] = "sent" => status'[p] = "sent"
      BY <1>2, <1>6 DEF Finished
    <2> QED BY <1>1, <2>1, PortStays DEF RunInv
  <1>14. StartedInv' /\ started'[u] \in 0 .. Limit
    <2>1. /\ Cardinality(Busy(u)') = Cardinality(Busy(u)) - Cardinality(R)
          /\ started[u] = Cardinality(Busy(u)) /\ Limit \in Nat
          /\ Cardinality(Busy(u)) <= Limit
      <3>1. Busy(u) \cap R = R
        BY <1>5
      <3>2. Cardinality(Busy(u) \ R) = Cardinality(Busy(u)) - Cardinality(R)
        BY <1>5, <3>1, FS_Difference
      <3>3. started[u] \in Nat
        BY Names DEF TypeOK
      <3> QED BY <1>1, <1>9, <3>2, <3>3, Names DEF RunInv, StartedInv
    <2>2. started'[u] = Cardinality(Busy(u)') /\ started'[u] \in 0 .. Limit
      BY <1>3, <1>5, <2>1
    <2>3. ASSUME NEW v \in Unit
          PROVE  /\ Cardinality(Busy(v)') = started'[v] + (IF handler'[v] = "enqueue" THEN 1 ELSE 0)
                 /\ Cardinality(Busy(v)') <= Limit
      <3>1. CASE v = u
        BY <1>3, <2>1, <2>2, <3>1
      <3>2. CASE v # u
        BY <1>3, <1>11, <3>2 DEF RunInv, StartedInv
      <3> QED BY <3>1, <3>2
    <2> QED BY <2>2, <2>3 DEF StartedInv
  <1>15. BackInv'
    <2>1. Cardinality(Finished(u)') = 0
      BY <1>9, FS_EmptySet
    <2>2. /\ Cardinality(Finished(u)) <= Limit /\ Limit \in Nat
          /\ Cardinality(Finished(u)) \in Nat /\ back_pipe[u] \in Nat
      BY <1>2, <1>5, Names DEF RunInv, StartedInv, TypeOK
    <2>3. ASSUME NEW v \in Unit
          PROVE  back_pipe'[v] + (IF thread'[v] = "back" THEN 1 ELSE 0)
                   <= (IF handler'[v] = "scan" THEN 1 ELSE Limit + 1) + Cardinality(Finished(v)')
      <3>1. CASE v = u
        BY <1>1, <1>3, <2>1, <2>2, <3>1 DEF RunInv, BackInv
      <3>2. CASE v # u
        BY <1>1, <1>3, <1>11, <3>2 DEF RunInv, BackInv
      <3> QED BY <3>1, <3>2
    <2> QED BY <2>3 DEF BackInv
  <1>16. WorkInv'
    BY <1>1, <1>10, <1>11 DEF RunInv, WorkInv, Backlog
  <1>17. queue'[u] \in Seq(Packet)
    BY <1>2, <1>3, <1>8
  <1> QED BY <1>9, <1>11, <1>12, <1>13, <1>14, <1>15, <1>16, <1>17 DEF RunInv
-----------------------------------------------------------------------------
(* The unit's thread, and the others.                                      *)

\* The next packet, if there is one, is the next of the chain that is not done.
LEMMA ThreadReadsKeeps ==
  ASSUME TypeOK, RunInv, NEW u \in Unit, ThreadReads(u)
  PROVE  RunInv' /\ SameEnd
  <1> DEFINE p == Head(unit_pipe[u])
  <1>1. /\ unit_pipe[u] \in Seq(Packet) /\ unit_pipe[u] # <<>> /\ thread[u] = "read"
        /\ work[u] = None
    BY DEF RunInv, WorkInv, ThreadReads
  <1>2. /\ p \in Packet /\ p # Death /\ p # None /\ Tail(unit_pipe[u]) \in Seq(Packet)
        /\ unit_pipe[u] = <<p>> \o Tail(unit_pipe[u])
    BY <1>1, HeadTailIs, Names
  <1>3. reset_state[u] # "go_down"
    BY DEF RunInv, WorkInv
  <1> HIDE DEF p
  <1>4. /\ unit_pipe' = [unit_pipe EXCEPT ![u] = Tail(@)]
        /\ thread' = [thread EXCEPT ![u] = "process"]
        /\ work' = [work EXCEPT ![u] = p]
        /\ UNCHANGED <<port, handler, hand, queue, started, status, back_pipe, reset_state>>
    BY <1>2, <1>3 DEF ThreadReads, amiga, reset, p
  <1>5. \A v \in Unit : /\ unit_pipe'[v] = IF v = u THEN Tail(unit_pipe[u]) ELSE unit_pipe[v]
                        /\ thread'[v] = IF v = u THEN "process" ELSE thread[v]
                        /\ work'[v] = IF v = u THEN p ELSE work[v]
    BY <1>4 DEF TypeOK
  <1>6. \A v \in Unit : Same(v)
    BY <1>4 DEF Same, Chain
  <1>7. /\ ChainInv'
        /\ \A v \in Unit : /\ Busy(v)' = Busy(v) /\ Finished(v)' = Finished(v)
                           /\ Unfinished(v)' = Unfinished(v)
    BY <1>4, <1>6, AllSame DEF RunInv, ChainInv
  <1>8. PortInv' /\ StartedInv' /\ BackInv'
    BY <1>1, <1>4, <1>5, <1>7, PortStays DEF RunInv, StartedInv, BackInv
  <1>9. \A v \in Unit : Backlog(v)' = Backlog(v)
    BY <1>1, <1>2, <1>5 DEF Backlog
  <1>10. WorkInv'
    BY <1>2, <1>4, <1>5, <1>7, <1>9 DEF RunInv, WorkInv
  <1> QED BY <1>7, <1>8, <1>10 DEF RunInv, SameEnd

\* The packet that is done is the chain's oldest unfinished one.
LEMMA MarksKeeps ==
  ASSUME TypeOK, RunInv, NEW u \in Unit, Marks(u)
  PROVE  /\ RunInv' /\ Cardinality(Finished(u)') = Cardinality(Finished(u)) + 1
         /\ \A v \in Unit : v # u => Finished(v)' = Finished(v)
  <1> DEFINE w == work[u]
  <1>1. /\ thread[u] = "mark" /\ thread' = [thread EXCEPT ![u] = "back"]
        /\ status' = [status EXCEPT ![w] = "done"]
        /\ work' = [work EXCEPT ![u] = None]
        /\ UNCHANGED <<port, handler, hand, queue, started, unit_pipe, back_pipe, reset_state>>
    BY DEF Marks, ThreadGoes, amiga, pipes, reset
  <1>2. /\ w \in Packet /\ unit_pipe[u] \in Seq(Packet)
        /\ Unfinished(u) = <<w>> \o unit_pipe[u]
    BY <1>1 DEF RunInv, WorkInv, Backlog, TypeOK
  <1> HIDE DEF w
  <1>3. \A v \in Unit : /\ Chain(v) \in Seq(Packet) /\ IsInjective(Chain(v))
                        /\ ToSet(Chain(v)) \subseteq Packet /\ Chain(v)' = Chain(v)
                        /\ Cardinality(Finished(v)) \in Nat /\ IsFiniteSet(Finished(v))
    BY <1>1, ChainFacts DEF RunInv, Chain
  <1>4. /\ w \in ToSet(Chain(u)) /\ w \in Handed
        /\ Reverse(Kept(Chain(u), Handed \ {w})) = unit_pipe[u]
    <2>1. Reverse(Kept(Chain(u), Handed)) = <<w>> \o unit_pipe[u]
      BY <1>2 DEF Unfinished
    <2>2. /\ Chain(u) \in Seq(Packet) /\ IsInjective(Chain(u))
          /\ w \in Packet /\ unit_pipe[u] \in Seq(Packet)
      BY <1>2, <1>3
    <2>3. /\ w \in ToSet(Chain(u)) \cap Handed
          /\ Reverse(Kept(Chain(u), Handed \ {w})) = unit_pipe[u]
      BY <2>1, <2>2, KeptButLast
    <2> QED BY <2>3
  <1>5. \A q \in Packet : status'[q] = IF q = w THEN "done" ELSE status[q]
    BY <1>1 DEF TypeOK
  <1>6. status[w] = "handed" /\ Handed' = Handed \ {w}
    BY <1>4, <1>5 DEF Handed
  <1>7. \A v \in Unit : /\ thread'[v] = IF v = u THEN "back" ELSE thread[v]
                        /\ work'[v] = IF v = u THEN None ELSE work[v]
    BY <1>1 DEF TypeOK
  <1>8. ASSUME NEW v \in Unit, v # u PROVE Same(v)
    <2>1. w \notin ToSet(Chain(v))
      BY <1>4, <1>8 DEF RunInv, ChainInv
    <2> QED BY <1>3, <1>5, <2>1 DEF Same
  <1>9. \A v \in Unit : v # u => /\ Busy(v)' = Busy(v) /\ Finished(v)' = Finished(v)
                                 /\ Unfinished(v)' = Unfinished(v)
    BY <1>8, SameFacts DEF RunInv
  <1>10. /\ Busy(u)' = Busy(u) /\ Finished(u)' = Finished(u) \cup {w}
         /\ w \notin Finished(u) /\ Unfinished(u)' = unit_pipe[u]
    <2>1. Busy(u)' = Busy(u) /\ Finished(u)' = Finished(u) \cup {w} /\ w \notin Finished(u)
      BY <1>3, <1>4, <1>5, <1>6 DEF Busy, Finished
    <2> QED BY <1>3, <1>4, <1>6, <2>1 DEF Unfinished
  <1>11. ChainInv'
    <2>1. ASSUME NEW v \in Unit, NEW q \in ToSet(Chain(v))
          PROVE  status'[q] \in {"handed", "aside", "done"}
      BY <1>3, <1>5 DEF RunInv, ChainInv
    <2> QED BY <1>1, <1>3, <2>1 DEF RunInv, ChainInv
  <1>12. PortInv'
    <2>1. \A q \in Packet : status[q] = "sent" => status'[q] = "sent"
      BY <1>5, <1>6
    <2> QED BY <1>1, <2>1, PortStays DEF RunInv
  <1>13. StartedInv'
    BY <1>1, <1>9, <1>10 DEF RunInv, StartedInv
  <1>14. Cardinality(Finished(u)') = Cardinality(Finished(u)) + 1
    BY <1>3, <1>10, FS_AddElement
  <1>15. BackInv'
    <2>1. Cardinality(Finished(u)') = Cardinality(Finished(u)) + 1
      BY <1>14
    <2>2. back_pipe[u] \in Nat /\ Cardinality(Finished(u)) \in Nat /\ Limit \in Nat
      BY <1>3, Names DEF TypeOK
    <2>3. ASSUME NEW v \in Unit
          PROVE  back_pipe'[v] + (IF thread'[v] = "back" THEN 1 ELSE 0)
                   <= (IF handler'[v] = "scan" THEN 1 ELSE Limit + 1) + Cardinality(Finished(v)')
      <3>1. back_pipe[v] + (IF thread[v] = "back" THEN 1 ELSE 0)
              <= (IF handler[v] = "scan" THEN 1 ELSE Limit + 1) + Cardinality(Finished(v))
        BY DEF RunInv, BackInv
      <3>2. CASE v = u
        BY <1>1, <1>7, <2>1, <2>2, <3>1, <3>2
      <3>3. CASE v # u
        BY <1>1, <1>7, <1>9, <3>1, <3>3
      <3> QED BY <3>2, <3>3
    <2> QED BY <2>3 DEF BackInv
  <1>16. WorkInv'
    <2>1. Backlog(u)' = unit_pipe[u]
      BY <1>1, <1>7 DEF Backlog
    <2>2. \A v \in Unit : v # u => Backlog(v)' = Backlog(v)
      BY <1>1, <1>7 DEF Backlog
    <2> QED BY <1>1, <1>7, <1>9, <1>10, <2>1, <2>2 DEF RunInv, WorkInv
  <1> QED BY <1>9, <1>11, <1>12, <1>13, <1>14, <1>15, <1>16 DEF RunInv

\* Steps that change nothing of the packets but, perhaps, where the thread is.
LEMMA ThreadKeeps ==
  ASSUME TypeOK, RunInv, UNCHANGED <<port, handler, hand, queue, started, status, unit_pipe,
                                     work, reset_state>>,
         \/ UNCHANGED <<thread, back_pipe>>
         \/ \E u \in Unit : Sends(u) \/ SendsBack(u) \/ Requests(u)
  PROVE  RunInv' /\ SameEnd
  <1>1. \A v \in Unit : Same(v)
    BY DEF Same, Chain
  <1>2. /\ ChainInv'
        /\ \A v \in Unit : /\ Busy(v)' = Busy(v) /\ Finished(v)' = Finished(v)
                           /\ Unfinished(v)' = Unfinished(v) /\ Backlog(v)' = Backlog(v)
    BY <1>1, AllSame DEF RunInv, ChainInv, Backlog
  <1>3. PortInv' /\ StartedInv'
    BY <1>2, PortStays DEF RunInv, StartedInv
  <1>4. ASSUME NEW v \in Unit
        PROVE  /\ thread'[v] # "dead" /\ back_pipe'[v] \in Nat
               /\ thread'[v] \in {"process", "mark"} <=> thread[v] \in {"process", "mark"}
               /\ back_pipe'[v] + (IF thread'[v] = "back" THEN 1 ELSE 0)
                    <= back_pipe[v] + (IF thread[v] = "back" THEN 1 ELSE 0)
    <2>1. thread[v] # "dead" /\ back_pipe[v] \in Nat
      BY DEF RunInv, WorkInv, TypeOK
    <2>2. CASE UNCHANGED <<thread[v], back_pipe[v]>>
      BY <2>1, <2>2
    <2>3. CASE /\ thread[v] = "process" /\ thread'[v] = "mark"
               /\ back_pipe'[v] = back_pipe[v]
      BY <2>1, <2>3
    <2>4. CASE /\ thread[v] = "back" /\ thread'[v] = "request"
               /\ back_pipe'[v] = back_pipe[v] + 1
      BY <2>1, <2>4
    <2>5. CASE /\ thread[v] = "request" /\ thread'[v] = "read"
               /\ back_pipe'[v] = back_pipe[v]
      BY <2>1, <2>5
    <2>6. CASE \E u \in Unit : Sends(u) \/ SendsBack(u) \/ Requests(u)
      <3>1. PICK u \in Unit : Sends(u) \/ SendsBack(u) \/ Requests(u)
        BY <2>6
      <3>2. CASE u # v
        <4> SUFFICES UNCHANGED <<thread[v], back_pipe[v]>>
          BY <2>2
        <4>1. CASE Sends(u)
          BY <3>2, <4>1 DEF Sends, ThreadGoes, pipes, TypeOK
        <4>2. CASE SendsBack(u)
          BY <3>2, <4>2 DEF SendsBack, ThreadGoes, TypeOK
        <4>3. CASE Requests(u)
          BY <3>2, <4>3 DEF Requests, ThreadGoes, pipes, TypeOK
        <4> QED BY <3>1, <4>1, <4>2, <4>3
      <3>3. CASE u = v /\ Sends(u)
        BY <2>3, <3>3 DEF Sends, ThreadGoes, pipes, TypeOK
      <3>4. CASE u = v /\ SendsBack(u)
        BY <2>4, <3>4 DEF SendsBack, ThreadGoes, TypeOK
      <3>5. CASE u = v /\ Requests(u)
        BY <2>5, <3>5 DEF Requests, ThreadGoes, pipes, TypeOK
      <3> QED BY <3>1, <3>2, <3>3, <3>4, <3>5
    <2>7. CASE UNCHANGED <<thread, back_pipe>>
      BY <2>2, <2>7
    <2> QED BY <2>6, <2>7
  <1>5. BackInv'
    <2>1. ASSUME NEW v \in Unit
          PROVE  back_pipe'[v] + (IF thread'[v] = "back" THEN 1 ELSE 0)
                   <= (IF handler'[v] = "scan" THEN 1 ELSE Limit + 1) + Cardinality(Finished(v)')
      <3>1. back_pipe[v] + (IF thread[v] = "back" THEN 1 ELSE 0)
              <= (IF handler[v] = "scan" THEN 1 ELSE Limit + 1) + Cardinality(Finished(v))
        BY DEF RunInv, BackInv
      <3>2. /\ back_pipe[v] \in Nat /\ back_pipe'[v] \in Nat /\ Limit \in Nat
            /\ Cardinality(Finished(v)) \in Nat
        BY <1>4, ChainFacts, Names DEF RunInv, TypeOK
      <3> QED BY <1>2, <1>4, <3>1, <3>2
    <2> QED BY <2>1 DEF BackInv
  <1>6. WorkInv'
    BY <1>2, <1>4 DEF RunInv, WorkInv
  <1> QED BY <1>2, <1>3, <1>5, <1>6 DEF RunInv, SameEnd

\* A client's packet, or the dummy message, goes into a port.
LEMMA PutKeeps ==
  ASSUME TypeOK, RunInv, NEW u \in Unit, NEW m \in Message,
         port' = [port EXCEPT ![u] = Append(@, m)],
         IF m = Dummy THEN status' = status
         ELSE status[m] = "client" /\ status' = [status EXCEPT ![m] = "sent"],
         UNCHANGED <<handler, hand, queue, started, unit_pipe, back_pipe, thread, work,
                     reset_state>>
  PROVE  RunInv' /\ SameEnd
  <1>1. Dummy \notin Packet /\ (m # Dummy => m \in Packet)
    BY Names DEF Message
  <1>2. \A q \in Packet : status'[q] = IF q = m THEN "sent" ELSE status[q]
    BY <1>1 DEF TypeOK
  <1>3. PortInv'
    <2>1. port \in [Unit -> Seq(Message)]
      BY DEF TypeOK, Message
    <2> QED BY <1>1, <1>2, <2>1, PortPut DEF RunInv
  <1>4. ASSUME NEW v \in Unit PROVE Same(v)
    <2>1. \A q \in ToSet(Chain(v)) : q \in Packet /\ q # m
      BY <1>1, ChainFacts DEF RunInv, ChainInv
    <2> QED BY <1>2, <2>1 DEF Same, Chain
  <1>5. /\ ChainInv'
        /\ \A v \in Unit : /\ Busy(v)' = Busy(v) /\ Finished(v)' = Finished(v)
                           /\ Unfinished(v)' = Unfinished(v) /\ Backlog(v)' = Backlog(v)
    BY <1>4, AllSame DEF RunInv, ChainInv, Backlog
  <1>6. StartedInv' /\ BackInv' /\ WorkInv'
    BY <1>5 DEF RunInv, StartedInv, BackInv, WorkInv
  <1> QED BY <1>3, <1>5, <1>6 DEF RunInv, SameEnd

\* The Amiga starts without packets.
Started == /\ port = [u \in Unit |-> <<>>] /\ handler = [u \in Unit |-> "loop"]
           /\ queue = [u \in Unit |-> <<>>] /\ started = [u \in Unit |-> 0]
           /\ unit_pipe = [u \in Unit |-> <<>>] /\ back_pipe = [u \in Unit |-> 0]
           /\ thread = [u \in Unit |-> "read"] /\ work = [u \in Unit |-> None]
           /\ reset_state = [u \in Unit |-> "startup"]

LEMMA Starts == Started => RunInv
  <1> SUFFICES ASSUME Started PROVE RunInv
    OBVIOUS
  <1>1. /\ <<>> \in Seq(Packet) /\ Len(<<>>) = 0 /\ ToSet(<<>>) = {} /\ IsInjective(<<>>)
    BY EmptySeq DEF ToSet, IsInjective
  <1>2. \A u \in Unit : Chain(u) = <<>>
    BY DEF Started, Chain
  <1>3. \A u \in Unit : Busy(u) = {} /\ Finished(u) = {}
    BY <1>1, <1>2 DEF Busy, Finished
  <1>4. Cardinality({}) = 0 /\ Limit \in Nat
    BY FS_EmptySet, Names
  <1>5. \A u \in Unit : Unfinished(u) = <<>>
    <2>1. Kept(<<>>, Handed) = <<>>
      BY KeptEmpty
    <2>2. Reverse(<<>>) \in Seq(Packet) /\ Len(Reverse(<<>>)) = 0
      BY <1>1, ReverseLen
    <2>3. Reverse(<<>>) = <<>>
      BY <2>2, EmptySeq
    <2> QED BY <1>2, <2>1, <2>3 DEF Unfinished
  <1>6. PortInv
    BY <1>1 DEF Started, PortInv
  <1>7. ChainInv
    BY <1>1, <1>2 DEF Started, ChainInv
  <1>8. StartedInv
    <2>1. ASSUME NEW u \in Unit
          PROVE  /\ started[u] = 0 /\ handler[u] # "enqueue" /\ Cardinality(Busy(u)) = 0
      BY <1>3, <1>4 DEF Started
    <2> QED BY <1>4, <2>1 DEF StartedInv
  <1>9. BackInv
    <2>1. ASSUME NEW u \in Unit
          PROVE  /\ back_pipe[u] = 0 /\ thread[u] # "back" /\ handler[u] # "scan"
                 /\ Cardinality(Finished(u)) = 0
      BY <1>3, <1>4 DEF Started
    <2> QED BY <1>4, <2>1 DEF BackInv
  <1>10. WorkInv
    BY <1>1, <1>5 DEF Started, WorkInv, Backlog
  <1> QED BY <1>6, <1>7, <1>8, <1>9, <1>10 DEF RunInv
-----------------------------------------------------------------------------
(* The types, and the invariant of the packets.                            *)

LEMMA Empties ==
  /\ <<>> \in Seq(Message) /\ <<>> \in Seq(Packet) /\ <<>> \in Seq(Packet \cup {Death})
  BY EmptySeq

LEMMA HandlerTypes ==
  ASSUME TypeOK, RunInv, NEW u \in Unit, HandlerTask(u)
  PROVE  TypeOK'
  <1> DEFINE p == Head(port[u])
  <1>1. port \in [Unit -> Seq(Message)] /\ queue \in [Unit -> Seq(Packet)]
    BY DEF TypeOK, Message
  <1>2. GetMsg(u) => /\ port' \in [Unit -> Seq(Message)]
                     /\ p # Dummy => p \in Packet
    <2> SUFFICES ASSUME GetMsg(u)
                 PROVE  port' \in [Unit -> Seq(Message)] /\ (p # Dummy => p \in Packet)
      OBVIOUS
    <2>1. port[u] # <<>> /\ port' = [port EXCEPT ![u] = Tail(@)]
      BY DEF GetMsg
    <2>2. Tail(port[u]) \in Seq(Message)
      BY <1>1, <2>1, HeadTailIs
    <2> QED BY <1>1, <2>1, <2>2, Received DEF RunInv
  <1> HIDE DEF p
  <1>3. CASE DoCommand(u)
    <2>1. p \in Packet /\ port' \in [Unit -> Seq(Message)]
      BY <1>2, <1>3 DEF DoCommand, p
    <2>2. Append(unit_pipe[u], p) \in Seq(Packet \cup {Death})
      BY <2>1, AppendProperties DEF TypeOK
    <2> QED BY <1>3, <2>1, <2>2 DEF DoCommand, TypeOK, Message, p, threads, cmds, interrupt, reset
  <1>4. CASE Enqueue(u)
    <2>1. hand[u] \in Packet /\ started'[u] \in 0 .. Limit
      BY <1>4, EnqueueKeeps DEF RunInv, ChainInv, Enqueue
    <2>2. <<hand[u]>> \o queue[u] \in Seq(Packet)
      BY <1>1, <2>1, PrependSet
    <2>3. started' = [started EXCEPT ![u] = started'[u]]
      BY <1>4 DEF Enqueue, TypeOK
    <2>4. started' \in [Unit -> 0 .. Limit]
      BY <2>1, <2>3 DEF TypeOK
    <2> QED BY <1>4, <2>2, <2>4 DEF Enqueue, TypeOK, pipes, threads, cmds, interrupt, reset
  <1>5. CASE SetAside(u)
    <2>1. p \in Packet /\ port' \in [Unit -> Seq(Message)]
      BY <1>2, <1>5 DEF SetAside, p
    <2>2. <<p>> \o queue[u] \in Seq(Packet)
      BY <1>1, <2>1, PrependSet
    <2> QED BY <1>5, <2>1, <2>2
            DEF SetAside, TypeOK, Message, p, pipes, threads, cmds, interrupt, reset
  <1>6. CASE TakeDummy(u)
    BY <1>2, <1>6 DEF TakeDummy, TypeOK, Message, threads, interrupt, reset
  <1>8. CASE Refuse(u)
    <2>1. p \in Packet /\ port' \in [Unit -> Seq(Message)]
      BY <1>2, <1>8 DEF Refuse, p
    <2> QED BY <1>8, <2>1 DEF Refuse, TypeOK, Message, p, pipes, threads, cmds, interrupt, reset
  <1>7. CASE Scan(u)
    <2>1. started'[u] \in 0 .. Limit /\ queue'[u] \in Seq(Packet)
      BY <1>7, ScanKeeps
    <2>2. started' = [started EXCEPT ![u] = started'[u]] /\ queue' = [queue EXCEPT ![u] = queue'[u]]
      BY <1>7 DEF Scan, TypeOK
    <2>3. started' \in [Unit -> 0 .. Limit] /\ queue' \in [Unit -> Seq(Packet)]
      BY <2>1, <2>2 DEF TypeOK
    <2> QED BY <1>7, <2>3 DEF Scan, TypeOK, pipes, threads, cmds, interrupt, reset
  <1> QED BY <1>3, <1>4, <1>5, <1>6, <1>7, <1>8 DEF HandlerTask

LEMMA ThreadTypes ==
  ASSUME TypeOK, NEW u \in Unit, UnitThread(u)
  PROVE  TypeOK'
  <1>1. CASE ThreadReads(u)
    <2> DEFINE p == Head(unit_pipe[u])
    <2>1. unit_pipe[u] \in Seq(Packet \cup {Death}) /\ unit_pipe[u] # <<>>
      BY <1>1 DEF ThreadReads, TypeOK
    <2>2. Tail(unit_pipe[u]) \in Seq(Packet \cup {Death}) /\ p \in Packet \cup {Death}
      BY <2>1, HeadTailIs
    <2> HIDE DEF p
    <2>3. PICK place \in {"dead", "read", "process"} :
            /\ place = "process" => p # Death
            /\ unit_pipe' = [unit_pipe EXCEPT ![u] = Tail(@)]
            /\ thread' = [thread EXCEPT ![u] = place]
            /\ work' = [work EXCEPT ![u] = IF place = "process" THEN p ELSE None]
      <3>1. CASE p = Death
        BY <1>1, <3>1 DEF ThreadReads, p
      <3>2. CASE p # Death /\ reset_state[u] = "go_down"
        BY <1>1, <3>2 DEF ThreadReads, p
      <3>3. CASE p # Death /\ reset_state[u] # "go_down"
        BY <1>1, <3>3 DEF ThreadReads, p
      <3> QED BY <3>1, <3>2, <3>3
    <2>4. /\ unit_pipe' \in [Unit -> Seq(Packet \cup {Death})]
          /\ thread' \in [Unit -> {"read", "process", "mark", "back", "request", "dead"}]
          /\ work' \in [Unit -> Packet \cup {None}]
      BY <2>2, <2>3 DEF TypeOK
    <2> QED BY <1>1, <2>4 DEF ThreadReads, TypeOK, amiga, cmds, interrupt, reset
  <1>2. CASE Sends(u)
    <2>1. Inc(cmds_sent[u]) \in 0 .. Wrap - 1
      BY IncIs DEF TypeOK
    <2> QED BY <1>2, <2>1 DEF Sends, ThreadGoes, TypeOK, amiga, pipes, interrupt, reset
  <1>3. CASE Marks(u)
    <2>1. /\ status' \in [Packet -> {"client", "sent", "handed", "aside", "done"}]
          /\ work' \in [Unit -> Packet \cup {None}]
          /\ thread' \in [Unit -> {"read", "process", "mark", "back", "request", "dead"}]
      BY <1>3 DEF Marks, ThreadGoes, TypeOK
    <2> QED BY <1>3, <2>1 DEF Marks, TypeOK, amiga, pipes, cmds, interrupt, reset
  <1>4. CASE SendsBack(u)
    <2>1. /\ back_pipe' \in [Unit -> Nat]
          /\ thread' \in [Unit -> {"read", "process", "mark", "back", "request", "dead"}]
      BY <1>4 DEF SendsBack, ThreadGoes, TypeOK
    <2> QED BY <1>4, <2>1 DEF SendsBack, TypeOK, amiga, cmds, interrupt, reset
  <1>5. CASE Requests(u)
    BY <1>5 DEF Requests, ThreadGoes, TypeOK, amiga, pipes, cmds, reset
  <1> QED BY <1>1, <1>2, <1>3, <1>4, <1>5 DEF UnitThread

LEMMA FindWorkTypes ==
  ASSUME TypeOK, NEW n \in 1 .. Units + 1, FindWork(n)
  PROVE  /\ cmds_acked' \in [Unit -> 0 .. Wrap - 1] /\ unit_no' \in 1 .. Units + 1
         /\ exter' \in {"put", "wait"} /\ singlethread_int_sem' \in {0, 1}
  <1>1. Units \in Nat \ {0}
    BY Names
  <1>2. CASE \A u \in n .. Units : ~Sendable(u)
    <2>1. /\ unit_no' = Units + 1 /\ exter' = "wait" /\ singlethread_int_sem' = 1
          /\ cmds_acked' = cmds_acked
      BY <1>2 DEF FindWork
    <2> QED BY <1>1, <2>1 DEF TypeOK
  <1>3. ASSUME NEW u \in n .. Units, Sendable(u),
               cmds_acked' = [cmds_acked EXCEPT ![u] = cmds_sent[u]],
               unit_no' = u + 1, exter' = "put", singlethread_int_sem' = 0
        PROVE  /\ cmds_acked' \in [Unit -> 0 .. Wrap - 1] /\ unit_no' \in 1 .. Units + 1
               /\ exter' \in {"put", "wait"} /\ singlethread_int_sem' \in {0, 1}
    <2>1. u \in Unit /\ u + 1 \in 1 .. Units + 1
      BY <1>1 DEF Unit
    <2>2. cmds_acked' \in [Unit -> 0 .. Wrap - 1]
      BY <1>3, <2>1 DEF TypeOK
    <2> QED BY <1>3, <2>1, <2>2
  <1> QED BY <1>2, <1>3 DEF FindWork

LEMMA OtherTypes ==
  ASSUME TypeOK, IInv, ResetInv,
         \/ OtherRequest \/ Server \/ ExterTask \/ Vsync
         \/ ResetBegins \/ ResetGoesOn \/ ResetEnds \/ UNCHANGED vars
  PROVE  TypeOK'
  <1> USE DEF amiga, pipes, threads, cmds, interrupt, reset
  <1>1. CASE OtherRequest \/ Server \/ NotForUs \/ Vsync \/ UNCHANGED vars
    BY <1>1 DEF OtherRequest, Server, NotForUs, Vsync, vars, TypeOK
  <1>2. CASE Helper10 \/ Helper11
    <2>1. \E n \in 1 .. Units + 1 : FindWork(n)
      BY <1>2, Names DEF Helper10, Helper11, TypeOK
    <2>2. /\ cmds_acked' \in [Unit -> 0 .. Wrap - 1] /\ unit_no' \in 1 .. Units + 1
          /\ exter' \in {"put", "wait"} /\ singlethread_int_sem' \in {0, 1}
      BY <2>1, FindWorkTypes
    <2>3. uae_int_requested' = uae_int_requested /\ signalled' \in BOOLEAN
      BY <1>2 DEF Helper10, Helper11, TypeOK
    <2> QED BY <1>2, <2>2, <2>3 DEF Helper10, Helper11, TypeOK
  <1>3. CASE PutsDummy
    <2>1. unit_no - 1 \in Unit
      BY <1>3 DEF PutsDummy, IInv, Types
    <2>2. Append(port[unit_no - 1], Dummy) \in Seq(Packet \cup {Dummy})
      BY <2>1, AppendProperties DEF TypeOK
    <2> QED BY <1>3, <2>1, <2>2 DEF PutsDummy, TypeOK
  <1>4. CASE ResetBegins \/ ResetGoesOn
    <2>1. PICK u \in Unit : Kill(u)
      <3>1. \A u \in Unit : u < Units => u + 1 \in Unit
        BY Names DEF Unit
      <3> QED BY <1>4, <3>1, Names DEF ResetBegins, ResetGoesOn
    <2>2. Append(unit_pipe[u], Death) \in Seq(Packet \cup {Death})
      BY AppendProperties DEF TypeOK
    <2>3. u \in 0 .. Units
      BY Names DEF Unit
    <2> QED BY <2>1, <2>2, <2>3 DEF Kill, TypeOK
  <1>5. CASE ResetEnds
    <2>1. resets' \in 0 .. Resets
      <3>1. ~AmigaRuns
        BY <1>5, Names DEF ResetEnds, Down, AmigaRuns, Unit
      <3> QED BY <1>5, <3>1, Names DEF ResetEnds, ResetInv, TypeOK
    <2>2. UNCHANGED <<unit_no, singlethread_int_sem>>
      BY <1>5 DEF ResetEnds
    <2>3. 0 \in 0 .. Limit /\ 0 \in 0 .. Units /\ 0 \in Nat
      BY Names
    <2> QED BY <1>5, <2>1, <2>2, <2>3, Empties, Names DEF ResetEnds, Boot, TypeOK, Message
  <1> QED BY <1>1, <1>2, <1>3, <1>4, <1>5 DEF ExterTask

LEMMA PacketInit == Init => PacketInv
  <1> SUFFICES ASSUME Init PROVE PacketInv
    OBVIOUS
  <1>1. TypeOK
    <2>1. /\ 0 \in 0 .. Limit /\ 0 \in 0 .. Units /\ 0 \in Nat /\ 0 \in 0 .. Resets
          /\ 1 \in 1 .. Units + 1
      BY Names
    <2> QED BY <2>1, Empties, Names DEF Init, TypeOK, Message
  <1>2. RunInv
    BY Starts DEF Init, Started
  <1>3. ResetInv
    BY DEF Init, ResetInv, AmigaRuns
  <1> QED BY <1>1, <1>2, <1>3 DEF PacketInv

LEMMA PacketNext == PacketInv /\ IInv /\ [Next]_vars => PacketInv'
  <1> SUFFICES ASSUME PacketInv, IInv, [Next]_vars PROVE PacketInv'
    OBVIOUS
  <1>1. TypeOK /\ ResetInv /\ (AmigaRuns => RunInv)
    BY DEF PacketInv
  <1>2. ASSUME NEW u \in Unit, HandlerTask(u) PROVE PacketInv'
    <2>1. AmigaRuns /\ AmigaRuns' /\ RunInv
      BY <1>1, <1>2 DEF HandlerTask, DoCommand, Refuse, Enqueue, SetAside, TakeDummy, Scan,
                        GetMsg, AmigaRuns, reset
    <2>2. RunInv'
      BY <1>1, <1>2, <2>1, DoCommandKeeps, RefuseKeeps, EnqueueKeeps, SetAsideKeeps,
         TakeDummyKeeps, ScanKeeps
         DEF HandlerTask
    <2> QED BY <1>1, <1>2, <2>1, <2>2, HandlerTypes DEF PacketInv, ResetInv
  <1>3. ASSUME NEW u \in Unit, UnitThread(u) PROVE PacketInv'
    <2>1. AmigaRuns' = AmigaRuns /\ resets' = resets
      BY <1>3 DEF UnitThread, ThreadReads, Sends, Marks, SendsBack, Requests, AmigaRuns, reset
    <2>2. ASSUME RunInv PROVE RunInv'
      <3>1. CASE Sends(u) \/ SendsBack(u) \/ Requests(u)
        BY <1>1, <2>2, <3>1, ThreadKeeps
           DEF Sends, SendsBack, Requests, amiga, pipes, reset
      <3> QED BY <1>1, <1>3, <2>2, <3>1, ThreadReadsKeeps, MarksKeeps DEF UnitThread
    <2> QED BY <1>1, <1>3, <2>1, <2>2, ThreadTypes DEF PacketInv, ResetInv
  <1>4. ASSUME NEW p \in Packet, NEW u \in Unit, Send(p, u) PROVE PacketInv'
    <2>1. AmigaRuns /\ AmigaRuns' /\ RunInv
      BY <1>1, <1>4 DEF Send, AmigaRuns, reset
    <2>2. RunInv'
      <3>1. p \in Message /\ p # Dummy
        BY Names DEF Message
      <3> QED BY <1>1, <1>4, <2>1, <3>1, PutKeeps DEF Send, pipes, threads, reset
    <2>3. TypeOK'
      <3>1. Append(port[u], p) \in Seq(Packet \cup {Dummy})
        BY <1>1, AppendProperties DEF TypeOK
      <3> QED BY <1>1, <1>4, <3>1 DEF Send, TypeOK, pipes, threads, cmds, interrupt, reset
    <2> QED BY <2>1, <2>2, <2>3 DEF PacketInv, ResetInv
  <1>5. CASE OtherRequest \/ Server \/ ExterTask \/ Vsync \/ UNCHANGED vars
    <2>1. AmigaRuns' = AmigaRuns /\ resets' = resets
      BY <1>5 DEF OtherRequest, Server, ExterTask, Helper10, NotForUs, PutsDummy, Helper11,
                  Vsync, vars, AmigaRuns, reset
    <2>2. ASSUME RunInv PROVE RunInv'
      <3>1. CASE PutsDummy
        <4>1. unit_no - 1 \in Unit /\ Dummy \in Message
          BY <3>1 DEF PutsDummy, IInv, Types, Message
        <4> QED BY <1>1, <2>2, <3>1, <4>1, PutKeeps DEF PutsDummy, pipes, threads, reset
      <3>2. CASE ~PutsDummy
        BY <1>1, <1>5, <2>2, <3>2, ThreadKeeps
           DEF OtherRequest, Server, ExterTask, Helper10, NotForUs, Helper11, Vsync, vars,
               amiga, pipes, threads, reset
      <3> QED BY <3>1, <3>2
    <2>3. TypeOK'
      BY <1>1, <1>5, OtherTypes
    <2> QED BY <1>1, <2>1, <2>2, <2>3 DEF PacketInv, ResetInv
  <1>6. CASE ResetBegins \/ ResetGoesOn
    <2>1. ~AmigaRuns' /\ resets' < Resets
      <3>1. CASE ResetBegins
        BY <3>1, Names DEF ResetBegins, Kill, AmigaRuns
      <3>2. CASE ResetGoesOn
        <4>1. PICK u \in Unit : going_down = u /\ Kill(u + 1)
          BY <3>2 DEF ResetGoesOn, Down
        <4>2. u \in Nat \ {0}
          BY Names DEF Unit
        <4> QED BY <1>1, <4>1, <4>2 DEF Kill, AmigaRuns, ResetInv
      <3> QED BY <1>6, <3>1, <3>2
    <2>2. TypeOK'
      BY <1>1, <1>6, OtherTypes
    <2> QED BY <2>1, <2>2 DEF PacketInv, ResetInv
  <1>7. CASE ResetEnds
    <2>1. Started' /\ AmigaRuns'
      BY <1>7 DEF ResetEnds, Boot, Started, AmigaRuns
    <2>2. Started' => RunInv'
      BY Starts, PTL
    <2>3. TypeOK'
      BY <1>1, <1>7, OtherTypes
    <2> QED BY <2>1, <2>2, <2>3 DEF PacketInv, ResetInv
  <1> QED BY <1>2, <1>3, <1>4, <1>5, <1>6, <1>7 DEF Next

\* Where every packet is: the invariant of handlers and threads while the Amiga runs.
THEOREM PacketInvariance == Spec => []PacketInv
  BY PacketInit, PacketNext, Invariance, PTL DEF Spec

\* Types hold for any number of units and packets, across any number of resets: a handler never
\* counts more than Limit commands, nor fewer than none, and singlethread_int_sem stays binary.
THEOREM TypeCorrect == Spec => []TypeOK
  BY PacketInvariance, PTL DEF PacketInv

\* Handler and thread agree on what is left to do, in which order, whatever the thread does
\* while the handler has a packet in hand.
THEOREM WorkAgreed == Spec => []SameWork
  <1>1. PacketInv => SameWork
    BY DEF PacketInv, RunInv, WorkInv, SameWork
  <1> QED BY <1>1, PacketInvariance, PTL

-----------------------------------------------------------------------------
(* A reset ends the threads one by one.                                    *)

DownInv ==
  \A u \in Unit :
    /\ u < going_down => thread[u] = "dead"
    /\ u = going_down => thread[u] = "dead" \/ Death \in ToSet(unit_pipe[u])

\* What is left in a pipe after its first item is read, or after one is written.
LEMMA DeathStays ==
  ASSUME NEW q \in Seq(Packet \cup {Death})
  PROVE  /\ \A p \in Packet \cup {Death} : ToSet(q) \subseteq ToSet(Append(q, p))
         /\ Death \in ToSet(Append(q, Death))
         /\ q # <<>> /\ Death \in ToSet(q) => Head(q) = Death \/ Death \in ToSet(Tail(q))
  <1>1. \A p \in Packet \cup {Death} : ToSet(Append(q, p)) = ToSet(q) \cup {p}
    BY AppendSet
  <1>2. ASSUME q # <<>>, Death \in ToSet(q) PROVE Head(q) = Death \/ Death \in ToSet(Tail(q))
    <2>1. PICK i \in 1 .. Len(q) : q[i] = Death
      BY <1>2 DEF ToSet
    <2>2. CASE i = 1
      BY <1>2, <2>1, <2>2, HeadTailProperties
    <2>3. CASE i # 1
      <3>1. Len(Tail(q)) = Len(q) - 1 /\ Len(q) \in Nat
        BY <1>2, HeadTailProperties, LenProperties
      <3>2. i - 1 \in 1 .. Len(Tail(q)) /\ Tail(q)[i - 1] = q[i]
        BY <1>2, <2>1, <2>3, <3>1, HeadTailProperties
      <3> QED BY <2>1, <3>2 DEF ToSet
    <2> QED BY <2>2, <2>3
  <1> QED BY <1>1, <1>2

LEMMA DownNext == DownInv /\ TypeOK /\ [Next]_vars => DownInv'
  <1> SUFFICES ASSUME DownInv, TypeOK, [Next]_vars PROVE DownInv'
    OBVIOUS
  <1>1. /\ unit_pipe \in [Unit -> Seq(Packet \cup {Death})]
        /\ thread \in [Unit -> {"read", "process", "mark", "back", "request", "dead"}]
        /\ going_down \in 0 .. Units
    BY DEF TypeOK
  <1>2. ASSUME NEW v \in Unit, UnitThread(v) PROVE DownInv'
    <2> SUFFICES ASSUME NEW u \in Unit
                 PROVE  /\ u < going_down => thread'[u] = "dead"
                        /\ u = going_down => thread'[u] = "dead" \/ Death \in ToSet(unit_pipe'[u])
      BY <1>2 DEF DownInv, UnitThread, ThreadReads, Sends, Marks, SendsBack, Requests, reset
    <2>1. CASE u # v
      BY <1>1, <1>2, <2>1 DEF DownInv, UnitThread, ThreadReads, Sends, Marks, SendsBack, Requests,
                              ThreadGoes, pipes
    <2>2. CASE u = v /\ ThreadReads(u)
      <3>1. thread[u] # "dead" /\ unit_pipe[u] \in Seq(Packet \cup {Death}) /\ unit_pipe[u] # <<>>
            /\ unit_pipe'[u] = Tail(unit_pipe[u])
            /\ (Head(unit_pipe[u]) = Death => thread'[u] = "dead")
        BY <1>1, <2>2 DEF ThreadReads
      <3> QED BY <3>1, DeathStays DEF DownInv
    <2>3. CASE u = v /\ ~ThreadReads(u)
      BY <1>1, <1>2, <2>3 DEF DownInv, UnitThread, Sends, Marks, SendsBack, Requests, ThreadGoes,
                              pipes
    <2> QED BY <2>1, <2>2, <2>3
  <1>3. ASSUME NEW u \in Unit, HandlerTask(u) PROVE DownInv'
    <2>1. going_down = 0 /\ going_down' = 0
      BY <1>3 DEF HandlerTask, DoCommand, Refuse, Enqueue, SetAside, TakeDummy, Scan, GetMsg,
                  AmigaRuns, reset
    <2> QED BY <2>1, Names DEF DownInv, Unit
  <1>4. ASSUME NEW u \in Unit, going_down' = u, Kill(u), \A v \in 1 .. u - 1 : thread[v] = "dead"
        PROVE  DownInv'
    <2>1. thread' = thread
      BY <1>4 DEF Kill, threads
    <2>2. Death \in ToSet(unit_pipe'[u])
      BY <1>1, <1>4, DeathStays DEF Kill
    <2> QED BY <1>4, <2>1, <2>2 DEF DownInv, Unit
  <1>5. CASE ResetBegins
    <2>1. 1 \in Unit /\ 1 .. 1 - 1 = {} /\ Kill(1) /\ going_down' = 1
      BY <1>5, Names DEF ResetBegins, Kill, Unit
    <2> QED BY <1>4, <2>1
  <1>6. CASE ResetGoesOn
    <2>1. PICK u \in Unit : Down(u) /\ u < Units /\ Kill(u + 1)
      BY <1>6 DEF ResetGoesOn
    <2>2. u + 1 \in Unit /\ going_down' = u + 1
      BY <2>1, Names DEF Kill, Unit
    <2>3. \A v \in 1 .. (u + 1) - 1 : v \in Unit /\ (v < going_down \/ v = u)
      BY <2>1, Names DEF Down, Unit
    <2>4. \A v \in 1 .. (u + 1) - 1 : thread[v] = "dead"
      BY <2>1, <2>3 DEF Down, DownInv
    <2> QED BY <1>4, <2>1, <2>2, <2>4
  <1>7. CASE ResetEnds
    BY <1>7, Names DEF ResetEnds, Boot, DownInv, Unit
  <1>8. CASE OtherRequest \/ Server \/ ExterTask \/ Vsync \/ UNCHANGED vars
             \/ \E p \in Packet, u \in Unit : Send(p, u)
    BY <1>8 DEF DownInv, OtherRequest, Server, ExterTask, Helper10, NotForUs, PutsDummy, Helper11,
                Vsync, Send, vars, pipes, threads, reset
  <1> QED BY <1>2, <1>3, <1>5, <1>6, <1>7, <1>8 DEF Next

LEMMA DownInvariance == Spec => []DownInv
  <1>1. Init => DownInv
    BY Names DEF Init, DownInv, Unit
  <1> QED BY <1>1, DownNext, TypeCorrect, PTL DEF Spec

DeathWaits == \A u \in Unit : going_down = u /\ thread[u] = "read" => unit_pipe[u] # <<>>

\* The thread that a reset waits for has a step to take until it has ended: it never waits for
\* the handler, which is gone, and the pipe that it reads still holds the death message.
THEOREM ThreadsEnd == Spec => []DeathWaits
  <1>1. ASSUME DownInv, NEW u \in Unit, going_down = u, thread[u] = "read"
        PROVE  unit_pipe[u] # <<>>
    <2>1. Death \in ToSet(unit_pipe[u])
      BY <1>1 DEF DownInv
    <2> QED BY <2>1 DEF ToSet
  <1>2. DownInv => DeathWaits
    BY <1>1 DEF DeathWaits
  <1> QED BY <1>2, DownInvariance, PTL

\* filesys_start_threads starts a thread for no unit whose former thread still runs.
THEOREM NoSecondThread == Spec => [][ResetEnds => \A u \in Unit : thread[u] = "dead"]_vars
  <1>1. DownInv /\ ResetEnds => \A u \in Unit : thread[u] = "dead"
    BY Names DEF DownInv, ResetEnds, Down, Unit
  <1> QED BY <1>1, DownInvariance, PTL
-----------------------------------------------------------------------------
\* What goes through the pipe back: what is in it, what the thread is working on, and what the
\* thread will still read. By running it does not grow, but for the death message.
AtWork(u) == IF thread[u] \in {"process", "mark", "back"} THEN 1 ELSE 0
Load(u) == back_pipe[u] + AtWork(u) + Len(unit_pipe[u])
Deaths(u) == IF u <= going_down THEN 1 ELSE 0

RoomInv ==
  \A u \in Unit : /\ Len(unit_pipe[u]) <= Limit + Deaths(u)
                  /\ back_pipe[u] <= 2 * Limit + 1
                  /\ thread[u] # "dead" => Load(u) <= 2 * Limit + 1 + Deaths(u)

LEMMA RoomTypes ==
  ASSUME TypeOK, NEW u \in Unit
  PROVE  /\ back_pipe[u] \in Nat /\ Len(unit_pipe[u]) \in Nat /\ AtWork(u) \in {0, 1}
         /\ Limit \in Nat /\ Deaths(u) \in {0, 1}
  BY Names, LenProperties DEF TypeOK, AtWork, Deaths

\* While the Amiga runs the limit on started commands bounds all of it.
LEMMA RunRoom ==
  ASSUME TypeOK, RunInv, AmigaRuns
  PROVE  RoomInv
  <1>1. ASSUME NEW u \in Unit
        PROVE  Len(unit_pipe[u]) <= Limit /\ back_pipe[u] <= 2 * Limit + 1
               /\ Load(u) <= 2 * Limit + 1
    <2>1. RunInv /\ ChainInv
      BY DEF RunInv
    <2>2. /\ Chain(u) \in Seq(Packet) /\ IsInjective(Chain(u))
          /\ ToSet(Chain(u)) \subseteq Packet
          /\ IsFiniteSet(Busy(u)) /\ Cardinality(Busy(u)) \in Nat
          /\ IsFiniteSet(Finished(u)) /\ Cardinality(Finished(u)) \in Nat
      BY <2>1, ChainFacts
    <2>3. Cardinality(Busy(u)) <= Limit
      BY <2>1 DEF RunInv, StartedInv
    <2> DEFINE q == Kept(Chain(u), Handed)
    <2>4. /\ q \in Seq(Packet) /\ IsInjective(q)
          /\ ToSet(q) = ToSet(Chain(u)) \cap Handed
      BY <2>2, KeptType, KeptInjective, KeptSet
    <2>5. Cardinality(ToSet(q)) = Len(q) /\ IsFiniteSet(ToSet(q)) /\ Len(q) \in Nat
      BY <2>4, SetSize, LenProperties
    <2>6. Busy(u) = ToSet(q) \cup Finished(u) /\ ToSet(q) \cap Finished(u) = {}
      BY <2>2, <2>4 DEF Handed, Busy, Finished
    <2>7. Len(q) + Cardinality(Finished(u)) = Cardinality(Busy(u))
      <3>1. Cardinality(ToSet(q) \cup Finished(u))
              = Cardinality(ToSet(q)) + Cardinality(Finished(u))
                  - Cardinality(ToSet(q) \cap Finished(u))
        BY <2>2, <2>5, FS_Union
      <3>2. Cardinality(ToSet(q) \cap Finished(u)) = 0
        BY <2>6, FS_EmptySet
      <3> HIDE DEF q
      <3> QED BY <2>2, <2>5, <2>6, <3>1, <3>2
    <2>8. Len(Backlog(u)) = Len(q)
      <3>1. Unfinished(u) = Backlog(u)
        BY <2>1 DEF RunInv, WorkInv
      <3> QED BY <2>4, <3>1, ReverseLen DEF Unfinished
    <2>9. Len(Backlog(u)) = Len(unit_pipe[u]) + (IF work[u] = None THEN 0 ELSE 1)
      <3>1. unit_pipe[u] \in Seq(Packet) /\ (work[u] = None \/ work[u] \in Packet)
        BY <2>1 DEF RunInv, WorkInv, TypeOK
      <3>2. work[u] # None => Len(<<work[u]>> \o unit_pipe[u]) = Len(unit_pipe[u]) + 1
        BY <3>1, PrependSet
      <3>3. Len(unit_pipe[u]) \in Nat
        BY <3>1, LenProperties
      <3>4. CASE work[u] = None
        BY <3>4 DEF Backlog
      <3>5. CASE work[u] # None
        BY <3>2, <3>5 DEF Backlog
      <3> QED BY <3>4, <3>5
    <2> HIDE DEF q
    <2>10. back_pipe[u] + (IF thread[u] = "back" THEN 1 ELSE 0)
             <= Limit + 1 + Cardinality(Finished(u))
      <3>1. back_pipe[u] + (IF thread[u] = "back" THEN 1 ELSE 0)
              <= (IF handler[u] = "scan" THEN 1 ELSE Limit + 1) + Cardinality(Finished(u))
        BY <2>1 DEF RunInv, BackInv
      <3> QED BY <2>2, <3>1, RoomTypes
    <2>11. work[u] # None <=> thread[u] \in {"process", "mark"}
      BY <2>1 DEF RunInv, WorkInv
    <2>12. /\ back_pipe[u] \in Nat /\ Len(unit_pipe[u]) \in Nat /\ Limit \in Nat
      BY RoomTypes
    <2>13. Len(unit_pipe[u]) + (IF work[u] = None THEN 0 ELSE 1) + Cardinality(Finished(u)) <= Limit
      BY <2>2, <2>3, <2>5, <2>7, <2>8, <2>9, <2>12
    <2>14. AtWork(u) = (IF work[u] = None THEN 0 ELSE 1) + (IF thread[u] = "back" THEN 1 ELSE 0)
      BY <2>11 DEF AtWork
    <2>15. ASSUME NEW l \in Nat, NEW k \in Nat, NEW f \in Nat, NEW w \in {0, 1}, NEW b \in {0, 1},
                  l + w + f <= Limit, k + b <= Limit + 1 + f
           PROVE  l <= Limit /\ k <= 2 * Limit + 1 /\ k + (w + b) + l <= 2 * Limit + 1
      BY <2>12, <2>15
    <2> QED BY <2>2, <2>10, <2>12, <2>13, <2>14, <2>15 DEF Load
  <1>2. \A u \in Unit : Deaths(u) = 0
    BY Names DEF AmigaRuns, Deaths, Unit
  <1> QED BY <1>1, <1>2, RoomTypes DEF RoomInv

\* During a reset the thread that is going down works off what is left, ...
LEMMA ThreadRoom ==
  ASSUME TypeOK, DownInv, RoomInv, NEW v \in Unit, UnitThread(v)
  PROVE  RoomInv'
  <1>1. /\ unit_pipe \in [Unit -> Seq(Packet \cup {Death})] /\ back_pipe \in [Unit -> Nat]
        /\ thread \in [Unit -> {"read", "process", "mark", "back", "request", "dead"}]
        /\ going_down' = going_down
    BY DEF TypeOK, UnitThread, ThreadReads, Sends, Marks, SendsBack, Requests, reset
  <1>2. SUFFICES ASSUME NEW u \in Unit
                 PROVE  /\ Len(unit_pipe'[u]) <= Limit + Deaths(u)
                        /\ back_pipe'[u] <= 2 * Limit + 1
                        /\ thread'[u] # "dead" => Load(u)' <= 2 * Limit + 1 + Deaths(u)
    BY <1>1 DEF RoomInv, Deaths
  <1>3. /\ Len(unit_pipe[u]) <= Limit + Deaths(u) /\ back_pipe[u] <= 2 * Limit + 1
        /\ thread[u] # "dead" => Load(u) <= 2 * Limit + 1 + Deaths(u)
        /\ back_pipe[u] \in Nat /\ Len(unit_pipe[u]) \in Nat /\ Limit \in Nat
        /\ Deaths(u) \in {0, 1}
    BY RoomTypes DEF RoomInv
  <1>4. CASE u # v
    <2>1. UNCHANGED <<unit_pipe[u], back_pipe[u], thread[u]>>
      BY <1>1, <1>2, <1>4
         DEF UnitThread, ThreadReads, Sends, Marks, SendsBack, Requests, ThreadGoes, pipes
    <2> QED BY <1>3, <2>1 DEF Load, AtWork
  <1>5. CASE u = v /\ ThreadReads(u)
    <2>1. /\ thread[u] = "read" /\ unit_pipe'[u] = Tail(unit_pipe[u]) /\ unit_pipe[u] # <<>>
          /\ back_pipe'[u] = back_pipe[u]
      BY <1>1, <1>5 DEF ThreadReads
    <2>2. Len(unit_pipe'[u]) = Len(unit_pipe[u]) - 1
      BY <1>1, <2>1, HeadTailProperties
    <2> QED BY <1>3, <2>1, <2>2 DEF Load, AtWork
  <1>6. CASE u = v /\ (Sends(u) \/ Marks(u) \/ Requests(u))
    <2>1. /\ unit_pipe'[u] = unit_pipe[u] /\ back_pipe'[u] = back_pipe[u]
          /\ thread[u] # "dead" /\ AtWork(u)' = AtWork(u)
      BY <1>1, <1>6 DEF Sends, Marks, Requests, ThreadGoes, pipes, AtWork
    <2> QED BY <1>3, <2>1 DEF Load
  <1>7. CASE u = v /\ SendsBack(u)
    <2>1. /\ unit_pipe'[u] = unit_pipe[u] /\ back_pipe'[u] = back_pipe[u] + 1
          /\ thread[u] = "back" /\ thread'[u] = "request"
      BY <1>1, <1>7 DEF SendsBack, ThreadGoes
    <2>2. Deaths(u) <= Len(unit_pipe[u])
      <3>1. u = going_down => unit_pipe[u] # <<>>
        BY <2>1, EmptySeq DEF DownInv, ToSet
      <3>2. ~(u < going_down)
        BY <2>1 DEF DownInv
      <3>3. unit_pipe[u] # <<>> => Len(unit_pipe[u]) > 0
        BY <1>1, EmptySeq, LenProperties
      <3>4. u \in Nat /\ going_down \in Nat
        BY Names DEF Unit, TypeOK
      <3> QED BY <1>3, <3>1, <3>2, <3>3, <3>4 DEF Deaths
    <2> QED BY <1>3, <2>1, <2>2 DEF Load, AtWork
  <1> QED BY <1>4, <1>5, <1>6, <1>7 DEF UnitThread

\* ... after the death message was put into its pipe.
LEMMA KillRoom ==
  ASSUME TypeOK, RoomInv, NEW v \in Unit, Kill(v), v = going_down + 1
  PROVE  RoomInv'
  <1>1. /\ unit_pipe \in [Unit -> Seq(Packet \cup {Death})] /\ going_down \in Nat
        /\ going_down' = v /\ UNCHANGED <<back_pipe, thread>>
        /\ unit_pipe' = [unit_pipe EXCEPT ![v] = Append(@, Death)]
    BY DEF TypeOK, Kill, threads
  <1>2. SUFFICES ASSUME NEW u \in Unit
                 PROVE  /\ Len(unit_pipe'[u]) <= Limit + Deaths(u)'
                        /\ back_pipe'[u] <= 2 * Limit + 1
                        /\ thread'[u] # "dead" => Load(u)' <= 2 * Limit + 1 + Deaths(u)'
    BY DEF RoomInv
  <1>3. /\ Len(unit_pipe[u]) <= Limit + Deaths(u) /\ back_pipe[u] <= 2 * Limit + 1
        /\ thread[u] # "dead" => Load(u) <= 2 * Limit + 1 + Deaths(u)
        /\ back_pipe[u] \in Nat /\ Len(unit_pipe[u]) \in Nat /\ Limit \in Nat
        /\ Deaths(u) \in {0, 1} /\ AtWork(u) \in {0, 1} /\ AtWork(u)' = AtWork(u)
    BY <1>1, RoomTypes DEF RoomInv, AtWork
  <1>4. u \in Nat /\ v \in Nat
    BY DEF Unit
  <1>5. CASE u # v
    <2>1. Deaths(u)' = Deaths(u)
      BY <1>1, <1>4, <1>5 DEF Deaths
    <2>2. unit_pipe'[u] = unit_pipe[u]
      BY <1>1, <1>5
    <2> QED BY <1>1, <1>3, <2>1, <2>2 DEF Load
  <1>6. CASE u = v
    <2>1. Deaths(u) = 0 /\ Deaths(u)' = 1
      BY <1>1, <1>4, <1>6 DEF Deaths
    <2>2. Len(unit_pipe'[u]) = Len(unit_pipe[u]) + 1
      BY <1>1, <1>6, AppendProperties
    <2> QED BY <1>1, <1>3, <2>1, <2>2 DEF Load
  <1> QED BY <1>5, <1>6

LEMMA RoomNext == RoomInv /\ PacketInv /\ PacketInv' /\ DownInv /\ [Next]_vars => RoomInv'
  <1> SUFFICES ASSUME RoomInv, PacketInv, PacketInv', DownInv, [Next]_vars PROVE RoomInv'
    OBVIOUS
  <1>1. TypeOK
    BY DEF PacketInv
  <1>2. CASE AmigaRuns'
    <2>1. TypeOK' /\ RunInv'
      BY <1>2 DEF PacketInv
    <2>2. TypeOK' /\ RunInv' /\ AmigaRuns' => RoomInv'
      BY RunRoom, PTL
    <2> QED BY <1>2, <2>1, <2>2
  <1>3. ASSUME NEW u \in Unit, UnitThread(u) PROVE RoomInv'
    BY <1>1, <1>3, ThreadRoom
  <1>4. CASE ResetBegins
    BY <1>1, <1>4, KillRoom, Names DEF ResetBegins, AmigaRuns
  <1>5. CASE ResetGoesOn
    <2>1. PICK u \in Unit : Down(u) /\ u < Units /\ Kill(u + 1)
      BY <1>5 DEF ResetGoesOn
    <2>2. u + 1 \in Unit /\ u + 1 = going_down + 1
      BY <2>1, Names DEF Down, Unit
    <2> QED BY <1>1, <2>1, <2>2, KillRoom
  <1>6. ASSUME ~AmigaRuns', UNCHANGED <<pipes, thread, going_down>> PROVE RoomInv'
    BY <1>6 DEF RoomInv, Load, AtWork, Deaths, pipes
  <1>7. ASSUME NEW u \in Unit, HandlerTask(u) PROVE AmigaRuns'
    BY <1>7 DEF HandlerTask, DoCommand, Refuse, Enqueue, SetAside, TakeDummy, Scan, GetMsg,
                AmigaRuns, reset
  <1>8. CASE OtherRequest \/ Server \/ ExterTask \/ Vsync \/ UNCHANGED vars
             \/ \E p \in Packet, u \in Unit : Send(p, u)
    <2>1. UNCHANGED <<pipes, thread, going_down>>
      BY <1>8 DEF OtherRequest, Server, ExterTask, Helper10, NotForUs, PutsDummy, Helper11,
                  Vsync, Send, vars, pipes, threads, reset
    <2> QED BY <1>2, <1>6, <2>1
  <1>9. CASE ResetEnds
    <2>1. AmigaRuns'
      BY <1>9 DEF ResetEnds, Boot, AmigaRuns
    <2> QED BY <1>2, <2>1
  <1> QED BY <1>2, <1>3, <1>4, <1>5, <1>7, <1>8, <1>9 DEF Next

\* The limit of the Amiga's code bounds what is in the pipes of the host's, during a reset too.
THEOREM RoomInPipes == Spec => []PipesHaveRoom
  <1>1. Init => RoomInv
    <2>1. PacketInv /\ AmigaRuns => RoomInv
      BY RunRoom DEF PacketInv
    <2> QED BY <2>1, PacketInit DEF Init, AmigaRuns
  <1>2. RoomInv /\ TypeOK => PipesHaveRoom
    <2>1. ASSUME TypeOK, NEW u \in Unit PROVE Deaths(u) <= IF AmigaRuns THEN 0 ELSE 1
      BY <2>1, Names DEF Deaths, AmigaRuns, Unit
    <2>2. ASSUME RoomInv, TypeOK, NEW u \in Unit
          PROVE  /\ Len(unit_pipe[u]) <= Limit + (IF AmigaRuns THEN 0 ELSE 1)
                 /\ back_pipe[u] <= 2 * Limit + 1
      BY <2>1, <2>2, RoomTypes DEF RoomInv
    <2> QED BY <2>2 DEF PipesHaveRoom
  <1>3. RoomInv /\ PacketInv /\ PacketInv' /\ DownInv /\ [Next]_vars => RoomInv'
    BY RoomNext
  <1>4. PacketInv => TypeOK
    BY DEF PacketInv
  <1> QED BY <1>1, <1>2, <1>3, <1>4, PacketInvariance, DownInvariance, PTL DEF Spec
-----------------------------------------------------------------------------
(* What an interrupt that comes too soon can leave behind. A thread counts *)
(* a packet in cmds_sent before it marks it as done, so that the scan for  *)
(* which it was counted may miss it; how many are missed follows from how  *)
(* far the three counters of a unit are apart.                             *)

\* How far a counter is ahead of one that follows it.
Gap(n, m) == IF m <= n THEN n - m ELSE n + Wrap - m
Unseen(u) == Gap(cmds_sent[u], cmds_acked[u])
Announced(u) == Gap(cmds_acked[u], cmds_complete[u])

\* The packets of a unit that are counted and not replied to.
Ended(u) == Cardinality(Finished(u)) + (IF thread[u] = "mark" THEN 1 ELSE 0)

\* All but one of them are announced or will be, and no more than them and two scans' worth.
Balanced(ended, unseen, announced, scans) ==
  /\ ~scans => ended <= unseen + announced + 1
  /\ unseen <= ended + (IF announced > 0 THEN (IF scans THEN 0 ELSE Limit)
                        ELSE (IF scans THEN Limit ELSE 2 * Limit))
GapInv ==
  \A u \in Unit : Balanced(Ended(u), Unseen(u), Announced(u), handler[u] = "scan")

LEMMA GapIs ==
  ASSUME NEW n \in 0 .. Wrap - 1, NEW m \in 0 .. Wrap - 1
  PROVE  /\ Gap(n, m) \in 0 .. Wrap - 1 /\ (Gap(n, m) = 0 <=> n = m)
         /\ Gap(n, m) + 1 < Wrap => Gap(Inc(n), m) = Gap(n, m) + 1
  <1>1. Wrap \in Nat \ {0}
    BY Names
  <1>2. Inc(n) = IF n + 1 = Wrap THEN 0 ELSE n + 1
    <2>1. CASE n + 1 = Wrap
      BY <1>1, <2>1 DEF Inc
    <2>2. CASE n + 1 # Wrap
      <3>1. n + 1 \in 0 .. Wrap - 1
        BY <1>1, <2>2
      <3>2. (n + 1) % Wrap = n + 1
        BY <1>1, <3>1
      <3> QED BY <2>2, <3>2 DEF Inc
    <2> QED BY <2>1, <2>2
  <1> QED BY <1>1, <1>2 DEF Gap

\* Each unit's numbers are what they seem.
LEMMA EndedIs ==
  ASSUME TypeOK, RunInv, NEW u \in Unit
  PROVE  /\ Cardinality(Finished(u)) \in 0 .. Limit
         /\ cmds_sent[u] \in 0 .. Wrap - 1 /\ cmds_acked[u] \in 0 .. Wrap - 1
         /\ cmds_complete[u] \in 0 .. Wrap - 1
         /\ Unseen(u) \in Nat /\ Announced(u) \in Nat
  <1>1. /\ Cardinality(Finished(u)) \in Nat /\ Cardinality(Busy(u)) \in Nat
        /\ Cardinality(Finished(u)) <= Cardinality(Busy(u))
    BY ChainFacts DEF RunInv
  <1>2. Cardinality(Busy(u)) <= Limit /\ Limit \in Nat
    BY Names DEF RunInv, StartedInv
  <1>3. /\ cmds_sent[u] \in 0 .. Wrap - 1 /\ cmds_acked[u] \in 0 .. Wrap - 1
        /\ cmds_complete[u] \in 0 .. Wrap - 1
    BY DEF TypeOK
  <1>4. Unseen(u) \in 0 .. Wrap - 1 /\ Announced(u) \in 0 .. Wrap - 1
    BY <1>3, GapIs DEF Unseen, Announced
  <1>5. Cardinality(Finished(u)) \in 0 .. Limit
    BY <1>1, <1>2
  <1> QED BY <1>3, <1>4, <1>5, Names

LEMMA GapSame ==
  ASSUME GapInv, UNCHANGED <<cmds_sent, cmds_acked, cmds_complete>>,
         \A u \in Unit : /\ Ended(u)' = Ended(u)
                         /\ handler'[u] = "scan" <=> handler[u] = "scan"
  PROVE  GapInv'
  <1> SUFFICES ASSUME NEW u \in Unit
               PROVE  Balanced(Ended(u)', Unseen(u)', Announced(u)', handler'[u] = "scan")
    BY DEF GapInv
  <1>1. /\ Unseen(u)' = Unseen(u) /\ Announced(u)' = Announced(u) /\ Ended(u)' = Ended(u)
        /\ handler'[u] = "scan" <=> handler[u] = "scan"
    BY DEF Unseen, Announced
  <1>2. Balanced(Ended(u), Unseen(u), Announced(u), handler[u] = "scan")
    BY DEF GapInv
  <1> QED BY <1>1, <1>2 DEF Balanced

\* The thread counts a packet that it has not marked yet.
LEMMA SendsGap ==
  ASSUME TypeOK, RunInv, GapInv, Wrap > 3 * Limit + 1, NEW u \in Unit, Sends(u), SameEnd
  PROVE  GapInv'
  <1>1. /\ thread[u] = "process" /\ thread' = [thread EXCEPT ![u] = "mark"]
        /\ cmds_sent' = [cmds_sent EXCEPT ![u] = Inc(@)]
        /\ UNCHANGED <<handler, cmds_acked, cmds_complete>>
    BY DEF Sends, ThreadGoes, amiga
  <1>2. \A v \in Unit : /\ thread'[v] = IF v = u THEN "mark" ELSE thread[v]
                        /\ cmds_sent'[v] = IF v = u THEN Inc(cmds_sent[u]) ELSE cmds_sent[v]
    BY <1>1 DEF TypeOK
  <1>3. ASSUME NEW v \in Unit
        PROVE  Balanced(Ended(v)', Unseen(v)', Announced(v)', handler'[v] = "scan")
    <2>1. Balanced(Ended(v), Unseen(v), Announced(v), handler[v] = "scan")
      BY DEF GapInv
    <2>2. Announced(v)' = Announced(v) /\ handler'[v] = handler[v]
      BY <1>1 DEF Announced
    <2>3. CASE v # u
      <3>1. Ended(v)' = Ended(v) /\ Unseen(v)' = Unseen(v)
        BY <1>1, <1>2, <2>3 DEF Ended, Unseen, SameEnd
      <3> QED BY <2>1, <2>2, <3>1
    <2>4. CASE v = u
      <3>1. /\ Cardinality(Finished(u)) \in 0 .. Limit
            /\ cmds_sent[u] \in 0 .. Wrap - 1 /\ cmds_acked[u] \in 0 .. Wrap - 1
            /\ Unseen(u) \in Nat /\ Announced(u) \in Nat
            /\ Limit \in Nat /\ Wrap \in Nat
        BY EndedIs, Names
      <3>2. Ended(u) = Cardinality(Finished(u)) /\ Ended(u)' = Cardinality(Finished(u)) + 1
        BY <1>1, <1>2, <3>1 DEF Ended, SameEnd
      <3>3. Unseen(u) <= Limit + 2 * Limit
        BY <2>1, <2>4, <3>1, <3>2 DEF Balanced
      <3>4. Unseen(u) + 1 < Wrap
        BY <3>1, <3>3
      <3>5. Unseen(u)' = Unseen(u) + 1
        <4>1. Gap(Inc(cmds_sent[u]), cmds_acked[u]) = Unseen(u) + 1
          BY <3>1, <3>4, GapIs DEF Unseen
        <4>2. cmds_sent'[u] = Inc(cmds_sent[u]) /\ cmds_acked'[u] = cmds_acked[u]
          BY <1>1, <1>2
        <4> QED BY <4>1, <4>2 DEF Unseen
      <3> QED BY <2>1, <2>2, <2>4, <3>1, <3>2, <3>5 DEF Balanced
    <2> QED BY <2>3, <2>4
  <1> QED BY <1>3 DEF GapInv

\* exter_int_helper announces what is counted, if all that it announced is taken.
LEMMA FindWorkGap ==
  ASSUME TypeOK, RunInv, GapInv, NEW n \in 1 .. Units + 1, FindWork(n), SameEnd,
         UNCHANGED <<thread, handler, cmds_sent, cmds_complete>>
  PROVE  GapInv'
  <1>1. \A v \in Unit : Ended(v)' = Ended(v)
    BY DEF Ended, SameEnd
  <1>2. CASE UNCHANGED cmds_acked
    BY <1>1, <1>2, GapSame
  <1>3. ASSUME NEW u \in n .. Units, Sendable(u),
               cmds_acked' = [cmds_acked EXCEPT ![u] = cmds_sent[u]]
        PROVE  GapInv'
    <2>1. u \in Unit
      BY Names DEF Unit
    <2>2. \A v \in Unit : cmds_acked'[v] = IF v = u THEN cmds_sent[u] ELSE cmds_acked[v]
      BY <1>3 DEF TypeOK
    <2>3. ASSUME NEW v \in Unit
          PROVE  Balanced(Ended(v)', Unseen(v)', Announced(v)', handler'[v] = "scan")
      <3>1. Balanced(Ended(v), Unseen(v), Announced(v), handler[v] = "scan")
        BY DEF GapInv
      <3>2. CASE v # u
        BY <1>1, <2>2, <3>1, <3>2 DEF Unseen, Announced
      <3>3. CASE v = u
        <4>1. /\ Cardinality(Finished(u)) \in 0 .. Limit
              /\ cmds_sent[u] \in 0 .. Wrap - 1 /\ cmds_acked[u] \in 0 .. Wrap - 1
              /\ Unseen(u) \in Nat /\ Limit \in Nat
          BY <2>1, EndedIs, Names
        <4>2. Announced(u) = 0
          BY <1>3, <4>1, GapIs DEF Sendable, Announced
        <4>3. Unseen(u)' = 0 /\ Announced(u)' = Unseen(u) /\ Unseen(u) # 0
          <5>1. cmds_acked'[u] = cmds_sent[u] /\ cmds_complete'[u] = cmds_acked[u]
            BY <1>3, <2>1, <2>2 DEF Sendable
          <5>2. Gap(cmds_sent[u], cmds_sent[u]) = 0
            BY <4>1, GapIs
          <5>3. Unseen(u) # 0
            BY <1>3, <4>1, GapIs DEF Sendable, Unseen
          <5> QED BY <5>1, <5>2, <5>3 DEF Unseen, Announced
        <4>4. Ended(u) \in Nat /\ Ended(u)' = Ended(u)
          BY <1>1, <2>1, <4>1 DEF Ended
        <4> QED BY <3>1, <3>3, <4>1, <4>2, <4>3, <4>4 DEF Balanced
      <3> QED BY <3>2, <3>3
    <2> QED BY <2>3 DEF GapInv
  <1> QED BY <1>2, <1>3 DEF FindWork

\* The handler takes the announcement ...
LEMMA TakeDummyGap ==
  ASSUME TypeOK, RunInv, IInv, GapInv, NEW u \in Unit, TakeDummy(u), SameEnd
  PROVE  GapInv'
  <1>1. /\ port[u] # <<>> /\ Head(port[u]) = Dummy /\ port[u] \in Seq(Packet \cup {Dummy})
        /\ handler[u] = "loop" /\ handler' = [handler EXCEPT ![u] = "scan"]
        /\ cmds_complete' = [cmds_complete EXCEPT ![u] = cmds_acked[u]]
        /\ UNCHANGED <<thread, cmds_sent, cmds_acked>>
    BY DEF TakeDummy, GetMsg, threads, TypeOK
  <1>2. cmds_acked[u] # cmds_complete[u]
    <2>1. Has(port[u])
      BY <1>1, Takes
    <2> QED BY <2>1 DEF IInv, LockInv
  <1>3. \A v \in Unit : /\ handler'[v] = IF v = u THEN "scan" ELSE handler[v]
                        /\ cmds_complete'[v] = IF v = u THEN cmds_acked[u] ELSE cmds_complete[v]
    BY <1>1 DEF TypeOK
  <1>4. \A v \in Unit : Ended(v)' = Ended(v) /\ Unseen(v)' = Unseen(v)
    BY <1>1 DEF Ended, Unseen, SameEnd
  <1>5. ASSUME NEW v \in Unit
        PROVE  Balanced(Ended(v)', Unseen(v)', Announced(v)', handler'[v] = "scan")
    <2>1. Balanced(Ended(v), Unseen(v), Announced(v), handler[v] = "scan")
      BY DEF GapInv
    <2>2. CASE v # u
      BY <1>1, <1>3, <1>4, <2>1, <2>2 DEF Announced
    <2>3. CASE v = u
      <3>1. /\ cmds_acked[u] \in 0 .. Wrap - 1 /\ cmds_complete[u] \in 0 .. Wrap - 1
            /\ Announced(u) \in Nat /\ Limit \in Nat
        BY EndedIs, Names
      <3>2. Announced(u) > 0
        BY <1>2, <3>1, GapIs DEF Announced
      <3>3. Announced(u)' = 0
        <4>1. Gap(cmds_acked[u], cmds_acked[u]) = 0
          BY <3>1, GapIs
        <4>2. cmds_acked'[u] = cmds_acked[u] /\ cmds_complete'[u] = cmds_acked[u]
          BY <1>1, <1>3
        <4> QED BY <4>1, <4>2 DEF Announced
      <3> QED BY <1>1, <1>3, <1>4, <2>1, <2>3, <3>2, <3>3 DEF Balanced
    <2> QED BY <2>2, <2>3
  <1> QED BY <1>5 DEF GapInv

\* ... and replies to what is marked by then.
LEMMA ScanGap ==
  ASSUME TypeOK, RunInv, GapInv, NEW u \in Unit, Scan(u), Finished(u)' = {},
         \A v \in Unit : v # u => Finished(v)' = Finished(v)
  PROVE  GapInv'
  <1>1. /\ handler[u] = "scan" /\ handler' = [handler EXCEPT ![u] = "loop"]
        /\ UNCHANGED <<thread, cmds_sent, cmds_acked, cmds_complete>>
    BY DEF Scan, threads, cmds
  <1>2. \A v \in Unit : /\ handler'[v] = IF v = u THEN "loop" ELSE handler[v]
                        /\ Unseen(v)' = Unseen(v) /\ Announced(v)' = Announced(v)
    BY <1>1 DEF TypeOK, Unseen, Announced
  <1>3. ASSUME NEW v \in Unit
        PROVE  Balanced(Ended(v)', Unseen(v)', Announced(v)', handler'[v] = "scan")
    <2>1. Balanced(Ended(v), Unseen(v), Announced(v), handler[v] = "scan")
      BY DEF GapInv
    <2>2. CASE v # u
      <3>1. Ended(v)' = Ended(v)
        BY <1>1, <2>2 DEF Ended
      <3> QED BY <1>2, <2>1, <2>2, <3>1
    <2>3. CASE v = u
      <3>1. /\ Cardinality(Finished(u)) \in 0 .. Limit
            /\ Unseen(u) \in Nat /\ Announced(u) \in Nat /\ Limit \in Nat
        BY EndedIs, Names
      <3>2. Cardinality(Finished(u)') = 0
        BY FS_EmptySet
      <3>3. /\ Ended(u) \in Nat /\ Ended(u)' \in {0, 1} /\ Ended(u) <= Limit + Ended(u)'
        BY <1>1, <3>1, <3>2 DEF Ended
      <3> QED BY <1>1, <1>2, <2>1, <2>3, <3>1, <3>3 DEF Balanced
    <2> QED BY <2>2, <2>3
  <1> QED BY <1>3 DEF GapInv

\* The Amiga starts with nothing counted.
Level == /\ Started
         /\ cmds_sent = [u \in Unit |-> 0] /\ cmds_acked = [u \in Unit |-> 0]
         /\ cmds_complete = [u \in Unit |-> 0]

LEMMA LevelGap == Level => GapInv
  <1> SUFFICES ASSUME Level, NEW u \in Unit
               PROVE  Balanced(Ended(u), Unseen(u), Announced(u), handler[u] = "scan")
    BY DEF GapInv
  <1>1. ToSet(<<>>) = {}
    BY EmptySeq DEF ToSet
  <1>2. Finished(u) = {}
    BY <1>1 DEF Level, Started, Chain, Finished
  <1>3. Ended(u) = 0
    BY <1>2, FS_EmptySet DEF Ended, Level, Started
  <1>4. Unseen(u) = 0 /\ Announced(u) = 0 /\ handler[u] = "loop"
    BY Names DEF Level, Started, Unseen, Announced, Gap
  <1> QED BY <1>3, <1>4, Names DEF Balanced

LEMMA GapNext ==
  ASSUME Wrap > 3 * Limit + 1, IInv, PacketInv, AmigaRuns => GapInv, [Next]_vars
  PROVE  AmigaRuns' => GapInv'
  <1>1. TypeOK /\ (AmigaRuns => RunInv)
    BY DEF PacketInv
  <1>2. ASSUME UNCHANGED <<thread, handler, cmds>>, SameEnd, AmigaRuns PROVE GapInv'
    BY <1>2, GapSame DEF Ended, SameEnd, cmds
  <1>3. ASSUME NEW u \in Unit, HandlerTask(u) PROVE GapInv'
    <2>1. AmigaRuns /\ RunInv /\ GapInv
      BY <1>1, <1>3
         DEF HandlerTask, DoCommand, Refuse, Enqueue, SetAside, TakeDummy, Scan, GetMsg
    <2>2. CASE TakeDummy(u)
      BY <1>1, <2>1, <2>2, TakeDummyKeeps, TakeDummyGap
    <2>3. CASE Scan(u)
      BY <1>1, <2>1, <2>3, ScanKeeps, ScanGap
    <2>4. CASE DoCommand(u) \/ Refuse(u) \/ Enqueue(u) \/ SetAside(u)
      <3>1. SameEnd
        BY <1>1, <2>1, <2>4, DoCommandKeeps, RefuseKeeps, EnqueueKeeps, SetAsideKeeps
      <3>2. /\ UNCHANGED <<thread, cmds_sent, cmds_acked, cmds_complete>>
            /\ \A v \in Unit : handler'[v] = "scan" <=> handler[v] = "scan"
        BY <1>1, <2>4 DEF DoCommand, Refuse, Enqueue, SetAside, GetMsg, threads, cmds, TypeOK
      <3>3. \A v \in Unit : Ended(v)' = Ended(v)
        BY <3>1, <3>2 DEF Ended, SameEnd
      <3> QED BY <2>1, <3>2, <3>3, GapSame
    <2> QED BY <1>3, <2>2, <2>3, <2>4 DEF HandlerTask
  <1>4. ASSUME NEW u \in Unit, UnitThread(u), AmigaRuns PROVE GapInv'
    <2>1. RunInv /\ GapInv
      BY <1>1, <1>4
    <2>2. CASE Sends(u)
      <3>1. SameEnd
        BY <1>1, <2>1, <2>2, ThreadKeeps DEF Sends, amiga, pipes, reset
      <3> QED BY <1>1, <2>1, <2>2, <3>1, SendsGap
    <2>3. CASE Marks(u)
      <3>1. /\ thread[u] = "mark" /\ thread' = [thread EXCEPT ![u] = "back"]
            /\ UNCHANGED <<handler, cmds_sent, cmds_acked, cmds_complete>>
        BY <2>3 DEF Marks, ThreadGoes, amiga, cmds
      <3>2. \A v \in Unit : thread'[v] = IF v = u THEN "back" ELSE thread[v]
        BY <1>1, <3>1 DEF TypeOK
      <3>3. /\ Cardinality(Finished(u)') = Cardinality(Finished(u)) + 1
            /\ \A v \in Unit : v # u => Finished(v)' = Finished(v)
        BY <1>1, <2>1, <2>3, MarksKeeps
      <3>4. Cardinality(Finished(u)) \in Nat
        BY <1>1, <2>1, ChainFacts DEF RunInv
      <3>5. \A v \in Unit : Ended(v)' = Ended(v)
        BY <3>1, <3>2, <3>3, <3>4 DEF Ended
      <3> QED BY <2>1, <3>1, <3>5, GapSame
    <2>4. CASE ThreadReads(u) \/ SendsBack(u) \/ Requests(u)
      <3>1. SameEnd
        BY <1>1, <2>1, <2>4, ThreadReadsKeeps, ThreadKeeps
           DEF SendsBack, Requests, amiga, pipes, reset
      <3>2. /\ UNCHANGED <<handler, cmds_sent, cmds_acked, cmds_complete>>
            /\ \A v \in Unit : thread'[v] = "mark" <=> thread[v] = "mark"
        BY <1>1, <2>4 DEF ThreadReads, SendsBack, Requests, ThreadGoes, amiga, cmds, TypeOK
      <3>3. \A v \in Unit : Ended(v)' = Ended(v)
        BY <3>1, <3>2 DEF Ended, SameEnd
      <3> QED BY <2>1, <3>2, <3>3, GapSame
    <2> QED BY <1>4, <2>2, <2>3, <2>4 DEF UnitThread
  <1>5. ASSUME NEW p \in Packet, NEW u \in Unit, Send(p, u) PROVE GapInv'
    <2>1. AmigaRuns /\ p \in Message /\ p # Dummy
      BY <1>5, Names DEF Send, Message
    <2>2. SameEnd
      BY <1>1, <1>5, <2>1, PutKeeps DEF Send, pipes, threads, reset
    <2> QED BY <1>2, <1>5, <2>1, <2>2 DEF Send, threads
  <1>6. CASE PutsDummy
    <2>1. AmigaRuns /\ unit_no - 1 \in Unit /\ Dummy \in Message
      BY <1>6 DEF PutsDummy, IInv, Types, Message
    <2>2. SameEnd
      BY <1>1, <1>6, <2>1, PutKeeps DEF PutsDummy, pipes, threads, reset
    <2> QED BY <1>2, <1>6, <2>1, <2>2 DEF PutsDummy, threads
  <1>7. ASSUME AmigaRuns, OtherRequest \/ Server \/ Helper10 \/ NotForUs \/ Helper11 \/ Vsync
                          \/ UNCHANGED vars
        PROVE  GapInv'
    <2>1. SameEnd
      BY <1>1, <1>7, ThreadKeeps
         DEF OtherRequest, Server, Helper10, NotForUs, Helper11, Vsync, vars, amiga, pipes,
             threads, reset
    <2>2. CASE Helper10 \/ Helper11
      <3>1. PICK n \in 1 .. Units + 1 : FindWork(n)
        BY <2>2, Names DEF Helper10, Helper11, IInv, Types
      <3>2. UNCHANGED <<thread, handler, cmds_sent, cmds_complete>>
        BY <2>2 DEF Helper10, Helper11, amiga, threads
      <3> QED BY <1>1, <1>7, <2>1, <3>1, <3>2, FindWorkGap
    <2>3. CASE OtherRequest \/ Server \/ NotForUs \/ Vsync \/ UNCHANGED vars
      BY <1>2, <1>7, <2>1, <2>3 DEF OtherRequest, Server, NotForUs, Vsync, vars, amiga, threads
    <2> QED BY <1>7, <2>2, <2>3
  <1>8. CASE ResetBegins \/ ResetGoesOn
    <2>1. ~AmigaRuns'
      <3>1. CASE ResetBegins
        BY <3>1, Names DEF ResetBegins, Kill, AmigaRuns
      <3>2. CASE ResetGoesOn
        <4>1. PICK u \in Unit : Kill(u + 1)
          BY <3>2 DEF ResetGoesOn
        <4>2. u \in Nat \ {0}
          BY Names DEF Unit
        <4> QED BY <4>1, <4>2 DEF Kill, AmigaRuns
      <3> QED BY <1>8, <3>1, <3>2
    <2> QED BY <2>1
  <1>9. CASE ResetEnds
    <2>1. Level' /\ (Level' => GapInv')
      <3>1. Level'
        BY <1>9 DEF ResetEnds, Boot, Level, Started
      <3>2. Level' => GapInv'
        BY LevelGap, PTL
      <3> QED BY <3>1, <3>2
    <2> QED BY <2>1
  <1>10. ASSUME AmigaRuns', \/ \E u \in Unit : UnitThread(u)
                          \/ OtherRequest \/ Server \/ Helper10 \/ NotForUs \/ Helper11 \/ Vsync
                          \/ UNCHANGED vars
         PROVE  GapInv'
    <2>1. UNCHANGED going_down
      BY <1>10 DEF UnitThread, ThreadReads, Sends, Marks, SendsBack, Requests, OtherRequest,
                   Server, Helper10, NotForUs, Helper11, Vsync, vars, reset
    <2>2. AmigaRuns
      BY <1>10, <2>1 DEF AmigaRuns
    <2> QED BY <1>4, <1>7, <1>10, <2>2
  <1> QED BY <1>3, <1>5, <1>6, <1>8, <1>9, <1>10 DEF Next, ExterTask

LEMMA GapInvariance ==
  ASSUME Wrap > 3 * Limit + 1
  PROVE  Spec => [](AmigaRuns => GapInv)
  <1>1. Init => GapInv
    BY LevelGap DEF Init, Level, Started
  <1>2. IInv /\ PacketInv /\ (AmigaRuns => GapInv) /\ [Next]_vars => (AmigaRuns => GapInv)'
    BY GapNext
  <1> QED BY <1>1, <1>2, Invariance, PacketInvariance, PTL DEF Spec

\* With nothing of a unit to be announced, on its way or being scanned.
Idle(u) == /\ cmds_sent[u] = cmds_acked[u] /\ cmds_acked[u] = cmds_complete[u]
           /\ handler[u] # "scan"
LeftBehind == AmigaRuns => \A u \in Unit : Idle(u) => Cardinality(Finished(u)) <= 1

\* However often an interrupt of another origin comes between the counting of a packet and its
\* mark: of the packets that a unit has finished at most one is forgotten at a time.  The
\* counters are as wide as three times the limit, 60 of 2^32.
THEOREM OneForgotten ==
  ASSUME Wrap > 3 * Limit + 1
  PROVE  Spec => []LeftBehind
  <1>1. ASSUME PacketInv, AmigaRuns, GapInv, NEW u \in Unit, Idle(u)
        PROVE  Cardinality(Finished(u)) <= 1
    <2>1. /\ Cardinality(Finished(u)) \in Nat
          /\ cmds_sent[u] \in 0 .. Wrap - 1 /\ cmds_complete[u] \in 0 .. Wrap - 1
      BY <1>1, EndedIs, Names DEF PacketInv
    <2>2. Unseen(u) = 0 /\ Announced(u) = 0
      <3>1. Gap(cmds_complete[u], cmds_complete[u]) = 0
        BY <2>1, GapIs
      <3> QED BY <1>1, <3>1 DEF Idle, Unseen, Announced
    <2>3. Ended(u) <= 1
      BY <1>1, <2>2 DEF GapInv, Balanced, Idle
    <2> QED BY <2>1, <2>3 DEF Ended
  <1>2. PacketInv /\ (AmigaRuns => GapInv) => LeftBehind
    BY <1>1 DEF LeftBehind
  <1> QED BY <1>2, PacketInvariance, GapInvariance, PTL
=============================================================================
