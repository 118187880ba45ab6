------------------------- MODULE Native2AmigaProofs -------------------------
(***************************************************************************)
(* Proofs about Native2Amiga, for any senders, any messages and any length *)
(* of the pipe.  The inductive invariant IInv follows the words: those     *)
(* that the EXTER task has parsed, those in the pipe, and those that the   *)
(* owner of the semaphore has yet to write form a row of whole messages.   *)
(* So the senders, the pipe and the task together are a mailbox that       *)
(* loses, repeats and alters nothing.  FlightInv bounds the words in the   *)
(* pipe by the messages under way, and while these fit nobody is stuck.    *)
(***************************************************************************)
EXTENDS Native2Amiga, SequenceTheorems, FiniteSetTheorems, WellFoundedInduction, TLAPS

\* One sender at most is between NativeSemWait and NativeSemPost.
Owns(t) == place[t] \in {"write", "request", "post"}
SemInv == /\ \A t \in Sender : Owns(t) => n2asem = 0
          /\ \A t, u \in Sender : Owns(t) /\ Owns(u) => t = u

\* How much of its message a sender has written, by its place.
SenderInv ==
  \A t \in Sender :
    /\ place[t] # "idle" => sending[t] \in Message
    /\ place[t] \in {"idle", "wait"} => written[t] = 0
    /\ place[t] = "write" => written[t] < Words[sending[t]]
    /\ place[t] \in {"request", "post"} => written[t] = Words[sending[t]]

\* v and w may be neighbours in the row: w is the first word of a message and v
\* the last of another, or w goes on where v leaves off.
Ends(w) == w.index = Words[w.msg]
Follows(v, w) == IF w.index = 1 THEN Ends(v)
                 ELSE w.msg = v.msg /\ w.index = v.index + 1

PipeInv == /\ \A i \in 1 .. Len(pipe) : pipe[i].index <= Words[pipe[i].msg]
           /\ \A i \in 2 .. Len(pipe) : Follows(pipe[i - 1], pipe[i])

\* What the task has parsed is the beginning of one message ...
GotInv == /\ WholeMessages
          /\ got # <<>> => Len(got) <= Words[got[1].msg]
          /\ exter \in {"wait", "helper"} => got = <<>>
          /\ exter = "args" => got # <<>> /\ Len(got) < Words[got[1].msg]
          /\ exter = "deliver" => got # <<>> /\ Len(got) = Words[got[1].msg]

\* ... and goes on in the pipe, whose end is what a sender is writing.
JointInv == pipe # <<>> =>
              IF got = <<>> THEN pipe[1].index = 1 ELSE Follows(got[Len(got)], pipe[1])
Newest == IF pipe # <<>> THEN pipe[Len(pipe)] ELSE got[Len(got)]
Partial(t) == place[t] = "write" /\ written[t] > 0
EndInv == /\ \A t \in Sender :
               Partial(t) => /\ pipe # <<>> \/ got # <<>>
                             /\ Newest = [msg |-> sending[t], index |-> written[t]]
          /\ (\A t \in Sender : ~Partial(t)) /\ (pipe # <<>> \/ got # <<>>) => Ends(Newest)

IInv == /\ TypeOK /\ SemInv /\ SenderInv
        /\ PipeInv /\ GotInv /\ JointInv /\ EndInv
-----------------------------------------------------------------------------
(* Induction over numbers and over sequences, and what it says of Kept.    *)

LEMMA Least ==
  ASSUME NEW S \in SUBSET Nat, S # {}
  PROVE  \E m \in S : \A n \in S : m <= n
  <1>1. IsWellFoundedOn(OpToRel(<, Nat), Nat)
    BY NatLessThanWellFounded
  <1>2. PICK x \in S : \A y \in S : <<y, x>> \notin OpToRel(<, Nat)
    BY <1>1, WFMin
  <1>3. \A y \in S : ~(y < x)
    BY <1>2 DEF OpToRel
  <1> QED BY <1>3

LEMMA Induction ==
  ASSUME NEW S, 0 \in S, \A n \in Nat : n \in S => n + 1 \in S
  PROVE  Nat \subseteq S
  <1> DEFINE T == Nat \ S
  <1>1. SUFFICES ASSUME T # {} PROVE FALSE
    OBVIOUS
  <1>2. PICK m \in T : \A n \in T : m <= n
    BY <1>1, Least
  <1>3. m # 0 /\ m \in Nat
    BY <1>2
  <1>4. m - 1 \in Nat /\ m - 1 \notin T
    BY <1>2, <1>3
  <1> QED BY <1>2, <1>4

LEMMA SeqInduction ==
  ASSUME NEW A, NEW P, <<>> \in P,
         \A s \in Seq(A), e \in A : s \in P => Append(s, e) \in P
  PROVE  Seq(A) \subseteq P
  <1> DEFINE Good == {n \in Nat : \A s \in Seq(A) : Len(s) = n => s \in P}
  <1>1. 0 \in Good
    BY EmptySeq
  <1>2. ASSUME NEW n \in Nat, n \in Good PROVE n + 1 \in Good
    <2>1. SUFFICES ASSUME NEW s \in Seq(A), Len(s) = n + 1 PROVE s \in P
      OBVIOUS
    <2>2. s # <<>>
      BY <2>1, EmptySeq
    <2>3. PICK t \in Seq(A), e \in A : s = Append(t, e)
      BY <2>2, SequenceEmptyOrAppend
    <2>4. Len(t) = n
      BY <2>1, <2>3, AppendProperties, LenProperties
    <2> QED BY <1>2, <2>3, <2>4
  <1>3. Nat \subseteq Good
    <2> HIDE DEF Good
    <2> QED BY <1>1, <1>2, Induction
  <1> QED BY <1>3, LenProperties

Step(s, S, i, q) == IF s[i] \in S THEN Append(q, s[i]) ELSE q
Keeps(f, s, S) == f = [i \in 0 .. Len(s) |-> IF i = 0 THEN <<>> ELSE Step(s, S, i, f[i - 1])]

\* The recursion that defines Kept has a solution, ...
LEMMA KeptExists ==
  ASSUME NEW A, NEW s \in Seq(A), NEW S
  PROVE  \E f : Keeps(f, s, S)
  <1> DEFINE To(f, n) == f = [i \in 0 .. n |-> IF i = 0 THEN <<>> ELSE Step(s, S, i, f[i - 1])]
             Good == {n \in Nat : \E f : To(f, n)}
  <1>1. 0 \in Good
    <2>1. To([i \in 0 .. 0 |-> <<>>], 0)
      OBVIOUS
    <2> QED BY <2>1
  <1>2. ASSUME NEW n \in Nat, n \in Good PROVE n + 1 \in Good
    <2>1. PICK f : To(f, n)
      BY <1>2
    <2> DEFINE g == [i \in 0 .. n + 1 |-> IF i <= n THEN f[i] ELSE Step(s, S, i, f[n])]
    <2>2. To(g, n + 1)
      <3>1. SUFFICES ASSUME NEW i \in 0 .. n + 1
                     PROVE  g[i] = IF i = 0 THEN <<>> ELSE Step(s, S, i, g[i - 1])
        BY Zenon
      <3>2. CASE i = 0
        BY <2>1, <3>2
      <3>3. CASE i # 0 /\ i <= n
        <4>1. i - 1 \in 0 .. n /\ i \in 0 .. n /\ i - 1 \in 0 .. n + 1 /\ i - 1 <= n
          BY <3>3
        <4>2. g[i] = f[i] /\ g[i - 1] = f[i - 1]
          BY <4>1, <3>3
        <4>3. f[i] = Step(s, S, i, f[i - 1])
          BY <2>1, <3>3, <4>1
        <4> QED BY <4>2, <4>3, <3>3
      <3>4. CASE i = n + 1
        <4>1. g[i] = Step(s, S, i, f[n]) /\ g[i - 1] = f[n] /\ i # 0
          BY <3>4
        <4> QED BY <4>1
      <3> QED BY <3>2, <3>3, <3>4
    <2> HIDE DEF g
    <2>3. \E h : To(h, n + 1)
      BY <2>2
    <2> QED BY <2>3
  <1>3. Nat \subseteq Good
    <2> HIDE DEF Good
    <2> QED BY <1>1, <1>2, Induction
  <1> QED BY <1>3, LenProperties DEF Keeps

LEMMA KeptIs ==
  ASSUME NEW A, NEW s \in Seq(A), NEW S
  PROVE  LET f == CHOOSE f : Keeps(f, s, S) IN Keeps(f, s, S) /\ Kept(s, S) = f[Len(s)]
  <1> DEFINE f == CHOOSE f : Keeps(f, s, S)
  <1>1. Keeps(f, s, S)
    BY KeptExists
  <1>2. Kept(s, S) = f[Len(s)]
    BY DEF Kept, Keeps, Step
  <1> QED BY <1>1, <1>2

LEMMA KeptEmpty == \A S : Kept(<<>>, S) = <<>>
  <1>1. SUFFICES ASSUME NEW S PROVE Kept(<<>>, S) = <<>>
    OBVIOUS
  <1>2. PICK f : Keeps(f, <<>>, S) /\ Kept(<<>>, S) = f[0]
    BY KeptIs, EmptySeq
  <1> QED BY <1>2, EmptySeq DEF Keeps

LEMMA KeptAppend ==
  ASSUME NEW A, NEW s \in Seq(A), NEW e \in A, NEW S
  PROVE  Kept(Append(s, e), S) = IF e \in S THEN Append(Kept(s, S), e) ELSE Kept(s, S)
  <1> DEFINE t == Append(s, e)
             n == Len(s)
  <1>1. /\ t \in Seq(A) /\ Len(t) = n + 1 /\ n \in Nat /\ t[n + 1] = e
        /\ \A i \in 1 .. n : t[i] = s[i]
    BY AppendProperties, LenProperties
  <1>2. PICK f : Keeps(f, s, S) /\ Kept(s, S) = f[n]
    BY KeptIs
  <1>3. PICK g : Keeps(g, t, S) /\ Kept(t, S) = g[n + 1]
    BY <1>1, KeptIs
  <1> HIDE DEF t
  <1> DEFINE Same == {i \in Nat : i <= n => f[i] = g[i]}
  <1>4. 0 \in Same
    BY <1>1, <1>2, <1>3 DEF Keeps
  <1>5. ASSUME NEW i \in Nat, i \in Same PROVE i + 1 \in Same
    <2>1. SUFFICES ASSUME i + 1 <= n PROVE f[i + 1] = g[i + 1]
      OBVIOUS
    <2>2. f[i] = g[i] /\ t[i + 1] = s[i + 1]
      BY <1>1, <1>5, <2>1
    <2>3. i + 1 \in 0 .. n /\ i + 1 \in 0 .. Len(t) /\ i + 1 # 0 /\ (i + 1) - 1 = i
      BY <1>1, <2>1
    <2>4. f[i + 1] = Step(s, S, i + 1, f[i])
      BY <1>2, <2>3 DEF Keeps
    <2>5. g[i + 1] = Step(t, S, i + 1, g[i])
      BY <1>3, <2>3 DEF Keeps
    <2> QED BY <2>2, <2>4, <2>5 DEF Step
  <1>6. f[n] = g[n]
    <2>1. Nat \subseteq Same
      <3> HIDE DEF Same
      <3> QED BY <1>4, <1>5, Induction
    <2> QED BY <1>1, <2>1
  <1>7. g[n + 1] = Step(t, S, n + 1, g[n])
    <2>1. n + 1 \in 0 .. Len(t) /\ n + 1 # 0 /\ (n + 1) - 1 = n
      BY <1>1
    <2> QED BY <1>3, <2>1 DEF Keeps
  <1>8. Kept(t, S) = IF e \in S THEN Append(Kept(s, S), e) ELSE Kept(s, S)
    BY <1>1, <1>2, <1>3, <1>6, <1>7 DEF Step
  <1> QED BY <1>8 DEF t

LEMMA KeptType ==
  ASSUME NEW A, NEW s \in Seq(A), NEW S
  PROVE  Kept(s, S) \in Seq(A) /\ Len(Kept(s, S)) <= Len(s)
  <1> DEFINE P == {t \in Seq(A) : Kept(t, S) \in Seq(A) /\ Len(Kept(t, S)) <= Len(t)}
  <1>1. <<>> \in P
    <2>1. Kept(<<>>, S) = <<>> /\ <<>> \in Seq(A) /\ Len(<<>>) <= Len(<<>>)
      BY KeptEmpty, EmptySeq
    <2>2. Kept(<<>>, S) \in Seq(A) /\ Len(Kept(<<>>, S)) <= Len(<<>>)
      BY ONLY <2>1
    <2> QED BY <2>1, <2>2, Zenon
  <1>2. ASSUME NEW t \in Seq(A), NEW e \in A, t \in P PROVE Append(t, e) \in P
    <2>1. /\ Append(t, e) \in Seq(A) /\ Len(Append(t, e)) = Len(t) + 1
          /\ Append(Kept(t, S), e) \in Seq(A)
          /\ Len(Append(Kept(t, S), e)) = Len(Kept(t, S)) + 1
          /\ Len(t) \in Nat /\ Len(Kept(t, S)) \in Nat
      BY <1>2, AppendProperties, LenProperties
    <2>2. Kept(Append(t, e), S) = IF e \in S THEN Append(Kept(t, S), e) ELSE Kept(t, S)
      BY KeptAppend
    <2>3. Kept(t, S) \in Seq(A) /\ Len(Kept(t, S)) <= Len(t)
      BY <1>2
    <2>4. /\ Kept(Append(t, e), S) \in Seq(A)
          /\ Len(Kept(Append(t, e), S)) <= Len(Append(t, e))
      <3> HIDE DEF P
      <3>1. CASE e \in S
        BY <2>1, <2>2, <2>3, <3>1
      <3>2. CASE e \notin S
        BY <2>1, <2>2, <2>3, <3>2
      <3> QED BY <3>1, <3>2
    <2> QED BY <2>1, <2>4, Zenon
  <1> HIDE DEF P
  <1>3. Seq(A) \subseteq P
    BY <1>1, <1>2, SeqInduction
  <1> QED BY <1>3 DEF P

\* ... and how it goes on at the other end.
LEMMA KeptTail ==
  ASSUME NEW A, NEW s \in Seq(A), s # <<>>, NEW S
  PROVE  IF Head(s) \in S
           THEN /\ Kept(s, S) # <<>> /\ Head(Kept(s, S)) = Head(s)
                /\ Tail(Kept(s, S)) = Kept(Tail(s), S)
           ELSE Kept(s, S) = Kept(Tail(s), S)
  <1> DEFINE Good(t) == IF Head(t) \in S
                          THEN /\ Kept(t, S) # <<>> /\ Head(Kept(t, S)) = Head(t)
                               /\ Tail(Kept(t, S)) = Kept(Tail(t), S)
                          ELSE Kept(t, S) = Kept(Tail(t), S)
             P == {t \in Seq(A) : t # <<>> => Good(t)}
  <1>1. <<>> \in P
    <2> HIDE DEF Good
    <2> QED BY EmptySeq
  <1>2. ASSUME NEW t \in Seq(A), NEW e \in A, t \in P PROVE Append(t, e) \in P
    <2>1. Append(t, e) \in Seq(A) /\ Kept(t, S) \in Seq(A)
      BY AppendProperties, KeptType
    <2>2. Kept(Append(t, e), S) = IF e \in S THEN Append(Kept(t, S), e) ELSE Kept(t, S)
      BY KeptAppend
    <2>3. CASE t = <<>>
      <3>1. Head(Append(t, e)) = e /\ Tail(Append(t, e)) = <<>>
        BY <2>3
      <3>2. Kept(t, S) = <<>> /\ Kept(Tail(Append(t, e)), S) = <<>>
        BY <2>3, <3>1, KeptEmpty
      <3>3. /\ Append(<<>>, e) # <<>> /\ Head(Append(<<>>, e)) = e
            /\ Tail(Append(<<>>, e)) = <<>>
        OBVIOUS
      <3>4. Good(Append(t, e))
        BY <2>2, <3>1, <3>2, <3>3, Zenon
      <3> HIDE DEF Good
      <3> QED BY <2>1, <3>4
    <2>4. CASE t # <<>>
      <3>1. /\ Head(Append(t, e)) = Head(t) /\ Tail(Append(t, e)) = Append(Tail(t), e)
            /\ Tail(t) \in Seq(A)
        BY <2>4, HeadTailAppend
      <3>2. Kept(Tail(Append(t, e)), S)
              = IF e \in S THEN Append(Kept(Tail(t), S), e) ELSE Kept(Tail(t), S)
        BY <3>1, KeptAppend
      <3>3. Kept(t, S) # <<>> => /\ Append(Kept(t, S), e) # <<>>
                                 /\ Head(Append(Kept(t, S), e)) = Head(Kept(t, S))
                                 /\ Tail(Append(Kept(t, S), e)) = Append(Tail(Kept(t, S)), e)
        BY <2>1, HeadTailAppend, AppendProperties, EmptySeq
      <3>4. Good(t)
        BY <1>2, <2>4
      <3> QED BY <2>1, <2>2, <3>1, <3>2, <3>3, <3>4
    <2> QED BY <2>3, <2>4
  <1> HIDE DEF P
  <1>3. Seq(A) \subseteq P
    BY <1>1, <1>2, SeqInduction
  <1> QED BY <1>3 DEF P
-----------------------------------------------------------------------------
\* Words of a message: two to four.
LEMMA WordsTypes == \A m \in Message : Words[m] \in 2 .. 4
  BY NativeAssumption

LEMMA WordFields == \A w \in Word : w.msg \in Message /\ w.index \in 1 .. 4
  BY DEF Word

LEMMA InvInit == Init => IInv
  <1> SUFFICES ASSUME Init PROVE IInv
    OBVIOUS
  <1>1. TypeOK
    <2>1. <<>> \in Seq(Word) /\ Len(<<>>) = 0
      BY EmptySeq
    <2>2. pipe \in Seq(Word) /\ got \in Seq(Word) /\ Len(pipe) <= Capacity
      BY <2>1, NativeAssumption DEF Init
    <2>3. /\ place \in [Sender -> {"idle", "wait", "write", "request", "post"}]
          /\ sending \in [Sender -> Message \cup {None}]
          /\ written \in [Sender -> 0 .. 4]
      BY DEF Init
    <2> QED BY <2>2, <2>3 DEF Init, TypeOK
  <1>2. SemInv /\ SenderInv /\ EndInv
    BY DEF Init, SemInv, Owns, SenderInv, EndInv, Partial
  <1>3. PipeInv /\ GotInv /\ JointInv
    BY DEF Init, PipeInv, GotInv, JointInv, WholeMessages
  <1> QED BY <1>1, <1>2, <1>3 DEF IInv

\* Steps that leave the words alone keep what is said about them.
Row == <<pipe, got>>
LEMMA SameRow ==
  ASSUME UNCHANGED Row
  PROVE  /\ PipeInv' = PipeInv /\ JointInv' = JointInv
         /\ Newest' = Newest /\ WholeMessages' = WholeMessages
  BY DEF Row, PipeInv, JointInv, Newest, WholeMessages, Follows, Ends

LEMMA CallKeeps ==
  ASSUME IInv, NEW t \in Sender, NEW m \in Message, Call(t, m)
  PROVE  IInv'
  <1> USE DEF IInv
  <1>1. UNCHANGED Row
    BY DEF Call, Row
  <1>2. TypeOK'
    BY DEF Call, Goes, TypeOK, interrupt
  <1>3. SemInv' /\ SenderInv'
    BY NativeAssumption DEF Call, Goes, TypeOK, SemInv, SenderInv, Owns
  <1>4. GotInv' /\ PipeInv' /\ JointInv'
    BY <1>1, SameRow DEF Call, GotInv
  <1>5. EndInv'
    BY <1>1, SameRow DEF Call, Goes, TypeOK, EndInv, Partial
  <1> QED BY <1>2, <1>3, <1>4, <1>5

LEMMA NativeSemWaitKeeps ==
  ASSUME IInv, NEW t \in Sender, NativeSemWait(t)
  PROVE  IInv'
  <1> USE DEF IInv
  <1>1. UNCHANGED Row
    BY DEF NativeSemWait, Row
  <1>2. TypeOK'
    BY DEF NativeSemWait, Goes, TypeOK, interrupt
  <1>3. SemInv' /\ SenderInv'
    BY WordsTypes DEF NativeSemWait, Goes, TypeOK, SemInv, SenderInv, Owns
  <1>4. GotInv' /\ PipeInv' /\ JointInv'
    BY <1>1, SameRow DEF NativeSemWait, GotInv
  <1>5. EndInv'
    BY <1>1, SameRow DEF NativeSemWait, Goes, TypeOK, SenderInv, EndInv, Partial
  <1> QED BY <1>2, <1>3, <1>4, <1>5

LEMMA RequestKeeps ==
  ASSUME IInv, NEW t \in Sender, Request(t) \/ NativeSemPost(t)
  PROVE  IInv'
  <1> USE DEF IInv
  <1>1. UNCHANGED Row
    BY DEF Request, NativeSemPost, Row
  <1>2. TypeOK'
    <2>1. CASE Request(t)
      BY <2>1 DEF Request, Goes, TypeOK
    <2>2. CASE NativeSemPost(t)
      <3>1. n2asem' = 1
        BY <2>2 DEF NativeSemPost, Goes, SemInv, Owns
      <3> QED BY <2>2, <3>1 DEF NativeSemPost, Goes, TypeOK, interrupt
    <2> QED BY <2>1, <2>2
  <1>3. SemInv' /\ SenderInv'
    BY DEF Request, NativeSemPost, Goes, TypeOK, SemInv, SenderInv, Owns
  <1>4. GotInv' /\ PipeInv' /\ JointInv'
    BY <1>1, SameRow DEF Request, NativeSemPost, GotInv
  <1>5. EndInv'
    BY <1>1, SameRow DEF Request, NativeSemPost, Goes, TypeOK, EndInv, Partial
  <1> QED BY <1>2, <1>3, <1>4, <1>5

\* The word that a sender writes follows the newest one.
LEMMA WriteKeeps ==
  ASSUME IInv, NEW t \in Sender, Write(t)
  PROVE  IInv'
  <1> USE DEF IInv
  <1> DEFINE k == written[t] + 1
             m == sending[t]
             w == [msg |-> m, index |-> k]
  <1>1. /\ m \in Message /\ k \in 1 .. Words[m] /\ Words[m] \in 2 .. 4 /\ w \in Word
        /\ Owns(t) /\ place[t] = "write"
    <2>1. place[t] = "write" /\ Owns(t)
      BY DEF Write, Goes, Owns
    <2>2. m \in Message /\ written[t] < Words[m] /\ written[t] \in 0 .. 4
      BY <2>1 DEF SenderInv, TypeOK
    <2>3. Words[m] \in 2 .. 4
      BY <2>2, WordsTypes
    <2>4. k \in 1 .. Words[m] /\ k \in 1 .. 4
      BY <2>2, <2>3, SMT
    <2> QED BY <2>1, <2>2, <2>3, <2>4 DEF Word
  <1>2. /\ pipe' = Append(pipe, w) /\ Len(pipe) < Capacity
        /\ written' = [written EXCEPT ![t] = k]
        /\ place' = [place EXCEPT ![t] = IF k = Words[m] THEN "request" ELSE "write"]
        /\ UNCHANGED <<n2asem, sending, uae_int_requested, signalled, flying, exter, got>>
    BY DEF Write, Goes, interrupt
  <1>3. /\ pipe' \in Seq(Word) /\ Len(pipe') = Len(pipe) + 1 /\ pipe' # <<>>
        /\ \A i \in 1 .. Len(pipe) : pipe'[i] = pipe[i]
        /\ pipe'[Len(pipe')] = w /\ Len(pipe) \in Nat
    <2> HIDE DEF w
    <2>1. pipe \in Seq(Word) /\ w \in Word
      BY <1>1 DEF TypeOK
    <2>2. /\ pipe' \in Seq(Word) /\ Len(pipe') = Len(pipe) + 1 /\ Len(pipe) \in Nat
          /\ \A i \in 1 .. Len(pipe) : pipe'[i] = pipe[i]
          /\ pipe'[Len(pipe) + 1] = w
      BY <2>1, <1>2, AppendProperties, LenProperties
    <2> QED BY <2>2, EmptySeq
  <1>4. TypeOK'
    BY <1>1, <1>2, <1>3, NativeAssumption DEF TypeOK
  <1>5. SemInv' /\ SenderInv'
    BY <1>1, <1>2 DEF TypeOK, SemInv, SenderInv, Owns
  <1>6. pipe # <<>> \/ got # <<>> => Follows(Newest, w)
    <2>1. CASE written[t] > 0
      BY <2>1, <1>1 DEF EndInv, Partial, Follows, TypeOK
    <2>2. CASE written[t] = 0
      BY <2>2, <1>1 DEF EndInv, Partial, Follows, SemInv, Owns
    <2> QED BY <2>1, <2>2 DEF TypeOK
  <1>7. pipe = <<>> /\ got = <<>> => k = 1
    BY <1>1 DEF EndInv, Partial, TypeOK
  <1>8. PipeInv'
    <2>1. ASSUME NEW i \in 1 .. Len(pipe') PROVE pipe'[i].index <= Words[pipe'[i].msg]
      BY <1>1, <1>3 DEF PipeInv
    <2>2. ASSUME NEW i \in 2 .. Len(pipe') PROVE Follows(pipe'[i - 1], pipe'[i])
      <3>1. CASE i = Len(pipe')
        BY <3>1, <1>3, <1>6 DEF Newest
      <3>2. CASE i # Len(pipe')
        <4>1. i \in 2 .. Len(pipe) /\ pipe'[i] = pipe[i] /\ pipe'[i - 1] = pipe[i - 1]
          BY <3>2, <1>3
        <4> QED BY <4>1 DEF PipeInv
      <3> QED BY <3>1, <3>2
    <2> QED BY <2>1, <2>2 DEF PipeInv, Follows, Ends
  <1>9. GotInv'
    BY <1>2 DEF GotInv, WholeMessages
  <1>10. JointInv'
    BY <1>1, <1>2, <1>3, <1>6, <1>7 DEF JointInv, Newest, Follows, Ends, TypeOK
  <1>11. EndInv'
    <2>1. Newest' = w
      BY <1>3 DEF Newest
    <2>2. \A u \in Sender : u # t => ~Partial(u)'
      BY <1>1, <1>2 DEF Partial, SemInv, Owns, TypeOK
    <2>3. CASE k = Words[m]
      BY <2>1, <2>2, <2>3, <1>1, <1>2, <1>3 DEF EndInv, Partial, Ends, TypeOK
    <2>4. CASE k # Words[m]
      BY <2>1, <2>2, <2>4, <1>1, <1>2, <1>3 DEF EndInv, Partial, Ends, TypeOK
    <2> QED BY <2>3, <2>4
  <1> QED BY <1>4, <1>5, <1>8, <1>9, <1>10, <1>11

\* A word is read: it is the next one of the message that is being parsed.
LEMMA ReadFacts ==
  ASSUME IInv, exter \in {"helper", "args"}, Read
  PROVE  LET w == pipe[1]
             n == Len(got) IN
         /\ /\ pipe # <<>> /\ got' = Append(got, w) /\ pipe' = Tail(pipe)
            /\ exter' = IF Len(got') = Words[got'[1].msg] THEN "deliver" ELSE "args"
            /\ UNCHANGED <<n2asem, place, sending, written, uae_int_requested, signalled, flying>>
         /\ /\ w \in Word /\ Len(pipe) \in Nat \ {0} /\ n \in Nat
            /\ pipe' \in Seq(Word) /\ Len(pipe') = Len(pipe) - 1
            /\ \A i \in 1 .. Len(pipe') : pipe'[i] = pipe[i + 1]
         /\ /\ got' \in Seq(Word) /\ Len(got') = n + 1 /\ got' # <<>>
            /\ \A i \in 1 .. n : got'[i] = got[i]
            /\ got'[n + 1] = w
         /\ /\ w.msg \in Message /\ w.index \in 1 .. 4 /\ w.index <= Words[w.msg]
            /\ Words[w.msg] \in 2 .. 4 /\ w = [msg |-> w.msg, index |-> w.index]
         /\ w.index = n + 1 /\ w.msg = got'[1].msg
  <1> USE DEF IInv
  <1> DEFINE w == pipe[1]
             n == Len(got)
  <1>1. /\ pipe # <<>> /\ got' = Append(got, w) /\ pipe' = Tail(pipe)
        /\ exter' = IF Len(got') = Words[got'[1].msg] THEN "deliver" ELSE "args"
        /\ UNCHANGED <<n2asem, place, sending, written, uae_int_requested, signalled, flying>>
    BY DEF Read, senders, interrupt
  <1>2. /\ w \in Word /\ Len(pipe) \in Nat \ {0} /\ n \in Nat
        /\ pipe' \in Seq(Word) /\ Len(pipe') = Len(pipe) - 1
        /\ \A i \in 1 .. Len(pipe') : pipe'[i] = pipe[i + 1]
    BY <1>1, HeadTailProperties, ElementOfSeq, SMT DEF TypeOK
  <1>3. /\ got' \in Seq(Word) /\ Len(got') = n + 1 /\ got' # <<>>
        /\ \A i \in 1 .. n : got'[i] = got[i]
        /\ got'[n + 1] = w
    BY <1>1, <1>2 DEF TypeOK
  <1>4. /\ w.msg \in Message /\ w.index \in 1 .. 4 /\ w.index <= Words[w.msg]
        /\ Words[w.msg] \in 2 .. 4 /\ w = [msg |-> w.msg, index |-> w.index]
    BY <1>1, <1>2, WordsTypes DEF PipeInv, Word
  <1>5. w.index = n + 1 /\ w.msg = got'[1].msg
    <2>1. CASE got = <<>>
      BY <2>1, <1>1, <1>3 DEF JointInv
    <2>2. CASE got # <<>>
      <3>1. /\ n < Words[got[1].msg] /\ n \in Nat \ {0}
            /\ got[n] = [msg |-> got[1].msg, index |-> n]
        BY <2>2, <1>2, EmptySeq DEF GotInv, WholeMessages, TypeOK
      <3>2. Follows(got[n], w)
        BY <2>2, <1>1 DEF JointInv
      <3>3. ~Ends(got[n])
        BY <3>1 DEF Ends
      <3> QED BY <3>1, <3>2, <3>3, <1>3 DEF Follows
    <2> QED BY <2>1, <2>2
  <1> QED BY <1>1, <1>2, <1>3, <1>4, <1>5

\* The word goes from the pipe to what is parsed; the row stays as it is.
LEMMA ReadKeeps ==
  ASSUME IInv, exter \in {"helper", "args"}, Read
  PROVE  IInv'
  <1> USE DEF IInv
  <1> DEFINE w == pipe[1]
             n == Len(got)
  <1>1. /\ pipe # <<>> /\ got' = Append(got, w) /\ pipe' = Tail(pipe)
        /\ exter' = IF Len(got') = Words[got'[1].msg] THEN "deliver" ELSE "args"
        /\ UNCHANGED <<n2asem, place, sending, written, uae_int_requested, signalled, flying>>
    BY ReadFacts
  <1>2. /\ w \in Word /\ Len(pipe) \in Nat \ {0} /\ n \in Nat
        /\ pipe' \in Seq(Word) /\ Len(pipe') = Len(pipe) - 1
        /\ \A i \in 1 .. Len(pipe') : pipe'[i] = pipe[i + 1]
    BY ReadFacts
  <1>3. /\ got' \in Seq(Word) /\ Len(got') = n + 1 /\ got' # <<>>
        /\ \A i \in 1 .. n : got'[i] = got[i]
        /\ got'[n + 1] = w
    BY ReadFacts
  <1>4. /\ w.msg \in Message /\ w.index \in 1 .. 4 /\ w.index <= Words[w.msg]
        /\ Words[w.msg] \in 2 .. 4 /\ w = [msg |-> w.msg, index |-> w.index]
    BY ReadFacts
  <1>5. w.index = n + 1 /\ w.msg = got'[1].msg
    BY ReadFacts
  <1>6. TypeOK'
    <2>1. Len(pipe') <= Capacity
      BY <1>2, NativeAssumption DEF TypeOK
    <2>2. exter' \in {"deliver", "args"}
      BY <1>1
    <2> QED BY <1>1, <1>2, <1>3, <2>1, <2>2 DEF TypeOK
  <1>7. SemInv' /\ SenderInv'
    BY <1>1 DEF SemInv, SenderInv, Owns
  <1>8. WholeMessages'
    <2> SUFFICES ASSUME NEW i \in 1 .. n + 1
                 PROVE  got'[i] = [msg |-> got'[1].msg, index |-> i]
      BY <1>3 DEF WholeMessages
    <2>1. CASE i = n + 1
      BY <2>1, <1>3, <1>4, <1>5
    <2>2. CASE i # n + 1
      <3> HIDE DEF n, w
      <3>1. i \in 1 .. n /\ 1 \in 1 .. n
        BY <2>2, <1>2, SMT
      <3> USE DEF n
      <3> QED BY <3>1, <1>3 DEF WholeMessages, GotInv
    <2> QED BY <2>1, <2>2
  <1>9. GotInv'
    BY <1>1, <1>3, <1>4, <1>5, <1>8 DEF GotInv
  <1>10. PipeInv'
    <2>1. ASSUME NEW i \in 1 .. Len(pipe') PROVE pipe'[i].index <= Words[pipe'[i].msg]
      BY <1>2 DEF PipeInv
    <2>2. ASSUME NEW i \in 2 .. Len(pipe') PROVE Follows(pipe'[i - 1], pipe'[i])
      <3>1. i - 1 \in 1 .. Len(pipe') /\ i \in 1 .. Len(pipe') /\ (i - 1) + 1 = i
        BY <1>2, SMT
      <3>2. pipe'[i] = pipe[i + 1] /\ pipe'[i - 1] = pipe[i]
        BY <3>1, <1>2, Zenon
      <3>3. i + 1 \in 2 .. Len(pipe) /\ (i + 1) - 1 = i
        BY <3>1, <1>2, SMT
      <3> QED BY <3>2, <3>3 DEF PipeInv
    <2> QED BY <2>1, <2>2 DEF PipeInv, Follows, Ends
  <1>11. JointInv'
    BY <1>2, <1>3 DEF JointInv, PipeInv
  <1>12. EndInv'
    <2>1. (\A t \in Sender : Partial(t)' <=> Partial(t)) /\ Newest' = Newest
      BY <1>1, <1>2, <1>3 DEF Partial, Newest
    <2> QED BY <2>1, <1>1, <1>3 DEF EndInv, Ends
  <1> QED BY <1>6, <1>7, <1>9, <1>10, <1>11, <1>12

\* A message leaves the row; the next word, if there is one, begins another.
LEMMA DeliverKeeps ==
  ASSUME IInv, Deliver
  PROVE  IInv'
  <1> USE DEF IInv
  <1> DEFINE n == Len(got)
  <1>1. /\ exter = "deliver" /\ exter' = "helper" /\ got' = <<>>
        /\ flying' = flying \ {got[1].msg}
        /\ UNCHANGED <<pipe, n2asem, place, sending, written, uae_int_requested, signalled>>
    BY DEF Deliver, senders, interrupt
  <1>2. /\ n \in Nat \ {0} /\ got[n] = [msg |-> got[1].msg, index |-> n]
        /\ n = Words[got[1].msg] /\ got[n] \in Word
    BY <1>1, EmptySeq, ElementOfSeq DEF GotInv, WholeMessages, TypeOK
  <1>3. Ends(got[n])
    BY <1>2 DEF Ends
  <1>4. TypeOK' /\ SemInv' /\ SenderInv'
    BY <1>1 DEF TypeOK, SemInv, SenderInv, Owns
  <1>5. GotInv' /\ PipeInv'
    BY <1>1 DEF GotInv, WholeMessages, PipeInv, Follows, Ends
  <1>6. JointInv'
    <2> SUFFICES ASSUME pipe # <<>> PROVE pipe[1].index = 1
      BY <1>1 DEF JointInv
    <2>1. pipe[1] \in Word /\ pipe[1].index <= Words[pipe[1].msg]
      BY EmptySeq, ElementOfSeq DEF PipeInv, TypeOK
    <2>2. Follows(got[n], pipe[1])
      BY <1>2 DEF JointInv
    <2> QED BY <2>1, <2>2, <1>2, WordsTypes, WordFields DEF Follows
  <1>7. EndInv'
    <2>1. CASE pipe # <<>>
      BY <2>1, <1>1 DEF EndInv, Partial, Newest, Ends
    <2>2. CASE pipe = <<>>
      <3>1. ASSUME NEW t \in Sender, Partial(t) PROVE FALSE
        <4>1. [msg |-> sending[t], index |-> written[t]] = [msg |-> got[1].msg, index |-> n]
          BY <3>1, <2>2, <1>2 DEF EndInv, Newest
        <4> QED BY <4>1, <3>1, <1>2 DEF Partial, SenderInv
      <3> QED BY <3>1, <2>2, <1>1 DEF EndInv, Partial
    <2> QED BY <2>1, <2>2
  <1> QED BY <1>4, <1>5, <1>6, <1>7

LEMMA OthersKeep ==
  ASSUME IInv, OtherRequest \/ Server \/ TaskWakes \/ NoMore \/ UNCHANGED vars
  PROVE  IInv'
  <1> USE DEF IInv
  <1> USE DEF OtherRequest, Server, TaskWakes, NoMore, vars, senders, interrupt
  <1>1. UNCHANGED Row
    BY DEF Row
  <1>2. TypeOK' /\ SemInv' /\ SenderInv'
    BY DEF TypeOK, SemInv, SenderInv, Owns
  <1>3. GotInv' /\ PipeInv' /\ JointInv'
    BY <1>1, SameRow DEF GotInv
  <1>4. EndInv'
    BY <1>1, SameRow DEF EndInv, Partial, Row, Ends
  <1> QED BY <1>2, <1>3, <1>4

\* The inductive invariant: who owns the semaphore and how the row goes on.
THEOREM Invariance == Spec => []IInv
  <1>1. IInv /\ [Next]_vars => IInv'
    <2> SUFFICES ASSUME IInv, [Next]_vars PROVE IInv'
      OBVIOUS
    <2>1. ASSUME NEW t \in Sender, NEW m \in Message, Call(t, m) PROVE IInv'
      BY <2>1, CallKeeps
    <2>2. ASSUME NEW t \in Sender, Sends(t) PROVE IInv'
      BY <2>2, NativeSemWaitKeeps, WriteKeeps, RequestKeeps DEF Sends
    <2>3. CASE ExterTask
      BY <2>3, OthersKeep, ReadKeeps, DeliverKeeps DEF ExterTask, HasData, ReadArgs
    <2>4. CASE OtherRequest \/ Server \/ UNCHANGED vars
      BY <2>4, OthersKeep
    <2> QED BY <2>1, <2>2, <2>3, <2>4 DEF Next
  <1> QED BY <1>1, InvInit, PTL DEF Spec

\* Types hold: the semaphore stays binary and the pipe within its length.
THEOREM TypeCorrect == Spec => []TypeOK
  BY Invariance, PTL DEF IInv

\* exter_int_helper reads whole messages, whichever threads send at once: no word
\* of another message, and no argument in the place of a command.
THEOREM MessagesWhole == Spec => []WholeMessages
  BY Invariance, PTL DEF IInv, GotInv

\* A word that waits in the pipe has an interrupt coming, unless its sender is about
\* to ask for one.
THEOREM NoLostInterrupt == Spec => []InterruptDue
  <1>1. Init => InterruptDue
    BY DEF Init, InterruptDue
  <1>2. TypeOK /\ InterruptDue /\ [Next]_vars => InterruptDue'
    <2> SUFFICES ASSUME TypeOK, InterruptDue, [Next]_vars PROVE InterruptDue'
      OBVIOUS
    <2> USE DEF TypeOK, InterruptDue, Writing
    <2>1. ASSUME NEW t \in Sender, NEW m \in Message, Call(t, m) PROVE InterruptDue'
      BY <2>1 DEF Call, Goes, interrupt
    <2>2. ASSUME NEW t \in Sender, NativeSemWait(t) \/ Write(t) PROVE InterruptDue'
      BY <2>2 DEF NativeSemWait, Write, Goes, interrupt
    <2>3. ASSUME NEW t \in Sender, Request(t) \/ NativeSemPost(t) PROVE InterruptDue'
      BY <2>3 DEF Request, NativeSemPost, Goes, interrupt
    <2>4. CASE ExterTask
      BY <2>4 DEF ExterTask, TaskWakes, HasData, NoMore, ReadArgs, Read, Deliver,
                  senders, interrupt
    <2>5. CASE OtherRequest \/ Server \/ UNCHANGED vars
      BY <2>5 DEF OtherRequest, Server, vars, senders, interrupt
    <2> QED BY <2>1, <2>2, <2>3, <2>4, <2>5 DEF Next, Sends
  <1> QED BY <1>1, <1>2, TypeCorrect, PTL DEF Spec
-----------------------------------------------------------------------------
(* Messages go through a FIFO: BoundedFifo's steps are the taking of the   *)
(* semaphore, the writing of a message's last word, the reading of it, and *)
(* what the EXTER task does with the message.                              *)

Msgs(q) == [i \in 1 .. Len(q) |-> q[i].msg]
Last == Kept(pipe, LastWord)
In == IF Unsent = {} THEN None ELSE sending[CHOOSE t \in Unsent : TRUE]
Out == IF exter = "deliver" THEN got[1].msg ELSE None

LEMMA SentIs == Sent = Msgs(Last)
  BY DEF Sent, Msgs, Last

LEMMA MsgsAppend ==
  ASSUME NEW q \in Seq(Word), NEW w \in Word
  PROVE  /\ Len(Msgs(q)) = Len(q)
         /\ Msgs(Append(q, w)) = Append(Msgs(q), w.msg)
  <1>1. /\ Append(q, w) \in Seq(Word) /\ Len(Append(q, w)) = Len(q) + 1 /\ Len(q) \in Nat
        /\ \A i \in 1 .. Len(q) : Append(q, w)[i] = q[i]
        /\ Append(q, w)[Len(q) + 1] = w
    BY AppendProperties, LenProperties
  <1>2. \A v \in Word : v.msg \in Message
    BY WordFields
  <1>3. /\ Msgs(q) \in Seq(Message) /\ Len(Msgs(q)) = Len(q)
        /\ \A i \in 1 .. Len(q) : Msgs(q)[i] = q[i].msg
    BY <1>2, SeqDef, ElementOfSeq, LenProperties DEF Msgs
  <1>4. /\ Msgs(Append(q, w)) \in Seq(Message) /\ Len(Msgs(Append(q, w))) = Len(q) + 1
        /\ \A i \in 1 .. Len(q) + 1 : Msgs(Append(q, w))[i] = Append(q, w)[i].msg
    BY <1>1, <1>2, SeqDef, ElementOfSeq, LenProperties DEF Msgs
  <1>5. /\ Append(Msgs(q), w.msg) \in Seq(Message)
        /\ Len(Append(Msgs(q), w.msg)) = Len(q) + 1
        /\ \A i \in 1 .. Len(q) : Append(Msgs(q), w.msg)[i] = q[i].msg
        /\ Append(Msgs(q), w.msg)[Len(q) + 1] = w.msg
    BY <1>2, <1>3, AppendProperties
  <1>6. \A i \in 1 .. Len(q) + 1 : Msgs(Append(q, w))[i] = Append(Msgs(q), w.msg)[i]
    BY <1>1, <1>4, <1>5
  <1> QED BY <1>3, <1>4, <1>5, <1>6, SeqEqual

LEMMA MsgsTail ==
  ASSUME NEW q \in Seq(Word), q # <<>>
  PROVE  /\ Msgs(q) # <<>> /\ Head(Msgs(q)) = Head(q).msg
         /\ Tail(Msgs(q)) = Msgs(Tail(q))
  <1>1. \A v \in Word : v.msg \in Message
    BY WordFields
  <1>2. /\ Tail(q) \in Seq(Word) /\ Len(Tail(q)) = Len(q) - 1 /\ Len(q) \in Nat \ {0}
        /\ Head(q) = q[1] /\ \A i \in 1 .. Len(q) - 1 : Tail(q)[i] = q[i + 1]
    BY HeadTailProperties, LenProperties, EmptySeq
  <1>3. /\ Msgs(q) \in Seq(Message) /\ Len(Msgs(q)) = Len(q)
        /\ \A i \in 1 .. Len(q) : Msgs(q)[i] = q[i].msg
    BY <1>1, SeqDef, ElementOfSeq, LenProperties DEF Msgs
  <1>4. Msgs(q) # <<>>
    BY <1>2, <1>3, EmptySeq
  <1>5. /\ Msgs(Tail(q)) \in Seq(Message) /\ Len(Msgs(Tail(q))) = Len(q) - 1
        /\ \A i \in 1 .. Len(q) - 1 : Msgs(Tail(q))[i] = Tail(q)[i].msg
    BY <1>1, <1>2, SeqDef, ElementOfSeq, LenProperties DEF Msgs
  <1>6. /\ Tail(Msgs(q)) \in Seq(Message) /\ Len(Tail(Msgs(q))) = Len(q) - 1
        /\ Head(Msgs(q)) = Msgs(q)[1]
        /\ \A i \in 1 .. Len(q) - 1 : Tail(Msgs(q))[i] = Msgs(q)[i + 1]
    BY <1>2, <1>3, <1>4, HeadTailProperties
  <1>7. \A i \in 1 .. Len(q) - 1 : Tail(Msgs(q))[i] = Msgs(Tail(q))[i]
    BY <1>2, <1>3, <1>5, <1>6
  <1>8. Head(Msgs(q)) = Head(q).msg
    BY <1>2, <1>3, <1>6
  <1> QED BY <1>4, <1>5, <1>6, <1>7, <1>8, SeqEqual

\* The one sender that is writing is the one that is found.
LEMMA TheOne ==
  ASSUME NEW U, NEW f, NEW t, U = {t}
  PROVE  (IF U = {} THEN None ELSE f[CHOOSE x \in U : TRUE]) = f[t]
  <1>1. (CHOOSE x \in U : TRUE) \in U
    OBVIOUS
  <1> QED BY <1>1

\* A step that begins or ends no writing.
LEMMA SameIn ==
  ASSUME SemInv, Unsent' = Unsent, \A t \in Unsent : sending'[t] = sending[t]
  PROVE  In' = In
  <1>1. CASE Unsent = {}
    BY <1>1 DEF In
  <1>2. CASE Unsent # {}
    <2>1. PICK t \in Unsent : TRUE
      BY <1>2
    <2>2. Unsent = {t}
      BY <2>1 DEF SemInv, Unsent, Owns
    <2>3. In = sending[t] /\ In' = sending'[t]
      BY <2>2, TheOne DEF In
    <2> QED BY <2>1, <2>3
  <1> QED BY <1>1, <1>2

MailStep == Mail!Next \/ UNCHANGED <<Sent, In, Out>>

LEMMA WaitIsPutCall ==
  ASSUME IInv, NEW t \in Sender, NativeSemWait(t)
  PROVE  MailStep
  <1>1. /\ n2asem > 0 /\ place[t] = "wait" /\ place' = [place EXCEPT ![t] = "write"]
        /\ UNCHANGED <<pipe, sending, exter, got>>
    BY DEF NativeSemWait, Goes
  <1>2. n2asem # 0 /\ place \in [Sender -> {"idle", "wait", "write", "request", "post"}]
    BY <1>1 DEF IInv, TypeOK
  <1>3. Unsent = {} /\ Unsent' = {t}
    BY <1>1, <1>2 DEF IInv, SemInv, Owns, Unsent
  <1>4. In = None /\ In' = sending[t]
    BY <1>1, <1>3, TheOne DEF In
  <1>5. sending[t] \in Message
    BY <1>1 DEF IInv, SenderInv
  <1>6. Sent' = Sent /\ Out' = Out
    BY <1>1 DEF Sent, LastWord, Out
  <1>7. Mail!PutCall(sending[t])
    BY <1>4, <1>6 DEF Mail!PutCall, In, Out
  <1> QED BY <1>5, <1>7 DEF MailStep, Mail!Next

LEMMA WriteIsPut ==
  ASSUME IInv, NEW t \in Sender, Write(t)
  PROVE  MailStep
  <1> DEFINE k == written[t] + 1
             m == sending[t]
             w == [msg |-> m, index |-> k]
  <1>1. /\ place[t] = "write" /\ pipe' = Append(pipe, w) /\ Len(pipe) < Capacity
        /\ place' = [place EXCEPT ![t] = IF k = Words[m] THEN "request" ELSE "write"]
        /\ UNCHANGED <<sending, exter, got>>
    BY DEF Write, Goes
  <1>2. /\ m \in Message /\ written[t] < Words[m] /\ written[t] \in 0 .. 4
        /\ Words[m] \in 2 .. 4 /\ pipe \in Seq(Word)
        /\ place \in [Sender -> {"idle", "wait", "write", "request", "post"}]
    BY <1>1, WordsTypes DEF IInv, SenderInv, TypeOK
  <1>3. k \in 1 .. 4 /\ w \in Word /\ w.msg = m /\ w.index = k
    BY <1>2 DEF Word
  <1>4. Unsent = {t}
    BY <1>1 DEF IInv, SemInv, Owns, Unsent
  <1> HIDE DEF k, m, w
  <1>5. Last' = IF w \in LastWord THEN Append(Last, w) ELSE Last
    BY <1>1, <1>2, <1>3, KeptAppend DEF Last, LastWord
  <1>6. w \in LastWord <=> k = Words[m]
    BY <1>3 DEF LastWord
  <1>7. Last \in Seq(Word) /\ Len(Last) <= Len(pipe)
    BY <1>2, KeptType DEF Last
  <1>8. Out' = Out
    BY <1>1 DEF Out
  <1>9. CASE k = Words[m]
    <2>1. Sent' = Append(Sent, m) /\ Len(Sent) = Len(Last)
      <3>1. Msgs(Last') = Append(Msgs(Last), m) /\ Len(Msgs(Last)) = Len(Last)
        BY <1>3, <1>5, <1>6, <1>7, <1>9, MsgsAppend
      <3> QED BY <3>1, SentIs DEF Sent, Msgs, Last
    <2>2. Unsent' = {}
      BY <1>1, <1>2, <1>4, <1>9 DEF Unsent
    <2>3. In = m /\ In' = None
      BY <1>4, <2>2, TheOne DEF In, m
    <2>4. m # None
      BY <1>2, NativeAssumption
    <2>5. Len(Sent) < Capacity
      BY <1>1, <1>2, <1>7, <2>1, NativeAssumption, LenProperties
    <2>6. Mail!Put
      BY <1>8, <2>1, <2>3, <2>4, <2>5 DEF Mail!Put, In, Out
    <2> QED BY <2>6 DEF MailStep, Mail!Next
  <1>10. CASE k # Words[m]
    <2>1. Last' = Last
      BY <1>5, <1>6, <1>10
    <2>2. Sent' = Sent
      BY <2>1 DEF Sent, Last
    <2>3. Unsent' = Unsent
      BY <1>1, <1>2, <1>10 DEF Unsent
    <2>4. In' = In
      BY <1>1, <2>3, SameIn DEF IInv
    <2> QED BY <1>8, <2>2, <2>4 DEF MailStep
  <1> QED BY <1>9, <1>10

LEMMA ReadIsGet ==
  ASSUME IInv, exter \in {"helper", "args"}, Read
  PROVE  MailStep
  <1> DEFINE w == pipe[1]
  <1>1. /\ pipe # <<>> /\ pipe' = Tail(pipe)
        /\ exter' = IF Len(got') = Words[got'[1].msg] THEN "deliver" ELSE "args"
        /\ UNCHANGED <<place, sending>>
    BY ReadFacts
  <1>2. w \in Word /\ w.index = Len(got') /\ w.msg = got'[1].msg
    BY ReadFacts
  <1>3. pipe \in Seq(Word) /\ Head(pipe) = w
    BY <1>1, EmptySeq, HeadTailProperties DEF IInv, TypeOK
  <1> HIDE DEF w
  <1>4. w \in LastWord <=> exter' = "deliver"
    BY <1>1, <1>2 DEF LastWord
  <1>5. In' = In /\ Out = None
    BY <1>1, SameIn DEF Unsent, IInv, Out
  <1>6. IF w \in LastWord
          THEN Last # <<>> /\ Head(Last) = w /\ Tail(Last) = Last'
          ELSE Last' = Last
    BY <1>1, <1>3, KeptTail DEF Last, LastWord
  <1>7. CASE exter' = "deliver"
    <2>1. Last \in Seq(Word)
      BY <1>3, KeptType DEF Last
    <2>2. Msgs(Last) # <<>> /\ Head(Msgs(Last)) = w.msg /\ Tail(Msgs(Last)) = Msgs(Last')
      BY <1>4, <1>6, <1>7, <2>1, MsgsTail
    <2>3. Sent # <<>> /\ Head(Sent) = w.msg /\ Tail(Sent) = Sent'
      BY <2>2 DEF Sent, Msgs, Last
    <2>4. Out' = w.msg
      BY <1>2, <1>7 DEF Out
    <2>5. Mail!Get
      BY <1>5, <2>3, <2>4 DEF Mail!Get, In, Out
    <2> QED BY <2>5 DEF MailStep, Mail!Next
  <1>8. CASE exter' # "deliver"
    <2>1. Sent' = Sent /\ Out' = None
      BY <1>4, <1>6, <1>8 DEF Sent, Last, Out
    <2> QED BY <1>5, <2>1 DEF MailStep
  <1> QED BY <1>7, <1>8

LEMMA DeliverIsReturn ==
  ASSUME IInv, Deliver
  PROVE  MailStep
  <1>1. exter = "deliver" /\ exter' = "helper" /\ UNCHANGED <<pipe, place, sending>>
    BY DEF Deliver, senders
  <1>2. Sent' = Sent /\ In' = In
    BY <1>1, SameIn DEF Sent, LastWord, Unsent, IInv
  <1>3. got[1] \in Word
    BY <1>1, EmptySeq, ElementOfSeq DEF IInv, TypeOK, GotInv
  <1>4. Out # None /\ Out' = None
    BY <1>1, <1>3, WordFields, NativeAssumption DEF Out
  <1>5. Mail!GetReturn
    BY <1>2, <1>4 DEF Mail!GetReturn, In, Out
  <1> QED BY <1>5 DEF MailStep, Mail!Next

LEMMA OthersStutter ==
  ASSUME IInv,
         \/ \E t \in Sender, m \in Message : Call(t, m)
         \/ \E t \in Sender : Request(t) \/ NativeSemPost(t)
         \/ OtherRequest \/ Server \/ TaskWakes \/ NoMore \/ UNCHANGED vars
  PROVE  MailStep
  <1> USE DEF IInv, TypeOK
  <1>1. pipe' = pipe
    BY DEF Call, Request, NativeSemPost, OtherRequest, Server, TaskWakes, NoMore, vars
  <1>2. Out' = Out
    BY DEF Call, Request, NativeSemPost, OtherRequest, Server, TaskWakes, NoMore, vars, Out
  <1>3. Unsent' = Unsent /\ \A t \in Unsent : sending'[t] = sending[t]
    <2>1. ASSUME NEW t \in Sender, NEW m \in Message, Call(t, m)
          PROVE  Unsent' = Unsent /\ \A u \in Unsent : sending'[u] = sending[u]
      BY <2>1 DEF Call, Goes, Unsent
    <2>2. ASSUME NEW t \in Sender, Request(t) \/ NativeSemPost(t)
          PROVE  Unsent' = Unsent /\ \A u \in Unsent : sending'[u] = sending[u]
      BY <2>2 DEF Request, NativeSemPost, Goes, Unsent
    <2>3. CASE OtherRequest \/ Server \/ TaskWakes \/ NoMore \/ UNCHANGED vars
      BY <2>3 DEF OtherRequest, Server, TaskWakes, NoMore, vars, senders, Unsent
    <2> QED BY <2>1, <2>2, <2>3
  <1>4. In' = In
    BY <1>3, SameIn
  <1> QED BY <1>1, <1>2, <1>4 DEF MailStep, Sent, LastWord

\* Whatever threads send at once, and however slowly the task reads: seen from outside each
\* message goes through a FIFO, whole, once, and in the order of the semaphore's owners.
THEOREM Refinement == Spec => MailSpec
  <1>1. Init => Mail!Init
    <2> SUFFICES ASSUME Init PROVE Mail!Init
      OBVIOUS
    <2>1. Unsent = {} /\ pipe = <<>> /\ exter = "wait"
      BY DEF Init, Unsent
    <2>2. Kept(pipe, LastWord) = <<>>
      BY <2>1, KeptEmpty
    <2>3. Sent = <<>>
      BY <2>2, EmptySeq DEF Sent
    <2> QED BY <2>1, <2>3 DEF Mail!Init
  <1>2. IInv /\ [Next]_vars => [Mail!Next]_(Mail!fifoVars)
    <2> SUFFICES ASSUME IInv, [Next]_vars PROVE [Mail!Next]_(Mail!fifoVars)
      OBVIOUS
    <2>1. MailStep
      <3>1. ASSUME NEW t \in Sender, Sends(t) PROVE MailStep
        BY <3>1, WaitIsPutCall, WriteIsPut, OthersStutter DEF Sends
      <3>2. CASE ExterTask
        BY <3>2, ReadIsGet, DeliverIsReturn, OthersStutter DEF ExterTask, HasData, ReadArgs
      <3>3. CASE OtherRequest \/ Server \/ UNCHANGED vars
        BY <3>3, OthersStutter
      <3>4. CASE \E t \in Sender, m \in Message : Call(t, m)
        BY <3>4, OthersStutter
      <3> QED BY <3>1, <3>2, <3>3, <3>4 DEF Next
    <2> QED BY <2>1 DEF MailStep, Mail!fifoVars, In, Out
  <1> QED BY <1>1, <1>2, Invariance, PTL DEF Spec, MailSpec, Mail!Spec
-----------------------------------------------------------------------------
(* How many words the pipe holds: at most four of each message under way,  *)
(* and fewer while another is being written.                               *)

\* The message of a sender is under way, and not all of it is written.
Yet(t) == place[t] \in {"wait", "write"}

UnwrittenInv ==
  \A t \in Sender : Yet(t) =>
    /\ sending[t] \in flying
    /\ \A u \in Sender : Yet(u) /\ sending[t] = sending[u] => t = u
    /\ \A i \in 1 .. Len(pipe) : pipe[i].msg = sending[t] => pipe[i].index <= written[t]
    /\ got # <<>> /\ got[1].msg = sending[t] => Len(got) <= written[t]

\* No word is in the pipe twice, nor still there once it is parsed.
DistinctInv == \A i \in 1 .. Len(pipe) : /\ pipe[i].msg \in flying
                                         /\ \A j \in 1 .. Len(pipe) : pipe[i] = pipe[j] => i = j
                                         /\ \A j \in 1 .. Len(got) : pipe[i] # got[j]

FlightInv == /\ IsFiniteSet(flying)
             /\ got # <<>> => got[1].msg \in flying
             /\ UnwrittenInv /\ DistinctInv

LEMMA CallFlies ==
  ASSUME IInv, FlightInv, NEW t \in Sender, NEW m \in Message, Call(t, m)
  PROVE  FlightInv'
  <1>1. /\ place[t] = "idle" /\ place' = [place EXCEPT ![t] = "wait"] /\ m \notin flying
        /\ flying' = flying \cup {m} /\ sending' = [sending EXCEPT ![t] = m]
        /\ UNCHANGED <<pipe, written, got>>
    BY DEF Call, Goes
  <1>2. /\ place \in [Sender -> {"idle", "wait", "write", "request", "post"}]
        /\ sending \in [Sender -> Message \cup {None}]
    BY DEF IInv, TypeOK
  <1>3. IsFiniteSet(flying') /\ (got' # <<>> => got'[1].msg \in flying') /\ DistinctInv'
    BY <1>1, FS_AddElement DEF FlightInv, DistinctInv
  <1>4. UnwrittenInv'
    BY <1>1, <1>2 DEF FlightInv, UnwrittenInv, DistinctInv, Yet
  <1> QED BY <1>3, <1>4 DEF FlightInv

LEMMA WriteFlies ==
  ASSUME IInv, FlightInv, NEW t \in Sender, Write(t)
  PROVE  FlightInv'
  <1> DEFINE k == written[t] + 1
             m == sending[t]
             w == [msg |-> m, index |-> k]
  <1>1. /\ pipe' = Append(pipe, w) /\ place[t] = "write" /\ Yet(t)
        /\ written' = [written EXCEPT ![t] = k]
        /\ place' = [place EXCEPT ![t] = IF k = Words[m] THEN "request" ELSE "write"]
        /\ UNCHANGED <<sending, flying, got>>
    BY DEF Write, Goes, Yet
  <1>2. /\ place \in [Sender -> {"idle", "wait", "write", "request", "post"}]
        /\ written \in [Sender -> 0 .. 4] /\ pipe \in Seq(Word) /\ got \in Seq(Word)
        /\ m \in Message /\ written[t] < Words[m] /\ Words[m] \in 2 .. 4
    BY <1>1, WordsTypes DEF IInv, TypeOK, SenderInv
  <1>3. written[t] \in Nat /\ k \in 1 .. 4 /\ w \in Word /\ w.msg = m /\ w.index = k
    BY <1>2 DEF Word
  <1>4. /\ \A i \in 1 .. Len(pipe) : pipe[i].msg = m => pipe[i].index <= written[t]
        /\ m \in flying /\ \A u \in Sender : Yet(u) /\ sending[u] = m => u = t
        /\ got # <<>> /\ got[1].msg = m => Len(got) <= written[t]
    BY <1>1 DEF FlightInv, UnwrittenInv
  <1> HIDE DEF w, k, m
  <1>5. /\ Len(pipe) \in Nat /\ Len(pipe') = Len(pipe) + 1
        /\ \A i \in 1 .. Len(pipe) : pipe'[i] = pipe[i]
        /\ pipe'[Len(pipe) + 1] = w
    BY <1>1, <1>2, <1>3, AppendProperties, LenProperties
  <1>6. \A i \in 1 .. Len(pipe) : pipe[i] # w
    BY <1>3, <1>4 DEF k
  <1>7. \A j \in 1 .. Len(got) : got[j] # w
    <2> SUFFICES ASSUME NEW j \in 1 .. Len(got), got[j] = w PROVE FALSE
      OBVIOUS
    <2>1. got[j] = [msg |-> got[1].msg, index |-> j]
      BY DEF IInv, GotInv, WholeMessages
    <2>2. Len(got) \in Nat /\ got # <<>>
      BY <1>2, LenProperties, EmptySeq
    <2>3. got[1].msg = m /\ j = k
      BY <2>1, <1>3
    <2> QED BY <2>2, <2>3, <1>3, <1>4 DEF k
  <1>8. DistinctInv'
    <2> SUFFICES ASSUME NEW i \in 1 .. Len(pipe) + 1
                 PROVE  /\ pipe'[i].msg \in flying
                        /\ \A j \in 1 .. Len(pipe) + 1 : pipe'[i] = pipe'[j] => i = j
                        /\ \A j \in 1 .. Len(got) : pipe'[i] # got[j]
      BY <1>1, <1>5 DEF DistinctInv
    <2>1. CASE i \in 1 .. Len(pipe)
      BY <2>1, <1>5, <1>6 DEF FlightInv, DistinctInv
    <2>2. CASE i = Len(pipe) + 1
      BY <2>2, <1>3, <1>4, <1>5, <1>6, <1>7
    <2> QED BY <2>1, <2>2, <1>5
  <1>9. UnwrittenInv'
    <2> SUFFICES ASSUME NEW u \in Sender, Yet(u)'
                 PROVE  /\ sending[u] \in flying
                        /\ \A v \in Sender : Yet(v)' /\ sending[u] = sending[v] => u = v
                        /\ \A i \in 1 .. Len(pipe) + 1 :
                             pipe'[i].msg = sending[u] => pipe'[i].index <= written'[u]
                        /\ got # <<>> /\ got[1].msg = sending[u] => Len(got) <= written'[u]
      BY <1>1, <1>5 DEF UnwrittenInv
    <2>1. \A v \in Sender : Yet(v)' => Yet(v)
      BY <1>1, <1>2 DEF Yet
    <2>2. /\ sending[u] \in flying
          /\ \A v \in Sender : Yet(v)' /\ sending[u] = sending[v] => u = v
      BY <2>1 DEF FlightInv, UnwrittenInv
    <2>3. written'[u] = IF u = t THEN k ELSE written[u]
      BY <1>1, <1>2
    <2>4. written[u] \in Nat /\ written[u] <= written'[u]
      BY <1>2, <1>3, <2>3 DEF k
    <2>5. \A i \in 1 .. Len(pipe) : pipe[i].msg = sending[u] => pipe[i].index <= written[u]
      BY <2>1 DEF FlightInv, UnwrittenInv
    <2>6. \A i \in 1 .. Len(pipe) : pipe[i].index \in Nat
      BY <1>2, WordFields, ElementOfSeq
    <2>7. \A i \in 1 .. Len(pipe) + 1 :
            pipe'[i].msg = sending[u] => pipe'[i].index <= written'[u]
      <3>1. CASE u = t
        BY <3>1, <1>3, <1>5, <2>3, <2>4, <2>5, <2>6 DEF m
      <3>2. CASE u # t
        BY <3>2, <1>3, <1>4, <1>5, <2>1, <2>3, <2>4, <2>5, <2>6
      <3> QED BY <3>1, <3>2
    <2>8. got # <<>> /\ got[1].msg = sending[u] => Len(got) <= written'[u]
      <3>1. got # <<>> /\ got[1].msg = sending[u] => Len(got) <= written[u]
        BY <2>1 DEF FlightInv, UnwrittenInv
      <3>2. Len(got) \in Nat /\ written'[u] \in Nat
        BY <1>2, <1>3, <2>3, <2>4, LenProperties
      <3> QED BY <2>4, <3>1, <3>2
    <2> QED BY <2>2, <2>7, <2>8
  <1> QED BY <1>1, <1>8, <1>9 DEF FlightInv

LEMMA ReadFlies ==
  ASSUME IInv, FlightInv, exter \in {"helper", "args"}, Read
  PROVE  FlightInv'
  <1> DEFINE w == pipe[1]
             n == Len(got)
  <1>1. /\ pipe # <<>> /\ Len(pipe) \in Nat \ {0} /\ n \in Nat
        /\ Len(pipe') = Len(pipe) - 1 /\ \A i \in 1 .. Len(pipe') : pipe'[i] = pipe[i + 1]
        /\ UNCHANGED <<place, sending, written, flying>>
    BY ReadFacts
  <1>2. /\ Len(got') = n + 1 /\ got' # <<>>
        /\ \A i \in 1 .. n : got'[i] = got[i]
        /\ got'[n + 1] = w /\ w.index = n + 1 /\ w.msg = got'[1].msg
    BY ReadFacts
  <1> HIDE DEF w, n
  <1>3. w = pipe[1] /\ w.msg \in flying /\ 1 \in 1 .. Len(pipe)
    BY <1>1 DEF FlightInv, DistinctInv, w
  <1>4. DistinctInv'
    <2> SUFFICES ASSUME NEW i \in 1 .. Len(pipe')
                 PROVE  /\ pipe'[i].msg \in flying
                        /\ \A j \in 1 .. Len(pipe') : pipe'[i] = pipe'[j] => i = j
                        /\ \A j \in 1 .. n + 1 : pipe'[i] # got'[j]
      BY <1>1, <1>2 DEF DistinctInv
    <2>1. /\ i + 1 \in 1 .. Len(pipe) /\ i + 1 # 1 /\ pipe'[i] = pipe[i + 1]
          /\ \A j \in 1 .. Len(pipe') : j + 1 \in 1 .. Len(pipe) /\ pipe'[j] = pipe[j + 1]
      BY <1>1
    <2>2. /\ pipe[i + 1].msg \in flying /\ pipe[i + 1] # w
          /\ \A j \in 1 .. Len(pipe) : pipe[i + 1] = pipe[j] => i + 1 = j
          /\ \A j \in 1 .. n : pipe[i + 1] # got[j]
      BY <1>3, <2>1 DEF FlightInv, DistinctInv, n
    <2> QED BY <1>1, <1>2, <2>1, <2>2
  <1>5. UnwrittenInv'
    <2> SUFFICES ASSUME NEW u \in Sender, Yet(u)
                 PROVE  /\ sending[u] \in flying
                        /\ \A v \in Sender : Yet(v) /\ sending[u] = sending[v] => u = v
                        /\ \A i \in 1 .. Len(pipe') :
                             pipe'[i].msg = sending[u] => pipe'[i].index <= written[u]
                        /\ got'[1].msg = sending[u] => Len(got') <= written[u]
      BY <1>1 DEF UnwrittenInv, Yet
    <2>1. /\ sending[u] \in flying
          /\ \A v \in Sender : Yet(v) /\ sending[u] = sending[v] => u = v
          /\ \A i \in 1 .. Len(pipe) : pipe[i].msg = sending[u] => pipe[i].index <= written[u]
      BY DEF FlightInv, UnwrittenInv
    <2>2. \A i \in 1 .. Len(pipe') : i + 1 \in 1 .. Len(pipe) /\ pipe'[i] = pipe[i + 1]
      BY <1>1
    <2> QED BY <1>2, <1>3, <2>1, <2>2
  <1> QED BY <1>1, <1>2, <1>3, <1>4, <1>5 DEF FlightInv

LEMMA DeliverFlies ==
  ASSUME IInv, FlightInv, Deliver
  PROVE  FlightInv'
  <1> DEFINE m == got[1].msg
  <1>1. /\ exter = "deliver" /\ got' = <<>> /\ flying' = flying \ {m}
        /\ UNCHANGED <<pipe, place, sending, written>>
    BY DEF Deliver, senders
  <1>2. /\ got # <<>> /\ Len(got) = Words[m] /\ Len(got) \in Nat /\ pipe \in Seq(Word)
        /\ \A i \in 1 .. Len(got) : got[i] = [msg |-> m, index |-> i]
    BY <1>1, LenProperties DEF IInv, GotInv, WholeMessages, TypeOK
  <1>3. \A i \in 1 .. Len(pipe) : pipe[i].msg # m
    <2> SUFFICES ASSUME NEW i \in 1 .. Len(pipe), pipe[i].msg = m PROVE FALSE
      OBVIOUS
    <2>1. pipe[i] \in Word /\ pipe[i].index <= Len(got)
      BY <1>2, ElementOfSeq DEF IInv, PipeInv
    <2>2. pipe[i] = [msg |-> m, index |-> pipe[i].index] /\ pipe[i].index \in 1 .. Len(got)
      BY <1>2, <2>1 DEF Word
    <2> QED BY <1>2, <2>2 DEF FlightInv, DistinctInv
  <1>4. \A t \in Sender : Yet(t) => sending[t] # m
    <2> SUFFICES ASSUME NEW t \in Sender, Yet(t), sending[t] = m PROVE FALSE
      OBVIOUS
    <2>1. Len(got) <= written[t]
      BY <1>2 DEF FlightInv, UnwrittenInv
    <2>2. written[t] < Words[m] /\ Words[m] \in 2 .. 4 /\ written[t] \in 0 .. 4
      BY WordsTypes DEF Yet, IInv, SenderInv, TypeOK
    <2> QED BY <1>2, <2>1, <2>2
  <1>5. IsFiniteSet(flying')
    BY <1>1, FS_RemoveElement DEF FlightInv
  <1> QED BY <1>1, <1>3, <1>4, <1>5 DEF FlightInv, UnwrittenInv, DistinctInv, Yet

LEMMA OthersFly ==
  ASSUME FlightInv, TypeOK, UNCHANGED <<pipe, written, sending, flying, got>>,
         \A t \in Sender : Yet(t)' => Yet(t)
  PROVE  FlightInv'
  BY DEF FlightInv, UnwrittenInv, DistinctInv

LEMMA FlightInvariance == Spec => []FlightInv
  <1>1. Init => FlightInv
    <2> SUFFICES ASSUME Init PROVE FlightInv
      OBVIOUS
    <2>1. pipe = <<>> /\ got = <<>> /\ flying = {} /\ \A t \in Sender : ~Yet(t)
      BY DEF Init, Yet
    <2> QED BY <2>1, FS_EmptySet DEF FlightInv, UnwrittenInv, DistinctInv
  <1>2. IInv /\ FlightInv /\ [Next]_vars => FlightInv'
    <2> SUFFICES ASSUME IInv, FlightInv, [Next]_vars PROVE FlightInv'
      OBVIOUS
    <2>1. TypeOK /\ place \in [Sender -> {"idle", "wait", "write", "request", "post"}]
      BY DEF IInv, TypeOK
    <2>2. ASSUME NEW t \in Sender, NativeSemWait(t) \/ Request(t) PROVE FlightInv'
      BY <2>1, <2>2, OthersFly DEF NativeSemWait, Request, Goes, Yet
    <2>3. ASSUME NEW t \in Sender, NativeSemPost(t) PROVE FlightInv'
      <3>1. /\ place[t] = "post" /\ place' = [place EXCEPT ![t] = "idle"]
            /\ sending' = [sending EXCEPT ![t] = None] /\ written' = [written EXCEPT ![t] = 0]
            /\ UNCHANGED <<pipe, flying, got>>
        BY <2>3 DEF NativeSemPost, Goes
      <3>2. \A u \in Sender : Yet(u)' => u # t /\ Yet(u)
        BY <2>1, <3>1 DEF Yet
      <3>3. \A u \in Sender : u # t => sending'[u] = sending[u] /\ written'[u] = written[u]
        BY <2>1, <3>1 DEF TypeOK
      <3> QED BY <3>1, <3>2, <3>3 DEF FlightInv, UnwrittenInv, DistinctInv
    <2>4. CASE ExterTask
      <3>1. CASE TaskWakes \/ NoMore
        BY <2>1, <3>1, OthersFly DEF TaskWakes, NoMore, senders, Yet
      <3> QED BY <2>4, <3>1, ReadFlies, DeliverFlies DEF ExterTask, HasData, ReadArgs
    <2>5. CASE OtherRequest \/ Server \/ UNCHANGED vars
      BY <2>1, <2>5, OthersFly DEF OtherRequest, Server, vars, senders, Yet
    <2> QED BY <2>2, <2>3, <2>4, <2>5, CallFlies, WriteFlies DEF Next, Sends
  <1> QED BY <1>1, <1>2, Invariance, PTL DEF Spec

RoomLeft == \A t \in Sender : place[t] = "write" => Len(pipe) < 4 * Cardinality(flying)

\* What is in the pipe while a sender has a word to write is less than four words for each
\* message under way: 299 words are enough for 74 messages, of whatever kind.
THEOREM PipeBound == Spec => []RoomLeft
  <1>1. ASSUME IInv, FlightInv, NEW t \in Sender, place[t] = "write"
        PROVE  Len(pipe) < 4 * Cardinality(flying)
    <2> DEFINE next == [msg |-> sending[t], index |-> written[t] + 1]
               q == Append(pipe, next)
               f == [i \in 1 .. Len(q) |-> <<q[i].msg, q[i].index>>]
               T == flying \X (1 .. 4)
    <2>1. pipe \in Seq(Word) /\ next \in Word /\ next.msg \in flying
      <3>1. sending[t] \in flying /\ flying \subseteq Message
        BY <1>1 DEF FlightInv, UnwrittenInv, Yet, IInv, TypeOK
      <3>2. written[t] < Words[sending[t]] /\ written[t] \in 0 .. 4
        BY <1>1 DEF IInv, SenderInv, TypeOK
      <3>3. Words[sending[t]] \in 2 .. 4
        BY <3>1, WordsTypes
      <3>4. written[t] + 1 \in 1 .. 4
        BY <3>2, <3>3
      <3> QED BY <1>1, <3>1, <3>4 DEF Word, IInv, TypeOK
    <2>2. \A i \in 1 .. Len(pipe) : pipe[i] # next /\ pipe[i].msg \in flying
      <3>1. written[t] \in Nat
        BY <1>1 DEF IInv, TypeOK
      <3> QED BY <1>1, <3>1 DEF FlightInv, UnwrittenInv, DistinctInv, Yet
    <2> HIDE DEF next
    <2>3. /\ q \in Seq(Word) /\ Len(q) = Len(pipe) + 1 /\ Len(pipe) \in Nat
          /\ \A i \in 1 .. Len(pipe) : q[i] = pipe[i]
          /\ q[Len(pipe) + 1] = next
      BY <2>1, AppendProperties, LenProperties
    <2> HIDE DEF q
    <2>4. \A i \in 1 .. Len(q) : q[i].msg \in flying /\ q[i] \in Word
      BY <2>1, <2>2, <2>3, ElementOfSeq
    <2>5. \A i, j \in 1 .. Len(q) : q[i] = q[j] => i = j
      BY <1>1, <2>2, <2>3 DEF FlightInv, DistinctInv
    <2>6. f \in Injection(1 .. Len(q), T)
      <3>1. f \in [1 .. Len(q) -> T]
        BY <2>4, WordFields
      <3>2. ASSUME NEW i \in 1 .. Len(q), NEW j \in 1 .. Len(q), f[i] = f[j] PROVE i = j
        <4>1. q[i].msg = q[j].msg /\ q[i].index = q[j].index
          BY <3>2
        <4>2. q[i] = q[j]
          BY <2>4, <4>1 DEF Word
        <4> QED BY <2>5, <4>2
      <3> QED BY <3>1, <3>2 DEF Injection, IsInjective
    <2>7. IsFiniteSet(1 .. 4) /\ Cardinality(1 .. 4) = 4 /\ Cardinality(1 .. Len(q)) = Len(q)
      <3>1. 1 \in Int /\ 4 \in Int /\ Len(q) \in Int /\ Len(q) >= 1
        BY <2>3
      <3>2. IsFiniteSet(1 .. 4) /\ Cardinality(1 .. 4) = IF 1 > 4 THEN 0 ELSE 4 - 1 + 1
        BY <3>1, FS_Interval, Zenon
      <3>3. Cardinality(1 .. Len(q)) = IF 1 > Len(q) THEN 0 ELSE Len(q) - 1 + 1
        BY <3>1, FS_Interval, Zenon
      <3> QED BY <3>1, <3>2, <3>3
    <2>8. IsFiniteSet(T) /\ Cardinality(T) = Cardinality(flying) * 4
      BY <1>1, <2>7, FS_Product DEF FlightInv
    <2>9. Len(q) <= Cardinality(flying) * 4
      <3> HIDE DEF f, T
      <3> QED BY <2>6, <2>7, <2>8, FS_Injection
    <2>10. Cardinality(flying) \in Nat
      BY <1>1, FS_CardinalityType DEF FlightInv
    <2> QED BY <2>3, <2>9, <2>10
  <1>2. IInv /\ FlightInv => RoomLeft
    BY <1>1 DEF RoomLeft
  <1> QED BY <1>2, Invariance, FlightInvariance, PTL

\* A sender that can go on: to the semaphore, with its next word, or past the last one.
Moves(t) == \/ place[t] = "wait" /\ n2asem = 1
            \/ place[t] = "write" /\ Len(pipe) < Capacity
            \/ place[t] \in {"request", "post"}
SomeoneMoves == (\E t \in Sender : place[t] # "idle") /\ 4 * Cardinality(flying) <= Capacity
                  => \E t \in Sender : Moves(t)

\* While what is under way fits into the pipe no senders wait for each other, nor the emulation
\* thread for the room that only it can make.
THEOREM SendersMove == Spec => []SomeoneMoves
  <1> DEFINE Owned == n2asem = 0 => \E t \in Sender : Owns(t)
  <1>1. Init => Owned
    BY DEF Init
  <1>2. IInv /\ Owned /\ [Next]_vars => Owned'
    <2> SUFFICES ASSUME IInv, Owned, [Next]_vars PROVE Owned'
      OBVIOUS
    <2>1. /\ place \in [Sender -> {"idle", "wait", "write", "request", "post"}]
          /\ n2asem \in {0, 1}
      BY DEF IInv, TypeOK
    <2>2. ASSUME NEW t \in Sender, NativeSemWait(t) \/ Write(t) \/ Request(t) PROVE Owned'
      BY <2>1, <2>2 DEF NativeSemWait, Write, Request, Goes, Owns
    <2>3. ASSUME NEW t \in Sender, NativeSemPost(t) PROVE Owned'
      BY <2>1, <2>3 DEF NativeSemPost
    <2>4. ASSUME NEW t \in Sender, NEW m \in Message, Call(t, m) PROVE Owned'
      BY <2>1, <2>4 DEF Call, Goes, Owns
    <2>5. CASE ExterTask \/ OtherRequest \/ Server \/ UNCHANGED vars
      BY <2>5 DEF ExterTask, TaskWakes, HasData, NoMore, ReadArgs, Read, Deliver, OtherRequest,
                  Server, vars, senders, Owns
    <2> QED BY <2>2, <2>3, <2>4, <2>5 DEF Next, Sends
  <1>3. ASSUME IInv, FlightInv, RoomLeft, Owned PROVE SomeoneMoves
    <2> SUFFICES ASSUME NEW t \in Sender, place[t] # "idle", 4 * Cardinality(flying) <= Capacity
                 PROVE  \E u \in Sender : Moves(u)
      BY DEF SomeoneMoves
    <2>1. \A u \in Sender : Owns(u) => Moves(u)
      <3>1. Cardinality(flying) \in Nat /\ Len(pipe) \in Nat /\ Capacity \in Nat
        BY <1>3, FS_CardinalityType, LenProperties, NativeAssumption DEF FlightInv, IInv, TypeOK
      <3> QED BY <1>3, <3>1 DEF Owns, Moves, RoomLeft
    <2>2. CASE n2asem = 0
      BY <1>3, <2>1, <2>2
    <2>3. CASE n2asem = 1
      BY <1>3, <2>1, <2>3 DEF Moves, Owns, IInv, TypeOK
    <2> QED BY <1>3, <2>2, <2>3 DEF IInv, TypeOK
  <1> QED BY <1>1, <1>2, <1>3, Invariance, FlightInvariance, PipeBound, PTL DEF Spec
=============================================================================
