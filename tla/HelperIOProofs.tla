--------------------------- MODULE HelperIOProofs ---------------------------
(***************************************************************************)
(* Theorems on the bytes of the mutate helper, for lines and bodies of any *)
(* length: what Split and Utf8 compute, by induction over their arguments, *)
(* and then the reader and the truncation of bodies.                       *)
(***************************************************************************)
EXTENDS HelperIO, Induction

Nothing == [lines |-> <<>>, rest |-> <<>>]

(* What was split after each of the first N bytes.                         *)
History(g, bytes, N) ==
    g = [n \in 0..N |-> IF n = 0 THEN Nothing ELSE Taken(g[n - 1], bytes[n])]

(* A recursive function is there: it grows by one value at a time.         *)
LEMMA HistoryExists ==
    ASSUME NEW bytes, NEW N \in Nat
    PROVE  \E g : History(g, bytes, N)
<1> DEFINE T == {n \in Nat : \E g : History(g, bytes, n)}
<1>1. 0 \in T
  <2>1. History([n \in 0..0 |-> Nothing], bytes, 0)
    BY DEF History
  <2> QED
    BY <2>1
<1>2. ASSUME NEW n \in T
      PROVE  n + 1 \in T
  <2>1. PICK g : History(g, bytes, n)
    BY <1>2
  <2>2. PICK h : h = [k \in 0..(n + 1) |->
                         IF k = n + 1 THEN Taken(g[n], bytes[n + 1]) ELSE g[k]]
    OBVIOUS
  <2>3. n \in Nat
    BY <1>2
  <2>4. ASSUME NEW k \in 0..(n + 1)
        PROVE  h[k] = IF k = 0 THEN Nothing ELSE Taken(h[k - 1], bytes[k])
    <3>1. CASE k = n + 1
      <4>1. h[k - 1] = g[n] /\ k # 0
        BY <2>2, <2>3, <3>1
      <4> QED
        BY <2>2, <2>3, <3>1, <4>1
    <3>2. CASE k # n + 1
      <4>1. k \in 0..n /\ h[k] = g[k] /\ (k # 0 => k - 1 \in 0..n /\ h[k - 1] = g[k - 1])
        BY <2>2, <2>3, <3>2
      <4> QED
        BY <2>1, <4>1 DEF History
    <3> QED
      BY <3>1, <3>2
  <2>5. History(h, bytes, n + 1)
    BY <2>2, <2>4 DEF History
  <2> QED
    BY <2>3, <2>5
<1> HIDE DEF T
<1>3. T \in SUBSET Nat
  BY DEF T
<1>4. T = Nat
  BY <1>1, <1>2, <1>3, NumberInduction
<1> QED
  BY <1>4 DEF T

(* It depends on the bytes so far, and on nothing else.                    *)
LEMMA HistoryIsUnique ==
    ASSUME NEW g, NEW h, NEW b, NEW c, NEW N \in Nat, NEW M \in Nat, N <= M,
           History(g, b, N), History(h, c, M), \A n \in 1..N : b[n] = c[n]
    PROVE  \A n \in 0..N : g[n] = h[n]
<1> DEFINE T == {n \in 0..N : g[n] = h[n]}
<1>1. 0 \in T
  BY DEF History
<1>2. ASSUME NEW n \in 0..(N - 1), n \in T
      PROVE  n + 1 \in T
  <2>1. /\ n + 1 \in 0..N /\ n + 1 \in 0..M /\ n + 1 # 0 /\ n + 1 - 1 = n
        /\ b[n + 1] = c[n + 1]
    OBVIOUS
  <2>2. g[n + 1] = Taken(g[n], b[n + 1])
    BY <2>1 DEF History
  <2>3. h[n + 1] = Taken(h[n], c[n + 1])
    BY <2>1 DEF History
  <2> QED
    BY <1>2, <2>1, <2>2, <2>3
<1> HIDE DEF T
<1>3. T \in SUBSET (0..N)
  BY DEF T
<1>4. T = 0..N
  BY <1>1, <1>2, <1>3, BoundedInduction
<1> QED
  BY <1>4 DEF T

(* Split is the last entry of the history of its bytes.                    *)
LEMMA SplitIsLast ==
    ASSUME NEW S, NEW bytes \in Seq(S)
    PROVE  \E g : History(g, bytes, Len(bytes)) /\ Split(bytes) = g[Len(bytes)]
<1>1. Len(bytes) \in Nat
  OBVIOUS
<1>2. \E g : History(g, bytes, Len(bytes))
  BY <1>1, HistoryExists
<1> DEFINE last == CHOOSE g : History(g, bytes, Len(bytes))
<1>3. History(last, bytes, Len(bytes))
  BY <1>2
<1>4. Split(bytes) = last[Len(bytes)]
  BY DEF Split, History, Nothing
<1> QED
  BY <1>3, <1>4

(* Nothing is split into nothing, and every byte is taken in at the end.   *)
LEMMA SplitNothing == Split(<<>>) = Nothing
<1>1. <<>> \in Seq({}) /\ Len(<<>>) = 0
  OBVIOUS
<1>2. PICK g : History(g, <<>>, 0) /\ Split(<<>>) = g[0]
  BY <1>1, SplitIsLast
<1> QED
  BY <1>2 DEF History

LEMMA SplitMore ==
    ASSUME NEW S, NEW bytes \in Seq(S), NEW b \in S
    PROVE  Split(Append(bytes, b)) = Taken(Split(bytes), b)
<1> DEFINE more == Append(bytes, b)
           N    == Len(bytes)
<1>1. /\ N \in Nat /\ more \in Seq(S) /\ Len(more) = N + 1 /\ more[N + 1] = b
      /\ \A n \in 1..N : bytes[n] = more[n]
  OBVIOUS
<1>2. PICK g : History(g, bytes, N) /\ Split(bytes) = g[N]
  BY SplitIsLast
<1>3. PICK h : History(h, more, N + 1) /\ Split(more) = h[N + 1]
  BY <1>1, SplitIsLast
<1> HIDE DEF more, N
<1>4. N \in 0..N /\ N + 1 \in 0..(N + 1) /\ N + 1 # 0 /\ N + 1 - 1 = N /\ N <= N + 1
      /\ N + 1 \in Nat
  BY <1>1
<1>5. g[N] = h[N]
  BY <1>1, <1>2, <1>3, <1>4, HistoryIsUnique
<1>6. h[N + 1] = Taken(h[N], more[N + 1])
  BY <1>3, <1>4 DEF History
<1>7. Split(more) = Taken(Split(bytes), b)
  BY <1>1, <1>2, <1>3, <1>5, <1>6
<1> QED
  BY <1>7 DEF more

-----------------------------------------------------------------------------
(* What is left over never holds an NL.                                    *)
LEMMA TakenType ==
    ASSUME NEW S, NEW d \in [lines : Seq(Seq(S)), rest : Seq(S)], ~Contains(d.rest, NL),
           NEW e \in S
    PROVE  /\ Taken(d, e) \in [lines : Seq(Seq(S)), rest : Seq(S)]
           /\ ~Contains(Taken(d, e).rest, NL)
<1>1. CASE e = NL
  <2>1. Taken(d, e) = [lines |-> Append(d.lines, d.rest), rest |-> <<>>]
    BY <1>1 DEF Taken
  <2>2. Append(d.lines, d.rest) \in Seq(Seq(S)) /\ <<>> \in Seq(S)
    OBVIOUS
  <2>3. ~Contains(<<>>, NL)
    BY DEF Contains
  <2> QED
    BY <2>1, <2>2, <2>3
<1>2. CASE e # NL
  <2>1. Taken(d, e) = [lines |-> d.lines, rest |-> Append(d.rest, e)]
    BY <1>2 DEF Taken
  <2>2. Append(d.rest, e) \in Seq(S) /\ d.lines \in Seq(Seq(S)) /\ d.rest \in Seq(S)
    OBVIOUS
  <2>3. \A k \in 1..Len(Append(d.rest, e)) :
            Append(d.rest, e)[k] = IF k \in 1..Len(d.rest) THEN d.rest[k] ELSE e
    BY <2>2
  <2>4. \A k \in 1..Len(d.rest) : d.rest[k] # NL
    BY DEF Contains
  <2>5. ~Contains(Append(d.rest, e), NL)
    BY <1>2, <2>3, <2>4 DEF Contains
  <2> QED
    BY <2>1, <2>2, <2>5
<1> QED
  BY <1>1, <1>2

(* What Split returns, and that the rest holds no NL.                      *)
LEMMA SplitType ==
    ASSUME NEW S, NEW bytes \in Seq(S)
    PROVE  /\ Split(bytes) \in [lines : Seq(Seq(S)), rest : Seq(S)]
           /\ ~Contains(Split(bytes).rest, NL)
<1> DEFINE Good(done) == /\ done \in [lines : Seq(Seq(S)), rest : Seq(S)]
                         /\ ~Contains(done.rest, NL)
           T == {b \in Seq(S) : Good(Split(b))}
<1>1. <<>> \in T
  <2>1. <<>> \in Seq(S) /\ <<>> \in Seq(Seq(S)) /\ ~Contains(<<>>, NL)
    BY DEF Contains
  <2>2. Nothing.rest = <<>> /\ Nothing \in [lines : Seq(Seq(S)), rest : Seq(S)]
    BY <2>1 DEF Nothing
  <2>3. Good(Nothing)
    BY <2>1, <2>2
  <2> QED
    BY <2>1, <2>3, SplitNothing
<1>2. ASSUME NEW b \in T, NEW e \in S
      PROVE  Append(b, e) \in T
  <2>1. b \in Seq(S) /\ Append(b, e) \in Seq(S) /\ Good(Split(b))
    BY <1>2
  <2>2. Good(Taken(Split(b), e))
    BY <2>1, TakenType
  <2>3. Split(Append(b, e)) = Taken(Split(b), e)
    BY <2>1, SplitMore
  <2> QED
    BY <2>1, <2>2, <2>3
<1> HIDE DEF T
<1>3. T \in SUBSET Seq(S)
  BY DEF T
<1>4. T = Seq(S)
  BY <1>1, <1>2, <1>3, SequenceInduction
<1>5. Good(Split(bytes))
  BY <1>4 DEF T
<1> QED
  BY <1>5

(* Bytes without an NL hold no line.                                       *)
LEMMA SplitNoLine ==
    ASSUME NEW S, NEW bytes \in Seq(S), ~Contains(bytes, NL)
    PROVE  Split(bytes) = [lines |-> <<>>, rest |-> bytes]
<1> DEFINE T == {b \in Seq(S) : ~Contains(b, NL) => Split(b) = [lines |-> <<>>, rest |-> b]}
<1>1. <<>> \in T
  BY SplitNothing DEF Nothing
<1>2. ASSUME NEW b \in T, NEW e \in S
      PROVE  Append(b, e) \in T
  <2> DEFINE more == Append(b, e)
  <2>1. /\ b \in Seq(S) /\ more \in Seq(S) /\ Len(more) = Len(b) + 1 /\ Len(b) \in Nat
        /\ more[Len(b) + 1] = e /\ \A k \in 1..Len(b) : more[k] = b[k]
    BY <1>2
  <2>2. Split(more) = Taken(Split(b), e)
    BY <2>1, SplitMore
  <2> SUFFICES ASSUME ~Contains(more, NL)
               PROVE  Split(more) = [lines |-> <<>>, rest |-> more]
    BY <2>1
  <2> HIDE DEF more
  <2>3. \A k \in 1..Len(more) : more[k] # NL
    BY DEF Contains
  <2>4. e # NL
    BY <2>1, <2>3
  <2>5. ~Contains(b, NL)
    BY <2>1, <2>3 DEF Contains
  <2>6. Split(b) = [lines |-> <<>>, rest |-> b]
    BY <1>2, <2>5
  <2> QED
    BY <2>2, <2>4, <2>6 DEF Taken, more
<1> HIDE DEF T
<1>3. T \in SUBSET Seq(S)
  BY DEF T
<1>4. T = Seq(S)
  BY <1>1, <1>2, <1>3, SequenceInduction
<1> QED
  BY <1>4 DEF T

(* Concatenation is associative, said for every sequence over S.           *)
LEMMA ConcatThree ==
    ASSUME NEW S
    PROVE  \A x, y, z \in Seq(S) : (x \o y) \o z = x \o (y \o z)
<1> SUFFICES ASSUME NEW x \in Seq(S), NEW y \in Seq(S), NEW z \in Seq(S)
             PROVE  (x \o y) \o z = x \o (y \o z)
  OBVIOUS
<1> QED
  BY ONLY ConcatAssociative, SMTT(60)

(* Append on the right passes through a concatenation.                     *)
LEMMA ConcatAppend ==
    ASSUME NEW S, NEW s \in Seq(S), NEW t \in Seq(S), NEW e \in S
    PROVE  s \o Append(t, e) = Append(s \o t, e)
<1>1. <<e>> \in Seq(S) /\ s \o t \in Seq(S)
  OBVIOUS
<1>2. Append(t, e) = t \o <<e>> /\ Append(s \o t, e) = (s \o t) \o <<e>>
  BY <1>1, AppendIsConcat
<1> QED
  BY <1>1, <1>2, ConcatThree

(* Where the bytes are cut makes no difference: what is left of the first  *)
(* part, with the second, splits into the other lines.                     *)
LEMMA SplitAgain ==
    ASSUME NEW S, NEW first \in Seq(S), NEW second \in Seq(S)
    PROVE  LET again == Split(Split(first).rest \o second)
           IN  Split(first \o second) = [lines |-> Split(first).lines \o again.lines,
                                         rest  |-> again.rest]
<1> DEFINE d == Split(first)
           Again(b) == Split(d.rest \o b)
           T == {b \in Seq(S) : Split(first \o b) = [lines |-> d.lines \o Again(b).lines,
                                                    rest  |-> Again(b).rest]}
<1>1. d \in [lines : Seq(Seq(S)), rest : Seq(S)] /\ ~Contains(d.rest, NL)
  BY SplitType
<1>2. Split(d.rest) = [lines |-> <<>>, rest |-> d.rest]
  BY <1>1, SplitNoLine
<1>3. d = Split(first)
  OBVIOUS
<1> HIDE DEF d
<1>4. <<>> \in T
  <2>1. first \o <<>> = first /\ d.rest \o <<>> = d.rest /\ d.lines \o <<>> = d.lines
    BY <1>1
  <2>2. d = [lines |-> d.lines, rest |-> d.rest]
    BY <1>1
  <2>3. Again(<<>>) = [lines |-> <<>>, rest |-> d.rest] /\ Split(first \o <<>>) = d
    BY <1>2, <1>3, <2>1
  <2>4. <<>> \in Seq(S)
    OBVIOUS
  <2>5. PICK c : c = Again(<<>>)
    OBVIOUS
  <2>6. c.lines = <<>> /\ c.rest = d.rest
    BY <2>3, <2>5
  <2>7. Split(first \o <<>>) = [lines |-> d.lines \o c.lines, rest |-> c.rest]
    BY <2>1, <2>2, <2>3, <2>6
  <2> HIDE DEF Again
  <2> QED
    BY <2>4, <2>5, <2>7
<1>5. ASSUME NEW b \in T, NEW e \in S
      PROVE  Append(b, e) \in T
  <2>1. b \in Seq(S) /\ d.rest \in Seq(S) /\ d.lines \in Seq(Seq(S))
    BY <1>1, <1>5
  <2>2. /\ first \o Append(b, e) = Append(first \o b, e)
        /\ d.rest \o Append(b, e) = Append(d.rest \o b, e)
        /\ first \o b \in Seq(S) /\ d.rest \o b \in Seq(S) /\ Append(b, e) \in Seq(S)
    <3>1. \A x \in Seq(S) : x \o Append(b, e) = Append(x \o b, e)
      BY <2>1, ConcatAppend
    <3>2. first \o Append(b, e) = Append(first \o b, e)
          /\ d.rest \o Append(b, e) = Append(d.rest \o b, e)
      BY <2>1, <3>1
    <3>3. first \o b \in Seq(S) /\ d.rest \o b \in Seq(S) /\ Append(b, e) \in Seq(S)
      BY <2>1, <1>5
    <3> QED
      BY <3>2, <3>3
  <2>3. Split(first \o Append(b, e)) = Taken(Split(first \o b), e)
    BY <2>2, SplitMore
  <2>4. Again(Append(b, e)) = Taken(Again(b), e)
    BY <2>2, SplitMore
  <2>5. Again(b) \in [lines : Seq(Seq(S)), rest : Seq(S)]
    BY <2>2, SplitType
  <2>6. Split(first \o b) = [lines |-> d.lines \o Again(b).lines, rest |-> Again(b).rest]
    BY <1>5
  <2>7. PICK c : c = Again(b)
    OBVIOUS
  <2>8. PICK c2 : c2 = Again(Append(b, e))
    OBVIOUS
  <2>9. Split(first \o Append(b, e)) = [lines |-> d.lines \o c2.lines, rest |-> c2.rest]
    <3> HIDE DEF Again
    <3>1. c2 = Taken(c, e)
      BY <2>4, <2>7, <2>8
    <3>2. c.lines \in Seq(Seq(S)) /\ c.rest \in Seq(S)
      BY <2>5, <2>7
    <3>3. d.lines \o Append(c.lines, c.rest) = Append(d.lines \o c.lines, c.rest)
      <4>1. PICK U : U = Seq(S)
        OBVIOUS
      <4>2. d.lines \in Seq(U) /\ c.lines \in Seq(U) /\ c.rest \in U
        BY <2>1, <3>2, <4>1
      <4>3. \A x, y \in Seq(U), z \in U : x \o Append(y, z) = Append(x \o y, z)
        BY ConcatAppend
      <4> QED
        BY <4>2, <4>3
    <3>4. Split(first \o Append(b, e))
            = Taken([lines |-> d.lines \o c.lines, rest |-> c.rest], e)
      BY <2>3, <2>6, <2>7
    <3> QED
      BY <3>1, <3>3, <3>4 DEF Taken
  <2> HIDE DEF Again
  <2>10. Append(b, e) \in Seq(S)
    BY <2>2
  <2> QED
    BY <2>8, <2>9, <2>10
<1> HIDE DEF T
<1>6. T \in SUBSET Seq(S)
  BY DEF T
<1>7. T = Seq(S)
  BY <1>4, <1>5, <1>6, SequenceInduction
<1>8. second \in T
  BY <1>7
<1> QED
  BY <1>8 DEF T, d

-----------------------------------------------------------------------------
(* What FlattenSeq has put together after each of the first N sequences.   *)
Joined(g, seqs, N) ==
    g = [i \in 1..N |-> IF i = 1 THEN seqs[i] ELSE g[i - 1] \o seqs[i]]

(* FlattenSeq is defined by recursion, too: the same two lemmas.           *)
LEMMA JoinedExists ==
    ASSUME NEW seqs, NEW N \in Nat
    PROVE  \E g : Joined(g, seqs, N)
<1> DEFINE T == {n \in Nat : \E g : Joined(g, seqs, n)}
<1>1. 0 \in T
  <2>1. Joined([i \in 1..0 |-> seqs[i]], seqs, 0)
    BY DEF Joined
  <2> QED
    BY <2>1
<1>2. ASSUME NEW n \in T
      PROVE  n + 1 \in T
  <2>1. PICK g : Joined(g, seqs, n)
    BY <1>2
  <2> DEFINE last == IF n = 0 THEN seqs[1] ELSE g[n] \o seqs[n + 1]
  <2>2. PICK h : h = [i \in 1..(n + 1) |-> IF i = n + 1 THEN last ELSE g[i]]
    OBVIOUS
  <2>3. n \in Nat
    BY <1>2
  <2>4. ASSUME NEW i \in 1..(n + 1)
        PROVE  h[i] = IF i = 1 THEN seqs[i] ELSE h[i - 1] \o seqs[i]
    <3>1. CASE i = n + 1
      <4>1. i # 1 => n # 0 /\ i - 1 = n /\ n \in 1..(n + 1) /\ n # n + 1
        BY <2>3, <3>1
      <4>2. h[i] = last /\ (i # 1 => h[i - 1] = g[n])
        BY <2>2, <2>3, <3>1, <4>1
      <4>3. i = 1 => n = 0
        BY <2>3, <3>1
      <4> QED
        BY <3>1, <4>1, <4>2, <4>3
    <3>2. CASE i # n + 1
      <4>1. i \in 1..n /\ h[i] = g[i] /\ (i # 1 => i - 1 \in 1..n /\ h[i - 1] = g[i - 1])
        BY <2>2, <2>3, <3>2
      <4> QED
        BY <2>1, <4>1 DEF Joined
    <3> QED
      BY <3>1, <3>2
  <2>5. Joined(h, seqs, n + 1)
    BY <2>2, <2>4 DEF Joined
  <2> QED
    BY <2>3, <2>5
<1> HIDE DEF T
<1>3. T \in SUBSET Nat
  BY DEF T
<1>4. T = Nat
  BY <1>1, <1>2, <1>3, NumberInduction
<1> QED
  BY <1>4 DEF T

(* It depends on the first N sequences, and on nothing else.               *)
LEMMA JoinedIsUnique ==
    ASSUME NEW g, NEW h, NEW s, NEW t, NEW N \in Nat, NEW M \in Nat, N <= M,
           Joined(g, s, N), Joined(h, t, M), \A n \in 1..N : s[n] = t[n]
    PROVE  \A n \in 1..N : g[n] = h[n]
<1> DEFINE T == {n \in 0..N : n = 0 \/ g[n] = h[n]}
<1>1. 0 \in T
  OBVIOUS
<1>2. ASSUME NEW n \in 0..(N - 1), n \in T
      PROVE  n + 1 \in T
  <2>1. PICK i \in 1..N : i = n + 1
    OBVIOUS
  <2>2. i \in 1..M /\ i \in 0..N /\ i - 1 = n /\ s[i] = t[i] /\ (i # 1 => n # 0)
    BY <2>1
  <2>3. g[i] = IF i = 1 THEN s[i] ELSE g[i - 1] \o s[i]
    BY DEF Joined
  <2>4. h[i] = IF i = 1 THEN t[i] ELSE h[i - 1] \o t[i]
    BY <2>2 DEF Joined
  <2>5. i # 1 => g[i - 1] = h[i - 1]
    BY <1>2, <2>2
  <2>6. g[i] = h[i]
    BY <2>2, <2>3, <2>4, <2>5
  <2> QED
    BY <2>1, <2>2, <2>6
<1> HIDE DEF T
<1>3. T \in SUBSET (0..N)
  BY DEF T
<1>4. T = 0..N
  BY <1>1, <1>2, <1>3, BoundedInduction
<1>5. \A n \in 1..N : n \in 0..N /\ n # 0
  OBVIOUS
<1> QED
  BY <1>4, <1>5 DEF T

(* FlattenSeq is the last of these.                                        *)
LEMMA FlattenIsLast ==
    ASSUME NEW S, NEW seqs \in Seq(S), Len(seqs) # 0
    PROVE  \E g : Joined(g, seqs, Len(seqs)) /\ FlattenSeq(seqs) = g[Len(seqs)]
<1>1. Len(seqs) \in Nat
  OBVIOUS
<1>2. \E g : Joined(g, seqs, Len(seqs))
  BY <1>1, JoinedExists
<1> DEFINE last == CHOOSE g : Joined(g, seqs, Len(seqs))
<1>3. Joined(last, seqs, Len(seqs))
  BY <1>2
<1>4. FlattenSeq(seqs) = last[Len(seqs)]
  BY DEF FlattenSeq, Joined
<1> QED
  BY <1>3, <1>4

(* One sequence more is put at the end.                                    *)
LEMMA FlattenMore ==
    ASSUME NEW S, NEW seqs \in Seq(Seq(S)), NEW s \in Seq(S)
    PROVE  FlattenSeq(Append(seqs, s)) = FlattenSeq(seqs) \o s
<1> DEFINE more == Append(seqs, s)
           N    == Len(seqs)
<1>1. /\ N \in Nat /\ more \in Seq(Seq(S)) /\ Len(more) = N + 1 /\ more[N + 1] = s
      /\ \A n \in 1..N : seqs[n] = more[n]
  OBVIOUS
<1>2. PICK h : Joined(h, more, N + 1) /\ FlattenSeq(more) = h[N + 1]
  <2>1. Len(more) # 0
    BY <1>1
  <2> QED
    BY <1>1, <2>1, FlattenIsLast
<1>3. CASE N = 0
  <2>1. seqs = <<>> /\ more[1] = s
    BY <1>1, <1>3
  <2>2. FlattenSeq(seqs) = <<>>
    BY <2>1 DEF FlattenSeq
  <2>3. h[1] = more[1]
    BY <1>2, <1>3 DEF Joined
  <2>4. <<>> \o s = s
    OBVIOUS
  <2>5. FlattenSeq(more) = s
    BY <1>2, <1>3, <2>1, <2>3
  <2> QED
    BY <2>2, <2>4, <2>5
<1>4. CASE N # 0
  <2>1. PICK g : Joined(g, seqs, N) /\ FlattenSeq(seqs) = g[N]
    BY <1>4, FlattenIsLast
  <2> HIDE DEF more, N
  <2>2. /\ N \in 1..N /\ N + 1 \in 1..(N + 1) /\ N + 1 # 1 /\ N + 1 - 1 = N
        /\ N <= N + 1 /\ N + 1 \in Nat
    BY <1>1, <1>4
  <2>3. g[N] = h[N]
    <3>1. Joined(g, seqs, N) /\ Joined(h, more, N + 1) /\ N \in Nat
          /\ \A n \in 1..N : seqs[n] = more[n]
      BY <1>1, <1>2, <2>1
    <3>2. \A n \in 1..N : g[n] = h[n]
      BY <2>2, <3>1, JoinedIsUnique
    <3> QED
      BY <2>2, <3>2
  <2>4. h[N + 1] = h[N] \o more[N + 1]
    <3>1. PICK i \in 1..(N + 1) : i = N + 1
      BY <2>2
    <3>2. h[i] = IF i = 1 THEN more[i] ELSE h[i - 1] \o more[i]
      BY <1>2 DEF Joined
    <3>3. i # 1 /\ i - 1 = N
      BY <2>2, <3>1
    <3> QED
      BY <3>1, <3>2, <3>3
  <2>5. FlattenSeq(more) = FlattenSeq(seqs) \o s
    BY <1>1, <1>2, <2>1, <2>3, <2>4
  <2> QED
    BY <2>5 DEF more
<1> QED
  BY <1>3, <1>4

(* A character takes as many bytes as its first byte says.                 *)
LEMMA EncodedType ==
    ASSUME NEW char \in 1..4
    PROVE  /\ Encoded(char) \in Seq(0..4) /\ Len(Encoded(char)) = char
           /\ Encoded(char)[1] = char
           /\ \A k \in 2..char : Encoded(char)[k] = 0
<1> DEFINE tail == [k \in 1..(char - 1) |-> 0]
<1>1. tail \in Seq(0..4) /\ Len(tail) = char - 1 /\ \A k \in 1..(char - 1) : tail[k] = 0
  <2>1. char - 1 \in Nat
    OBVIOUS
  <2> QED
    BY <2>1
<1>2. <<char>> \in Seq(0..4) /\ Len(<<char>>) = 1 /\ <<char>>[1] = char
  OBVIOUS
<1>3. Encoded(char) = <<char>> \o tail
  BY DEF Encoded
<1> HIDE DEF tail
<1> QED
  BY <1>1, <1>2, <1>3

(* No characters take no bytes, and one more takes its own after the others.*)
LEMMA Utf8Nothing == Utf8(<<>>) = <<>>
<1>1. PICK none : none = [n \in DOMAIN <<>> |-> Encoded(<<>>[n])]
  OBVIOUS
<1>2. DOMAIN <<>> = {}
  OBVIOUS
<1>3. none = <<>>
  BY <1>1, <1>2
<1> QED
  BY <1>1, <1>3 DEF Utf8, FlattenSeq

LEMMA Utf8More ==
    ASSUME NEW chars \in Seq(1..4), NEW char \in 1..4
    PROVE  Utf8(Append(chars, char)) = Utf8(chars) \o Encoded(char)
<1> DEFINE E == [n \in DOMAIN chars |-> Encoded(chars[n])]
           F == [n \in DOMAIN Append(chars, char) |-> Encoded(Append(chars, char)[n])]
<1>1. DOMAIN chars = 1..Len(chars) /\ DOMAIN Append(chars, char) = 1..(Len(chars) + 1)
      /\ Len(chars) \in Nat
  OBVIOUS
<1>2. \A n \in 1..Len(chars) : chars[n] \in 1..4 /\ Append(chars, char)[n] = chars[n]
  OBVIOUS
<1>3. Append(chars, char)[Len(chars) + 1] = char
  OBVIOUS
<1>4. \A n \in 1..Len(chars) : Encoded(chars[n]) \in Seq(0..4)
  BY <1>2, EncodedType
<1>5. Encoded(char) \in Seq(0..4)
  BY EncodedType
<1>6. E \in Seq(Seq(0..4)) /\ Len(E) = Len(chars)
  BY <1>1, <1>4
<1>7. F = Append(E, Encoded(char))
  <2> DEFINE G == Append(E, Encoded(char))
  <2>1. DOMAIN G = 1..(Len(chars) + 1) /\ DOMAIN F = 1..(Len(chars) + 1)
    BY <1>1, <1>5, <1>6
  <2>2. G = [n \in 1..(Len(chars) + 1) |-> G[n]]
    BY <1>1, <1>5, <1>6
  <2>3. \A n \in 1..Len(chars) : F[n] = E[n] /\ G[n] = E[n]
    BY <1>1, <1>2, <1>5, <1>6
  <2>4. F[Len(chars) + 1] = Encoded(char) /\ G[Len(chars) + 1] = Encoded(char)
    BY <1>1, <1>3, <1>5, <1>6
  <2>5. F = [n \in 1..(Len(chars) + 1) |-> F[n]]
    BY <1>1
  <2> HIDE DEF F, G, E
  <2>6. \A n \in 1..(Len(chars) + 1) : F[n] = G[n]
    BY <1>1, <2>3, <2>4
  <2>7. F = G
    BY <2>2, <2>5, <2>6
  <2> QED
    BY <2>7 DEF G
<1> HIDE DEF E, F
<1>8. FlattenSeq(F) = FlattenSeq(E) \o Encoded(char)
  BY <1>5, <1>6, <1>7, FlattenMore
<1> QED
  BY <1>8 DEF Utf8, E, F

(* Bytes of a body are numbers from 0 to 4.                                *)
LEMMA Utf8Type ==
    ASSUME NEW chars \in Seq(1..4)
    PROVE  Utf8(chars) \in Seq(0..4)
<1> DEFINE T == {c \in Seq(1..4) : Utf8(c) \in Seq(0..4)}
<1>1. <<>> \in T
  <2>1. <<>> \in Seq(0..4) /\ <<>> \in Seq(1..4)
    OBVIOUS
  <2>2. Utf8(<<>>) \in Seq(0..4)
    BY <2>1, Utf8Nothing
  <2> QED
    BY <2>1, <2>2
<1>2. ASSUME NEW c \in T, NEW e \in 1..4
      PROVE  Append(c, e) \in T
  <2>1. c \in Seq(1..4) /\ Append(c, e) \in Seq(1..4) /\ Utf8(c) \in Seq(0..4)
    BY <1>2
  <2>2. Encoded(e) \in Seq(0..4)
    BY EncodedType
  <2>3. Utf8(c) \o Encoded(e) \in Seq(0..4)
    BY <2>1, <2>2
  <2> QED
    BY <2>1, <2>3, Utf8More
<1> HIDE DEF T
<1>3. T \in SUBSET Seq(1..4)
  BY DEF T
<1>4. T = Seq(1..4)
  BY <1>1, <1>2, <1>3, SequenceInduction
<1> QED
  BY <1>4 DEF T

(* The bytes of the first n characters are the first bytes of all.         *)
LEMMA Utf8Prefix ==
    ASSUME NEW chars \in Seq(1..4), NEW n \in 0..Len(chars)
    PROVE  LET part == Utf8(SubSeq(chars, 1, n))
           IN  /\ Len(part) <= Len(Utf8(chars))
               /\ \A k \in 1..Len(part) : Utf8(chars)[k] = part[k]
<1> DEFINE Within(part, all) == /\ Len(part) <= Len(all)
                                /\ \A k \in 1..Len(part) : all[k] = part[k]
           T == {c \in Seq(1..4) :
                    \A m \in 0..Len(c) : Within(Utf8(SubSeq(c, 1, m)), Utf8(c))}
<1>1. <<>> \in T
  <2>1. ASSUME NEW m \in 0..Len(<<>>)
        PROVE  Within(Utf8(SubSeq(<<>>, 1, m)), Utf8(<<>>))
    <3>1. m = 0 /\ SubSeq(<<>>, 1, 0) = <<>> /\ Len(<<>>) \in Nat
      OBVIOUS
    <3>2. Within(<<>>, <<>>)
      OBVIOUS
    <3>3. SubSeq(<<>>, 1, m) = <<>>
      BY <3>1
    <3> HIDE DEF Within
    <3> QED
      BY <3>2, <3>3, Utf8Nothing
  <2>2. <<>> \in Seq(1..4)
    OBVIOUS
  <2> HIDE DEF Within
  <2> QED
    BY <2>1, <2>2
<1>2. ASSUME NEW c \in T, NEW e \in 1..4
      PROVE  Append(c, e) \in T
  <2> DEFINE more == Append(c, e)
  <2>1. /\ c \in Seq(1..4) /\ more \in Seq(1..4)
        /\ Len(c) \in Nat /\ Len(more) = Len(c) + 1
    BY <1>2
  <2>2. ASSUME NEW m \in 0..Len(more)
        PROVE  Within(Utf8(SubSeq(more, 1, m)), Utf8(more))
    <3>1. CASE m = Len(more)
      <4>1. SubSeq(more, 1, m) = more
        BY <2>1, <3>1, SubSeqFull
      <4>2. Utf8(more) \in Seq(0..4)
        BY <2>1, Utf8Type
      <4>3. PICK all \in Seq(0..4) : all = Utf8(more)
        BY <4>2
      <4>4. Within(all, all)
        OBVIOUS
      <4> HIDE DEF more, Within
      <4> QED
        BY <4>1, <4>3, <4>4
    <3>2. CASE m # Len(more)
      <4>1. m \in 0..Len(c)
        BY <2>1, <3>2
      <4>2. SubSeq(more, 1, m) = SubSeq(c, 1, m) /\ SubSeq(c, 1, m) \in Seq(1..4)
        BY <2>1, <4>1
      <4>3. PICK part : part = Utf8(SubSeq(c, 1, m))
        OBVIOUS
      <4>4. part \in Seq(0..4) /\ Utf8(c) \in Seq(0..4) /\ Encoded(e) \in Seq(0..4)
        BY <2>1, <4>2, <4>3, Utf8Type, EncodedType
      <4>5. Within(part, Utf8(c))
        BY <1>2, <4>1, <4>3
      <4>6. Utf8(more) = Utf8(c) \o Encoded(e)
        BY <2>1, Utf8More
      <4>7. Within(part, Utf8(c) \o Encoded(e))
        <5>1. PICK u \in Seq(0..4) : u = Utf8(c)
          BY <4>4
        <5>2. PICK v \in Seq(0..4) : v = Encoded(e)
          BY <4>4
        <5>3. Within(part, u)
          BY <4>5, <5>1
        <5>4. Within(part, u \o v)
          BY <4>4, <5>3
        <5> QED
          BY <5>1, <5>2, <5>4
      <4> HIDE DEF more, Within
      <4> QED
        BY <4>2, <4>3, <4>6, <4>7
    <3> QED
      BY <3>1, <3>2
  <2> HIDE DEF more, Within
  <2>3. more \in T
    BY <2>1, <2>2
  <2> QED
    BY <2>3 DEF more
<1> HIDE DEF T
<1>3. T \in SUBSET Seq(1..4)
  BY DEF T
<1>4. T = Seq(1..4)
  BY <1>1, <1>2, <1>3, SequenceInduction
<1>5. Within(Utf8(SubSeq(chars, 1, n)), Utf8(chars))
  BY <1>4 DEF T
<1> QED
  BY <1>5

(* Each character takes its bytes after those of the ones before it: one   *)
(* that leads it and is not 0, and zeros.                                  *)
LEMMA Utf8Character ==
    ASSUME NEW chars \in Seq(1..4), NEW n \in 0..(Len(chars) - 1)
    PROVE  LET here == Len(Utf8(SubSeq(chars, 1, n)))
           IN  /\ here \in Nat /\ chars[n + 1] \in 1..4
               /\ Len(Utf8(SubSeq(chars, 1, n + 1))) = here + chars[n + 1]
               /\ here + chars[n + 1] <= Len(Utf8(chars))
               /\ Utf8(chars)[here + 1] = chars[n + 1]
               /\ \A k \in 2..chars[n + 1] : Utf8(chars)[here + k] = 0
<1> DEFINE here == Len(Utf8(SubSeq(chars, 1, n)))
<1>1. PICK e \in 1..4 : e = chars[n + 1]
  OBVIOUS
<1>2. PICK before \in Seq(1..4) : before = SubSeq(chars, 1, n)
  <2>1. SubSeq(chars, 1, n) \in Seq(1..4)
    OBVIOUS
  <2> QED
    BY <2>1
<1>3. SubSeq(chars, 1, n + 1) = Append(before, e)
  <2>1. PICK N : N = Len(chars) /\ N \in Nat
    BY LenProperties
  <2>2. n \in Nat /\ n + 1 \in 1..N /\ n + 1 \in n..N /\ n \in 0..N /\ 1 \in 1..(N + 1)
    BY <2>1
  <2>3. SubSeq(chars, 1, n) \o SubSeq(chars, n + 1, n + 1) = SubSeq(chars, 1, n + 1)
    BY <2>1, <2>2, ConcatAdjacentSubSeq
  <2>4. SubSeq(chars, n + 1, n + 1) = <<e>>
    <3>1. SubSeq(chars, n + 1, n + 1) \in Seq(1..4)
      BY <2>1, <2>2
    <3>2. PICK t \in Seq(1..4) : t = SubSeq(chars, n + 1, n + 1)
      BY <3>1
    <3>3. Len(t) = 1 /\ t[1] = e
      BY <1>1, <2>1, <2>2, <3>2
    <3>4. t = <<e>>
      BY <3>3
    <3> QED
      BY <3>2, <3>4
  <2> QED
    BY <1>2, <2>3, <2>4, AppendIsConcat
<1>4. PICK u \in Seq(0..4) : u = Utf8(before)
  BY <1>2, Utf8Type
<1>5. PICK v \in Seq(0..4) : v = Encoded(e)
  BY EncodedType
<1>6. Len(v) = e /\ v[1] = e /\ \A k \in 2..e : v[k] = 0
  BY <1>5, EncodedType
<1>7. Utf8(SubSeq(chars, 1, n + 1)) = u \o v
  BY <1>2, <1>3, <1>4, <1>5, Utf8More
<1>8. here = Len(u)
  BY <1>2, <1>4
<1>9. n + 1 \in 0..Len(chars)
  OBVIOUS
<1>10. /\ Len(u \o v) <= Len(Utf8(chars))
       /\ \A k \in 1..Len(u \o v) : Utf8(chars)[k] = (u \o v)[k]
  BY <1>7, <1>9, Utf8Prefix
<1> HIDE DEF here
<1>11. here \in Nat /\ Len(u \o v) = here + e
  BY <1>6, <1>8
<1>12. \A k \in 1..e : here + k \in 1..Len(u \o v) /\ (u \o v)[here + k] = v[k]
  BY <1>6, <1>8, <1>11
<1>13. \A k \in 1..e : Utf8(chars)[here + k] = v[k]
  BY <1>10, <1>12
<1>14. 1 \in 1..e /\ \A k \in 2..e : k \in 1..e
  OBVIOUS
<1>15. /\ here \in Nat /\ chars[n + 1] \in 1..4
       /\ Len(Utf8(SubSeq(chars, 1, n + 1))) = here + chars[n + 1]
       /\ here + chars[n + 1] <= Len(Utf8(chars))
       /\ Utf8(chars)[here + 1] = chars[n + 1]
       /\ \A k \in 2..chars[n + 1] : Utf8(chars)[here + k] = 0
  BY <1>1, <1>6, <1>7, <1>10, <1>11, <1>13, <1>14
<1> QED
  BY <1>15 DEF here

(* So a cut after the bytes of n characters leaves the n characters.       *)
LEMMA Utf8Cut ==
    ASSUME NEW chars \in Seq(1..4), NEW n \in 0..Len(chars)
    PROVE  LET part == Utf8(SubSeq(chars, 1, n))
           IN  SubSeq(Utf8(chars), 1, Len(part)) = part
<1>1. SubSeq(chars, 1, n) \in Seq(1..4)
  OBVIOUS
<1>2. PICK part \in Seq(0..4) : part = Utf8(SubSeq(chars, 1, n))
  BY <1>1, Utf8Type
<1>3. PICK all \in Seq(0..4) : all = Utf8(chars)
  BY Utf8Type
<1>4. Len(part) <= Len(all) /\ \A k \in 1..Len(part) : all[k] = part[k]
  BY <1>2, <1>3, Utf8Prefix
<1>5. SubSeq(all, 1, Len(part)) = part
  BY <1>4, SubSeqProperties, SeqEqual
<1> QED
  BY <1>2, <1>3, <1>5

(* What is left of a body is its first n characters, fits, and lacks no    *)
(* more than one that would have fitted: the i-th character is the first   *)
(* that reaches the limit, and its first byte is the last that is not 0.   *)
LEMMA TruncatedIsText ==
    ASSUME NEW chars \in Seq(1..4)
    PROVE  \E n \in 0..Len(chars) :
               /\ truncated(Utf8(chars)) = Utf8(SubSeq(chars, 1, n))
               /\ Len(truncated(Utf8(chars))) <= maxBodyBytes
               /\ n < Len(chars) => Len(Utf8(chars)) > maxBodyBytes
               /\ n + 2 <= Len(chars) =>
                      Len(Utf8(SubSeq(chars, 1, n + 2))) > maxBodyBytes
<1> DEFINE all       == Utf8(chars)
           Length(n) == Len(Utf8(SubSeq(chars, 1, n)))
<1>1. PICK N \in Nat : N = Len(chars)
  BY LenProperties
<1>2. all \in Seq(0..4) /\ Len(all) \in Nat
  <2>1. all \in Seq(0..4)
    BY Utf8Type
  <2>2. PICK u \in Seq(0..4) : u = all
    BY <2>1
  <2> QED
    BY <2>1, <2>2, LenProperties
<1>3. SubSeq(chars, 1, N) = chars /\ Length(N) = Len(all)
  BY <1>1, SubSeqFull
<1>4. maxBodyBytes \in Nat /\ maxBodyBytes > 0
  BY BodyAssumption
<1>5. CASE Len(all) <= maxBodyBytes
  <2>1. truncated(all) = all
    BY <1>5 DEF truncated
  <2>2. N \in 0..Len(chars) /\ ~(N < Len(chars)) /\ ~(N + 2 <= Len(chars))
    BY <1>1
  <2> HIDE DEF Length
  <2> QED
    BY <1>3, <1>5, <2>1, <2>2
<1>6. CASE ~(Len(all) <= maxBodyBytes)
  <2> DEFINE Reach == {n \in 0..N : Length(n) >= maxBodyBytes}
  <2>1. N \in Reach /\ Reach \in SUBSET Nat
    <3> HIDE DEF Length
    <3> QED
      BY <1>1, <1>2, <1>3, <1>4, <1>6
  <2>2. PICK i \in Reach : \A m \in Reach : ~(m < i)
    BY <2>1, LeastNumber
  <2>3. Length(0) = 0
    <3>1. SubSeq(chars, 1, 0) = <<>> /\ Len(<<>>) = 0
      OBVIOUS
    <3> QED
      BY <3>1, Utf8Nothing
  <2>4. \A n \in 0..(N - 1) :
            /\ Length(n) \in Nat /\ chars[n + 1] \in 1..4
            /\ Length(n + 1) = Length(n) + chars[n + 1]
            /\ Length(n) + chars[n + 1] <= Len(all)
            /\ all[Length(n) + 1] = chars[n + 1]
            /\ \A k \in 2..chars[n + 1] : all[Length(n) + k] = 0
    BY <1>1, Utf8Character
  <2>5. \A n \in 0..N : SubSeq(all, 1, Length(n)) = Utf8(SubSeq(chars, 1, n))
    BY <1>1, Utf8Cut
  <2> HIDE DEF Length, all
  <2>6. i \in 1..N /\ Length(i) >= maxBodyBytes
    BY <1>4, <2>2, <2>3
  <2>7. PICK p \in 0..(N - 1) : i = p + 1
    <3>1. i - 1 \in 0..(N - 1) /\ i = (i - 1) + 1
      BY <1>1, <2>6
    <3> QED
      BY <3>1
  <2>8. PICK here \in Nat : here = Length(p)
    BY <2>4
  <2>9. here < maxBodyBytes
    <3>1. p \in 0..N /\ p < i
      BY <1>1, <2>6, <2>7
    <3>2. p \notin Reach
      BY <2>2, <3>1
    <3> QED
      BY <1>4, <2>8, <3>1, <3>2
  <2>10. PICK c \in 1..4 : c = chars[i]
    BY <2>4, <2>7
  <2>11. /\ Length(i) = here + c /\ all[here + 1] = c /\ here + c <= Len(all)
         /\ \A k \in 2..c : all[here + k] = 0
    BY <2>4, <2>7, <2>8, <2>10
  <2>12. i + 1 <= N => Length(i + 1) > maxBodyBytes /\ Length(i + 1) \in Nat
    <3> SUFFICES ASSUME i + 1 <= N
                 PROVE  Length(i + 1) > maxBodyBytes /\ Length(i + 1) \in Nat
      OBVIOUS
    <3>1. i \in 0..(N - 1)
      BY <1>1, <2>6
    <3>2. PICK l \in Nat : l = Length(i)
      BY <2>4, <3>1
    <3>3. PICK d \in 1..4 : d = chars[i + 1]
      BY <2>4, <3>1
    <3>4. Length(i + 1) = l + d
      BY <2>4, <3>1, <3>2, <3>3
    <3> QED
      BY <1>4, <2>6, <3>2, <3>4
  <2>13. i + 2 <= N => Length(i + 2) > maxBodyBytes
    <3> SUFFICES ASSUME i + 2 <= N
                 PROVE  Length(i + 2) > maxBodyBytes
      OBVIOUS
    <3>1. PICK j \in 0..(N - 1) : j = i + 1
      BY <1>1, <2>6
    <3>2. PICK l \in Nat : l = Length(j) /\ l > maxBodyBytes
      BY <2>12, <3>1
    <3>3. PICK d \in 1..4 : d = chars[j + 1]
      BY <2>4
    <3>4. Length(j + 1) = l + d
      BY <2>4, <3>2, <3>3
    <3>5. j + 1 = i + 2
      BY <2>6, <3>1
    <3> QED
      BY <1>4, <3>2, <3>4, <3>5
  <2> DEFINE leads == {k \in 1..maxBodyBytes : all[k] # 0} \cup {0}
  <2>14. Max(leads) = here + 1
    <3>1. here + 1 \in leads
      BY <1>4, <2>8, <2>9, <2>10, <2>11
    <3>2. ASSUME NEW y \in leads
          PROVE  here + 1 >= y
      <4>1. CASE y > here + 1
        <5>1. y \in 1..maxBodyBytes /\ all[y] # 0
          BY <2>8, <4>1
        <5>2. PICK k \in 2..c : y = here + k
          <6> DEFINE reached == Length(i)
          <6>1. reached >= maxBodyBytes /\ reached = here + c
            BY <2>6, <2>11
          <6> HIDE DEF reached, leads
          <6>2. y - here \in 2..c /\ y = here + (y - here)
            BY <1>4, <4>1, <5>1, <6>1
          <6> QED
            BY <6>2
        <5> QED
          BY <2>11, <5>1, <5>2
      <4>2. y \in Int
        BY <1>4
      <4> QED
        BY <2>8, <4>1, <4>2
    <3>3. \A x \in leads : x \in Int
      BY <1>4
    <3> HIDE DEF leads
    <3>4. \A x \in leads : (\A y \in leads : x >= y) => x = here + 1
      BY <2>8, <3>1, <3>2, <3>3
    <3> QED
      BY <3>1, <3>2, <3>4 DEF Max
  <2>15. truncated(all) = SubSeq(all, 1, IF c \in 2..4 THEN here ELSE here + 1)
    <3>1. here + 1 > 0 /\ here + 1 - 1 = here
      BY <2>8
    <3>2. truncated(all) = SubSeq(all, 1, IF Max(leads) > 0 /\ all[Max(leads)] \in 2..4
                                          THEN Max(leads) - 1 ELSE Max(leads))
      BY <1>6 DEF truncated
    <3> HIDE DEF leads
    <3> QED
      BY <2>11, <2>14, <3>1, <3>2
  <2> HIDE DEF leads, Reach
  <2>16. CASE c \in 2..4
    <3>1. truncated(all) = Utf8(SubSeq(chars, 1, p))
      BY <2>5, <2>7, <2>8, <2>15, <2>16
    <3>2. Len(truncated(all)) = here
      BY <2>8, <3>1 DEF Length
    <3>3. p + 2 = i + 1 /\ p \in 0..Len(chars)
      BY <1>1, <2>6, <2>7
    <3>4. p + 2 <= N => Len(Utf8(SubSeq(chars, 1, p + 2))) > maxBodyBytes
      BY <2>12, <3>3 DEF Length
    <3> QED
      BY <1>1, <1>2, <1>4, <1>6, <2>8, <2>9, <3>1, <3>2, <3>3, <3>4 DEF all
  <2>17. CASE c \notin 2..4
    <3>1. c = 1
      BY <2>10, <2>17
    <3>2. Length(i) = here + 1 /\ here + 1 = maxBodyBytes
      BY <1>4, <2>6, <2>8, <2>9, <2>11, <3>1
    <3>3. truncated(all) = Utf8(SubSeq(chars, 1, i))
      BY <2>5, <2>6, <2>15, <2>17, <3>2
    <3>4. Len(truncated(all)) = maxBodyBytes
      BY <3>2, <3>3 DEF Length
    <3>5. i \in 0..Len(chars)
      BY <1>1, <2>6
    <3>6. i + 2 <= N => Len(Utf8(SubSeq(chars, 1, i + 2))) > maxBodyBytes
      BY <2>13 DEF Length
    <3> QED
      BY <1>1, <1>2, <1>4, <1>6, <3>3, <3>4, <3>5, <3>6 DEF all
  <2> QED
    BY <2>16, <2>17
<1> QED
  BY <1>5, <1>6

-----------------------------------------------------------------------------
(* The pipe and the accumulator.                                           *)
queue == Split(inbuf \o pipe).lines

(* A request is bytes, none of them an NL.                                 *)
LEMMA LineOfBytes ==
    ASSUME NEW line \in Line
    PROVE  line \in Seq(Byte) /\ ~Contains(line, NL) /\ NL \in Byte
<1>1. line \in Seq(ToSet(line)) /\ ~Contains(line, NL)
  BY LineAssumption
<1>2. ToSet(line) \subseteq Byte /\ NL \in Byte
  <2>1. ToSet(line) \in {ToSet(l) : l \in Line}
    OBVIOUS
  <2>2. PICK U : U = UNION {ToSet(l) : l \in Line}
    OBVIOUS
  <2>3. ToSet(line) \subseteq U
    BY <2>1, <2>2
  <2>4. Byte = {NL} \cup U
    BY <2>2 DEF Byte
  <2> QED
    BY <2>3, <2>4
<1>3. line \in Seq(Byte)
  BY <1>1, <1>2, SeqMonotonic
<1> QED
  BY <1>1, <1>2, <1>3

(* A request with its NL is one line.                                      *)
LEMMA SplitLine ==
    ASSUME NEW line \in Line
    PROVE  Split(line \o <<NL>>) = [lines |-> <<line>>, rest |-> <<>>]
<1>1. line \in Seq(Byte) /\ ~Contains(line, NL) /\ NL \in Byte
  BY LineOfBytes
<1>2. line \o <<NL>> = Append(line, NL)
  BY <1>1, AppendIsConcat
<1>3. Split(Append(line, NL)) = Taken(Split(line), NL)
  BY <1>1, SplitMore
<1>4. Split(line) = [lines |-> <<>>, rest |-> line]
  BY <1>1, SplitNoLine
<1>5. Append(<<>>, line) = <<line>>
  OBVIOUS
<1> QED
  <2>1. Taken([lines |-> <<>>, rest |-> line], NL)
            = [lines |-> Append(<<>>, line), rest |-> <<>>]
    BY DEF Taken
  <2> QED
    BY <1>2, <1>3, <1>4, <1>5, <2>1

(* The part of the bytes that was read gives the first lines, and what is  *)
(* kept of it, with the rest, the others.                                  *)
LEMMA SplitPart ==
    ASSUME NEW S, NEW a \in Seq(S), NEW b \in Seq(S), NEW n \in 0..Len(b)
    PROVE  LET all   == Split(a \o b)
               part  == Split(a \o SubSeq(b, 1, n))
               later == Split(part.rest \o SubSeq(b, n + 1, Len(b)))
               k     == Len(part.lines)
           IN  /\ k \in 0..Len(all.lines)
               /\ part.lines = SubSeq(all.lines, 1, k)
               /\ later.lines = SubSeq(all.lines, k + 1, Len(all.lines))
               /\ later.rest = all.rest
<1>1. PICK c \in Seq(S), d \in Seq(S) :
          /\ c = SubSeq(b, 1, n) /\ d = SubSeq(b, n + 1, Len(b)) /\ c \o d = b
  <2>1. SubSeq(b, 1, n) \in Seq(S) /\ SubSeq(b, n + 1, Len(b)) \in Seq(S)
    OBVIOUS
  <2>2. SubSeq(b, 1, n) \o SubSeq(b, n + 1, Len(b)) = b
    <3>1. PICK N : N = Len(b) /\ N \in Nat
      BY LenProperties
    <3>2. 1 \in 1..(N + 1) /\ n \in (1 - 1)..N /\ N \in n..N
      BY <3>1
    <3>3. SubSeq(b, 1, n) \o SubSeq(b, n + 1, N) = SubSeq(b, 1, N)
      BY <3>1, <3>2, ConcatAdjacentSubSeq
    <3> QED
      BY <3>1, <3>3, SubSeqFull
  <2> QED
    BY <2>1, <2>2
<1>2. PICK part : part = Split(a \o c)
  OBVIOUS
<1>3. PICK later : later = Split(part.rest \o d)
  OBVIOUS
<1>4. PICK all : all = Split(a \o b)
  OBVIOUS
<1>5. a \o c \in Seq(S) /\ (a \o c) \o d = a \o b
  <2>1. a \o c \in Seq(S)
    BY ConcatProperties
  <2>2. (a \o c) \o d = a \o (c \o d)
    BY ONLY ConcatAssociative, SMTT(60)
  <2> QED
    BY <1>1, <2>1, <2>2
<1>6. part \in [lines : Seq(Seq(S)), rest : Seq(S)]
  BY <1>2, <1>5, SplitType
<1>7. later \in [lines : Seq(Seq(S)), rest : Seq(S)]
  <2>1. part.rest \o d \in Seq(S)
    BY <1>1, <1>6, ConcatProperties
  <2> QED
    BY <1>3, <2>1, SplitType
<1>8. all = [lines |-> part.lines \o later.lines, rest |-> later.rest]
  <2>1. LET again == Split(Split(a \o c).rest \o d)
        IN  Split((a \o c) \o d) = [lines |-> Split(a \o c).lines \o again.lines,
                                     rest  |-> again.rest]
    BY <1>5, SplitAgain, Zenon
  <2> QED
    BY <1>2, <1>3, <1>4, <1>5, <2>1, Zenon
<1>9. PICK U : U = Seq(S)
  OBVIOUS
<1>10. PICK x \in Seq(U), y \in Seq(U) : x = part.lines /\ y = later.lines
  BY <1>6, <1>7, <1>9
<1>11. all.lines = x \o y /\ later.rest = all.rest
  BY <1>8, <1>10
<1>12. /\ Len(x) \in 0..Len(x \o y)
       /\ x = SubSeq(x \o y, 1, Len(x))
       /\ y = SubSeq(x \o y, Len(x) + 1, Len(x \o y))
  OBVIOUS
<1> QED
  BY <1>1, <1>2, <1>3, <1>4, <1>10, <1>11, <1>12

(* What is left of a body are bytes again.                                 *)
LEMMA TruncatedType ==
    ASSUME text \in Text
    PROVE  truncated(Utf8(text)) \in Seq(0..4)
<1>1. PICK chars \in Seq(1..4) : chars = text
  BY TextAssumption
<1>2. PICK n \in 0..Len(chars) : truncated(Utf8(chars)) = Utf8(SubSeq(chars, 1, n))
  BY TruncatedIsText
<1>3. SubSeq(chars, 1, n) \in Seq(1..4)
  OBVIOUS
<1> QED
  BY <1>1, <1>2, <1>3, Utf8Type

(* One more line in the pipe is one more line in the queue.                *)
LEMMA WriteAppends ==
    ASSUME IOInv, NEW line \in Line, Write(line)
    PROVE  /\ queue' = Append(queue, line) /\ Split(inbuf \o pipe).rest = <<>>
           /\ Split(inbuf' \o pipe').rest = <<>>
           /\ pipe' \in Seq(Byte) /\ Len(pipe') <= MaxPipe
<1>1. /\ inbuf \in Seq(Byte) /\ pipe \in Seq(Byte) /\ Len(pipe) + Len(line) < MaxPipe
      /\ inbuf' = inbuf /\ pipe' = pipe \o line \o <<NL>>
      /\ Split(inbuf \o pipe).rest = <<>>
  BY DEF IOInv, IOTypeOK, WholeLines, Write
<1>2. line \in Seq(Byte) /\ NL \in Byte /\ <<NL>> \in Seq(Byte) /\ Len(<<NL>>) = 1
  BY LineOfBytes
<1>3. pipe' \in Seq(Byte) /\ Len(pipe') <= MaxPipe
  <2>1. PICK x \in Seq(Byte) : x = pipe \o line /\ Len(x) = Len(pipe) + Len(line)
    BY <1>1, <1>2, ConcatProperties
  <2>2. x \o <<NL>> \in Seq(Byte) /\ Len(x \o <<NL>>) = Len(x) + 1
    BY <1>2, ConcatProperties
  <2>3. Len(pipe) \in Nat /\ Len(line) \in Nat
    BY <1>1, <1>2, LenProperties
  <2> QED
    BY <1>1, <2>1, <2>2, <2>3, PipeAssumption
<1>4. PICK more \in Seq(Byte) : more = line \o <<NL>>
  BY <1>2, ConcatProperties
<1>5. PICK old \in Seq(Byte) : old = inbuf \o pipe
  BY <1>1, ConcatProperties
<1>6. inbuf' \o pipe' = old \o more
  <2>1. pipe' = pipe \o more
    BY <1>1, <1>2, <1>4, ConcatThree
  <2>2. inbuf \o (pipe \o more) = (inbuf \o pipe) \o more
    <3>1. inbuf \in Seq(Byte) /\ pipe \in Seq(Byte)
      BY <1>1
    <3> QED
      BY ONLY <3>1, ConcatAssociative, SMTT(60)
  <2>3. inbuf' \o pipe' = inbuf \o (pipe \o more)
    BY <1>1, <2>1
  <2> QED
    BY <1>5, <2>2, <2>3
<1>7. Split(old).rest \o more = more
  BY <1>1, <1>5, ConcatEmptySeq
<1>8. Split(more) = [lines |-> <<line>>, rest |-> <<>>]
  BY <1>4, SplitLine
<1>9. Split(old \o more) = [lines |-> Split(old).lines \o <<line>>, rest |-> <<>>]
  <2>1. Split(old \o more) = [lines |-> Split(old).lines \o Split(Split(old).rest \o more).lines,
                              rest  |-> Split(Split(old).rest \o more).rest]
    BY SplitAgain
  <2>2. PICK d : d = Split(more)
    OBVIOUS
  <2>3. Split(old \o more) = [lines |-> Split(old).lines \o d.lines, rest |-> d.rest]
    BY <1>7, <2>1, <2>2
  <2>4. d.lines = <<line>> /\ d.rest = <<>>
    BY <1>8, <2>2
  <2> QED
    BY <2>3, <2>4
<1>10. Append(queue, line) = Split(old).lines \o <<line>>
  <2>1. queue \in Seq(Line) /\ queue = Split(old).lines
    BY <1>5 DEF IOInv, WholeLines, queue
  <2> QED
    BY <2>1, AppendIsConcat
<1>11. Split(inbuf' \o pipe').lines = Append(queue, line) /\ Split(inbuf' \o pipe').rest = <<>>
  BY <1>6, <1>9, <1>10
<1>12. queue' = Append(queue, line)
  BY <1>11 DEF queue
<1> QED
  BY <1>1, <1>3, <1>11, <1>12

(* A read takes the first lines of the queue.                              *)
LEMMA ReadTakes ==
    ASSUME IOInv, NEW n \in Nat, Read(n)
    PROVE  /\ \E k \in 0..Len(queue) : /\ got' = SubSeq(queue, 1, k)
                                       /\ queue' = SubSeq(queue, k + 1, Len(queue))
           /\ Split(inbuf' \o pipe').rest = Split(inbuf \o pipe).rest
           /\ inbuf' \in Seq(Byte) /\ ~Contains(inbuf', NL)
           /\ pipe' \in Seq(Byte) /\ Len(pipe') <= Len(pipe)
<1> DEFINE a == inbuf \o SubSeq(pipe, 1, n)
<1>1. /\ inbuf \in Seq(Byte) /\ pipe \in Seq(Byte) /\ n \in 0..Len(pipe)
      /\ got' = Split(a).lines /\ inbuf' = Split(a).rest
      /\ pipe' = SubSeq(pipe, n + 1, Len(pipe))
  BY DEF IOInv, IOTypeOK, Read
<1>2. a \in Seq(Byte)
  BY <1>1
<1>3. inbuf' \in Seq(Byte) /\ ~Contains(inbuf', NL)
  BY <1>1, <1>2, SplitType
<1>4. pipe' \in Seq(Byte) /\ Len(pipe') <= Len(pipe)
  BY <1>1
<1>5. LET all   == Split(inbuf \o pipe)
          later == Split(Split(a).rest \o SubSeq(pipe, n + 1, Len(pipe)))
          k     == Len(Split(a).lines)
      IN  /\ k \in 0..Len(all.lines)
          /\ Split(a).lines = SubSeq(all.lines, 1, k)
          /\ later.lines = SubSeq(all.lines, k + 1, Len(all.lines))
          /\ later.rest = all.rest
  BY <1>1, SplitPart
<1> HIDE DEF a
<1> QED
  BY <1>1, <1>3, <1>4, <1>5 DEF queue

(* What the end of the client loses is at the end of the queue.            *)
LEMMA ClosingCuts ==
    ASSUME IOInv, ClientGone
    PROVE  /\ \E k \in 0..Len(queue) : queue' = SubSeq(queue, 1, k)
           /\ pipe' \in Seq(Byte) /\ Len(pipe') <= Len(pipe)
<1>1. inbuf \in Seq(Byte) /\ pipe \in Seq(Byte) /\ inbuf' = inbuf
  BY DEF IOInv, IOTypeOK, ClientGone
<1>2. PICK n \in 0..Len(pipe) : pipe' = SubSeq(pipe, 1, n)
  BY DEF ClientGone
<1>3. pipe' \in Seq(Byte) /\ Len(pipe') <= Len(pipe)
  BY <1>1, <1>2
<1>4. LET all   == Split(inbuf \o pipe)
          part  == Split(inbuf \o SubSeq(pipe, 1, n))
          later == Split(part.rest \o SubSeq(pipe, n + 1, Len(pipe)))
          k     == Len(part.lines)
      IN  /\ k \in 0..Len(all.lines)
          /\ part.lines = SubSeq(all.lines, 1, k)
          /\ later.lines = SubSeq(all.lines, k + 1, Len(all.lines))
          /\ later.rest = all.rest
  BY <1>1, SplitPart
<1> QED
  BY <1>1, <1>2, <1>3, <1>4 DEF queue

(* Nothing is left to dispatch when the helper quits.                      *)
LEMMA QuitEmpty ==
    ASSUME IOInv, EndOfFile
    PROVE  queue = <<>>
<1>1. inbuf \in Seq(Byte) /\ ~Contains(inbuf, NL) /\ pipe = <<>>
  BY DEF IOInv, IOTypeOK, NoRequestWaits, EndOfFile
<1>2. inbuf \o pipe = inbuf
  BY <1>1, ConcatEmptySeq
<1> QED
  BY <1>1, <1>2, SplitNoLine DEF queue
-----------------------------------------------------------------------------
(* Init and every step.                                                    *)
LEMMA IOInvInit == IOInit => IOInv
<1> SUFFICES ASSUME IOInit
             PROVE  IOInv
  OBVIOUS
<1> USE DEF IOInit
<1>1. <<>> \o <<>> = <<>> /\ Len(<<>>) = 0
  OBVIOUS
<1>2. Split(inbuf \o pipe) = Nothing
  BY <1>1, SplitNothing
<1>3. IOTypeOK
  BY <1>1, PipeAssumption DEF IOTypeOK
<1>4. NoRequestWaits
  BY DEF NoRequestWaits, Contains
<1>5. WholeLines
  <2>1. <<>> \in Seq(Line)
    OBVIOUS
  <2>2. Split(inbuf \o pipe).lines = <<>> /\ Split(inbuf \o pipe).rest = <<>>
    BY <1>2 DEF Nothing
  <2> QED
    BY <2>1, <2>2 DEF WholeLines
<1>6. BodyIsText
  BY DEF BodyIsText, ToSet
<1> QED
  BY <1>3, <1>4, <1>5, <1>6 DEF IOInv

(* The body that answers is the first characters of the mail's, and a read *)
(* that completes no line answers nothing.                                 *)
LEMMA ReadAnswers ==
    ASSUME IOInv, NEW n \in Nat, Read(n)
    PROVE  BodyIsText' /\ body' \in Seq(Seq(0..4))
<1>1. text \in Text /\ text' = text /\ body \in Seq(Seq(0..4)) /\ BodyIsText
  BY DEF IOInv, IOTypeOK, Read
<1>2. body' = body \/ body' = <<truncated(Utf8(text))>>
  BY DEF Read
<1>3. CASE body' = body
  BY <1>1, <1>3 DEF BodyIsText
<1>4. CASE body' = <<truncated(Utf8(text))>>
  <2>1. PICK chars \in Seq(1..4) : chars = text
    BY <1>1, TextAssumption
  <2>2. PICK cut \in Seq(0..4) : cut = truncated(Utf8(text))
    BY <1>1, TruncatedType
  <2>3. ToSet(body') = {cut} /\ body' \in Seq(Seq(0..4))
    BY <1>4, <2>2 DEF ToSet
  <2>4. \E m \in 0..Len(chars) :
            /\ cut = Utf8(SubSeq(chars, 1, m))
            /\ Len(cut) <= maxBodyBytes
            /\ m < Len(chars) => Len(Utf8(chars)) > maxBodyBytes
            /\ m + 2 <= Len(chars) =>
                   Len(Utf8(SubSeq(chars, 1, m + 2))) > maxBodyBytes
    BY <2>1, <2>2, TruncatedIsText
  <2> QED
    BY <1>1, <2>1, <2>3, <2>4 DEF BodyIsText
<1> QED
  BY <1>2, <1>3, <1>4

LEMMA IOInvStep == IOInv /\ [IONext]_ioVars => IOInv'
<1> SUFFICES ASSUME IOInv, [IONext]_ioVars
             PROVE  IOInv'
  OBVIOUS
<1>1. ASSUME NEW line \in Line, Write(line)
      PROVE  IOInv'
  <2>1. /\ queue' = Append(queue, line) /\ Split(inbuf' \o pipe').rest = <<>>
        /\ pipe' \in Seq(Byte) /\ Len(pipe') <= MaxPipe
    BY <1>1, WriteAppends
  <2>2. UNCHANGED <<inbuf, open, reader, got, text, body>>
    BY <1>1 DEF Write
  <2>3. IOTypeOK'
    BY <2>1, <2>2 DEF IOInv, IOTypeOK
  <2>4. NoRequestWaits'
    BY <2>2 DEF IOInv, NoRequestWaits
  <2>5. WholeLines'
    <3>1. queue \in Seq(Line)
      BY DEF IOInv, WholeLines, queue
    <3>2. queue' \in Seq(Line)
      BY <2>1, <3>1
    <3> QED
      BY <2>1, <3>2 DEF WholeLines, queue
  <2>6. BodyIsText'
    BY <2>2 DEF IOInv, BodyIsText
  <2> QED
    BY <2>3, <2>4, <2>5, <2>6 DEF IOInv
<1>2. ASSUME NEW n \in 1..MaxPipe, Read(n)
      PROVE  IOInv'
  <2>1. n \in Nat
    BY PipeAssumption
  <2>2. /\ \E k \in 0..Len(queue) : /\ got' = SubSeq(queue, 1, k)
                                    /\ queue' = SubSeq(queue, k + 1, Len(queue))
        /\ Split(inbuf' \o pipe').rest = Split(inbuf \o pipe).rest
        /\ inbuf' \in Seq(Byte) /\ ~Contains(inbuf', NL)
        /\ pipe' \in Seq(Byte) /\ Len(pipe') <= Len(pipe)
    BY <1>2, <2>1, ReadTakes
  <2>3. UNCHANGED <<open, reader, text>>
    BY <1>2 DEF Read
  <2>4. BodyIsText' /\ body' \in Seq(Seq(0..4))
    BY <1>2, <2>1, ReadAnswers
  <2>5. queue \in Seq(Line)
    BY DEF IOInv, WholeLines, queue
  <2>6. got' \in Seq(Line) /\ queue' \in Seq(Line)
    BY <2>2, <2>5
  <2>7. Len(pipe') <= MaxPipe
    <3>1. pipe \in Seq(Byte) /\ Len(pipe) <= MaxPipe
      BY DEF IOInv, IOTypeOK
    <3>2. Len(pipe) \in Nat /\ Len(pipe') \in Nat
      BY <2>2, <3>1, LenProperties
    <3> QED
      BY <2>2, <3>1, <3>2, PipeAssumption
  <2>8. IOTypeOK'
    BY <2>2, <2>3, <2>4, <2>6, <2>7 DEF IOInv, IOTypeOK
  <2>9. NoRequestWaits'
    BY <2>2 DEF NoRequestWaits
  <2>10. WholeLines'
    BY <2>2, <2>3, <2>6 DEF IOInv, WholeLines, queue
  <2> QED
    BY <2>4, <2>8, <2>9, <2>10 DEF IOInv
<1>3. CASE ClientGone
  <2>1. /\ \E k \in 0..Len(queue) : queue' = SubSeq(queue, 1, k)
        /\ pipe' \in Seq(Byte) /\ Len(pipe') <= Len(pipe)
    BY <1>3, ClosingCuts
  <2>2. open' = FALSE /\ UNCHANGED <<inbuf, reader, got, text, body>>
    BY <1>3 DEF ClientGone
  <2>3. queue \in Seq(Line)
    BY DEF IOInv, WholeLines, queue
  <2>4. queue' \in Seq(Line)
    BY <2>1, <2>3
  <2>5. Len(pipe') <= MaxPipe
    <3>1. pipe \in Seq(Byte) /\ Len(pipe) <= MaxPipe
      BY DEF IOInv, IOTypeOK
    <3>2. Len(pipe) \in Nat /\ Len(pipe') \in Nat
      BY <2>1, <3>1, LenProperties
    <3> QED
      BY <2>1, <3>1, <3>2, PipeAssumption
  <2>6. IOTypeOK'
    BY <2>1, <2>2, <2>5 DEF IOInv, IOTypeOK
  <2>7. NoRequestWaits' /\ BodyIsText'
    BY <2>2 DEF IOInv, NoRequestWaits, BodyIsText
  <2>8. WholeLines'
    BY <2>2, <2>4 DEF WholeLines, queue
  <2> QED
    BY <2>6, <2>7, <2>8 DEF IOInv
<1>4. CASE EndOfFile
  <2>1. reader' = "quit" /\ UNCHANGED <<pipe, inbuf, open, got, text, body>>
    BY <1>4 DEF EndOfFile
  <2> QED
    BY <2>1 DEF IOInv, IOTypeOK, NoRequestWaits, WholeLines, BodyIsText
<1>5. CASE Gone \/ UNCHANGED ioVars
  <2>1. UNCHANGED <<pipe, inbuf, open, reader, got, text, body>>
    BY <1>5 DEF Gone, ioVars
  <2> QED
    BY <2>1 DEF IOInv, IOTypeOK, NoRequestWaits, WholeLines, BodyIsText
<1> QED
  BY <1>1, <1>2, <1>3, <1>4, <1>5 DEF IONext

(* Whatever is read, written or lost, IOInv holds.                         *)
THEOREM IOInvariance == IOSpec => []IOInv
<1>1. IOInit => IOInv
  BY IOInvInit
<1>2. IOInv /\ [IONext]_ioVars => IOInv'
  BY IOInvStep
<1> QED
  BY <1>1, <1>2, PTL DEF IOSpec

(* Every variable of the bytes' side has its type.                         *)
THEOREM IOTypeCorrect == IOSpec => []IOTypeOK
<1>1. IOInv => IOTypeOK
  BY DEF IOInv
<1> QED
  BY <1>1, IOInvariance, PTL

(* For lines of any length, read in chunks that end anywhere, no whole     *)
(* request is ever left in the accumulator of mutate.cpp's loop.           *)
THEOREM NoRequestIsLeft == IOSpec => []NoRequestWaits
<1>1. IOInv => NoRequestWaits
  BY DEF IOInv
<1> QED
  BY <1>1, IOInvariance, PTL

(* For bodies of any length and any limit, truncated() cuts between two    *)
(* characters, and drops no more than one that would have fitted.          *)
THEOREM BodiesAreText == IOSpec => []BodyIsText
<1>1. IOInv => BodyIsText
  BY DEF IOInv
<1> QED
  BY <1>1, IOInvariance, PTL

(* Bytes in chunks implement the queue of lines that the client relies on: *)
(* a write puts a line, a read takes the first ones, the end of the client *)
(* cuts the last ones, and the helper quits when there are none.           *)
THEOREM LinesDoArrive == IOSpec => LinesArrive
<1>1. IOInit => Lines!QueueInit
  <2> SUFFICES ASSUME IOInit
               PROVE  Lines!QueueInit
    OBVIOUS
  <2>1. <<>> \o <<>> = <<>>
    OBVIOUS
  <2>2. Split(inbuf \o pipe) = Nothing
    BY <2>1, SplitNothing DEF IOInit
  <2> QED
    BY <2>2 DEF IOInit, Lines!QueueInit, Nothing
<1>2. IOInv /\ [IONext]_ioVars => [Lines!QueueNext]_(Lines!queueVars)
  <2> SUFFICES ASSUME IOInv, [IONext]_ioVars
               PROVE  Lines!QueueNext \/ UNCHANGED Lines!queueVars
    OBVIOUS
  <2>1. ASSUME NEW line \in Line, Write(line)
        PROVE  Lines!Put
    <3>1. Split(inbuf' \o pipe').lines = Append(Split(inbuf \o pipe).lines, line)
      BY <2>1, WriteAppends DEF queue
    <3> QED
      BY <2>1, <3>1 DEF Write, Lines!Put
  <2>2. ASSUME NEW n \in 1..MaxPipe, Read(n)
        PROVE  Lines!Get
    <3>1. n \in Nat
      BY PipeAssumption
    <3>2. \E k \in 0..Len(queue) : /\ got' = SubSeq(queue, 1, k)
                                   /\ queue' = SubSeq(queue, k + 1, Len(queue))
      BY <2>2, <3>1, ReadTakes
    <3>3. reader = "reads" /\ UNCHANGED <<open, reader>>
      BY <2>2 DEF Read
    <3> QED
      BY <3>2, <3>3 DEF queue, Lines!Get
  <2>3. ASSUME ClientGone
        PROVE  Lines!Close
    <3>1. \E k \in 0..Len(queue) : queue' = SubSeq(queue, 1, k)
      BY <2>3, ClosingCuts
    <3>2. open /\ open' = FALSE
      BY <2>3 DEF ClientGone
    <3>3. UNCHANGED <<got, reader>>
      BY <2>3 DEF ClientGone
    <3> QED
      BY <3>1, <3>2, <3>3 DEF queue, Lines!Close
  <2>4. ASSUME EndOfFile
        PROVE  Lines!Quit
    <3>1. Split(inbuf \o pipe).lines = <<>>
      BY <2>4, QuitEmpty DEF queue
    <3>2. ~open /\ reader' = "quit"
      BY <2>4 DEF EndOfFile
    <3>3. pipe' = pipe /\ inbuf' = inbuf /\ open' = open /\ got' = got
      BY <2>4 DEF EndOfFile
    <3>4. UNCHANGED <<Split(inbuf \o pipe).lines, got, open>>
      BY <3>3
    <3> QED
      BY <3>1, <3>2, <3>4 DEF Lines!Quit
  <2>5. CASE Gone \/ UNCHANGED ioVars
    <3>1. UNCHANGED <<pipe, inbuf, open, reader, got>>
      BY <2>5 DEF Gone, ioVars
    <3> QED
      BY <3>1 DEF Lines!queueVars
  <2> QED
    BY <2>1, <2>2, <2>3, <2>4, <2>5 DEF IONext, Lines!QueueNext
<1> QED
  BY <1>1, <1>2, IOInvariance, PTL DEF IOSpec, LinesArrive, Lines!QueueSpec
=============================================================================
