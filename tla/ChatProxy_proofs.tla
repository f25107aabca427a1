-------------------------- MODULE ChatProxy_proofs --------------------------
(***************************************************************************)
(* One request to the proxy, from the parsing of its body to the last      *)
(* item written: what the client is told is what the provider answered,    *)
(* for every conversation, every reply and every stream, whenever the      *)
(* context is cancelled and however the handler and the reader of the      *)
(* stream interleave.                                                      *)
(***************************************************************************)
EXTENDS ChatProxy, NaturalsInduction, SequenceTheorems, WellFoundedInduction, TLAPS

-----------------------------------------------------------------------------
(* Lists, and loops over them *)

(* Induction on the natural numbers, for a set of them.                    *)
LEMMA NatInduct ==
    ASSUME NEW T \in SUBSET Nat, 0 \in T, \A n \in T : n + 1 \in T
    PROVE  T = Nat
  <1> DEFINE Bad == Nat \ T
  <1>1. SUFFICES ASSUME Bad # {} PROVE FALSE
    OBVIOUS
  <1>2. PICK x \in Bad : \A y \in Bad : ~(<<y, x>> \in OpToRel(<, Nat))
    BY <1>1, NatLessThanWellFounded, WFMin
  <1>3. \A y \in Bad : ~(y < x)
    BY <1>2 DEF OpToRel
  <1>4. x # 0 /\ x - 1 \in Nat /\ x - 1 \notin Bad
    BY <1>3
  <1> QED
    BY <1>4

(* A loop with values in V: what they are after each of its rounds.        *)
Rounds(V) == [Nat -> [V -> V]]
LoopOf(f, V, base, step) == f \in [Nat -> V] /\ f[0] = base /\ \A n \in Nat : f[n + 1] = step[n][f[n]]

(* Every loop has such values. *)
LEMMA LoopExists ==
    ASSUME NEW V, NEW base, base \in V, NEW step, step \in Rounds(V)
    PROVE  \E f : LoopOf(f, V, base, step)
  <1> USE DEF Rounds
  <1> DEFINE Good(g, n) == g \in [0..n -> V] /\ g[0] = base /\ \A k \in 0..n - 1 : g[k + 1] = step[k][g[k]]
             T == {n \in Nat : \E g : Good(g, n)}
  <1>1. 0 \in T
    <2>1. Good([k \in 0..0 |-> base], 0)
      OBVIOUS
    <2> QED
      BY <2>1
  <1>2. ASSUME NEW n \in T PROVE n + 1 \in T
    <2>1. PICK g : Good(g, n)
      BY <1>2
    <2> DEFINE h == [k \in 0..n + 1 |-> IF k = n + 1 THEN step[n][g[n]] ELSE g[k]]
    <2>2. n \in Nat
      OBVIOUS
    <2>3. h \in [0..n + 1 -> V] /\ h[0] = base
      BY <2>1, <2>2
    <2>4. ASSUME NEW k \in 0..n PROVE h[k + 1] = step[k][h[k]]
      <3>1. CASE k = n
        BY <2>2, <3>1
      <3>2. CASE k # n
        <4>1. k \in 0..n - 1 /\ k \in 0..n + 1 /\ k + 1 \in 0..n + 1 /\ k + 1 # n + 1 /\ k # n + 1
          BY <2>2, <3>2
        <4>2. h[k] = g[k] /\ h[k + 1] = g[k + 1]
          BY <3>2, <4>1
        <4> QED
          BY <2>1, <4>1, <4>2
      <3> QED
        BY <3>1, <3>2
    <2> HIDE DEF h
    <2>5. Good(h, n + 1)
      BY <2>2, <2>3, <2>4
    <2> QED
      BY <2>2, <2>5
  <1>3. T = Nat
    <2> HIDE DEF T
    <2>1. T \in SUBSET Nat
      BY DEF T
    <2> QED
      BY <1>1, <1>2, <2>1, NatInduct
  <1> DEFINE G == [n \in Nat |-> CHOOSE g : Good(g, n)]
  <1>4. \A n \in Nat : Good(G[n], n)
    <2> SUFFICES ASSUME NEW n \in Nat PROVE Good(G[n], n)
      OBVIOUS
    <2>1. \E g : Good(g, n)
      BY <1>3
    <2> HIDE DEF Good
    <2> QED
      BY <2>1
  <1> HIDE DEF G
  <1> DEFINE U == {n \in Nat : \A m \in Nat : m >= n => G[m][n] = G[n][n]}
  <1>5. 0 \in U
    BY <1>4
  <1>6. ASSUME NEW n \in U PROVE n + 1 \in U
    <2>1. ASSUME NEW m \in Nat, m >= n + 1 PROVE G[m][n + 1] = G[n + 1][n + 1]
      <3>1. G[m][n + 1] = step[n][G[m][n]] /\ G[n + 1][n + 1] = step[n][G[n + 1][n]]
        <4>1. n \in 0..m - 1 /\ n \in 0..(n + 1) - 1 /\ n + 1 \in Nat
          BY <2>1
        <4> QED
          BY <1>4, <4>1, <2>1
      <3>2. G[m][n] = G[n][n] /\ G[n + 1][n] = G[n][n]
        BY <2>1
      <3> QED
        BY <3>1, <3>2
    <2> QED
      BY <2>1
  <1>7. U = Nat
    <2> HIDE DEF U
    <2>1. U \in SUBSET Nat
      BY DEF U
    <2> QED
      BY <1>5, <1>6, <2>1, NatInduct
  <1> DEFINE W == [n \in Nat |-> G[n][n]]
  <1>8. ASSUME NEW n \in Nat PROVE W[n + 1] = step[n][W[n]]
    <2>1. n + 1 \in Nat /\ n \in 0..(n + 1) - 1 /\ n + 1 >= n
      OBVIOUS
    <2>2. G[n + 1][n + 1] = step[n][G[n + 1][n]]
      BY <1>4, <2>1
    <2>3. G[n + 1][n] = G[n][n]
      BY <1>7, <2>1
    <2> QED
      BY <2>1, <2>2, <2>3
  <1>9. W \in [Nat -> V] /\ W[0] = base
    <2>1. ASSUME NEW n \in Nat PROVE G[n][n] \in V
      <3>1. G[n] \in [0..n -> V] /\ n \in 0..n
        BY <1>4
      <3> QED
        BY <3>1
    <2>2. G[0][0] = base
      BY <1>4
    <2> QED
      BY <2>1, <2>2
  <1> QED
    BY <1>8, <1>9 DEF LoopOf

(* A list is a sequence over its own elements.                             *)
LEMMA SeqFacts ==
    ASSUME NEW s, IsSeq(s)
    PROVE  Len(s) \in Nat /\ DOMAIN s = 1..Len(s) /\ s = [i \in 1..Len(s) |-> s[i]]
  BY DEF IsSeq

(* A member of Seq(S) is a list.                                           *)
LEMMA SeqIsSeq ==
    ASSUME NEW S, NEW s \in Seq(S)
    PROVE  IsSeq(s)
  BY SeqOfRange DEF IsSeq, Range

(* So is a function on 1..n, of length n.                                  *)
LEMMA FunctionIsSeq ==
    ASSUME NEW n \in Nat, NEW s, DOMAIN s = 1..n, s = [i \in 1..n |-> s[i]]
    PROVE  IsSeq(s) /\ Len(s) = n
  <1>1. s \in [1..n -> Range(s)]
    BY DEF Range
  <1> QED
    BY <1>1, IsASeq DEF IsSeq

(* A list with one more element: its length and its elements.              *)
LEMMA AppendIsSeq ==
    ASSUME NEW s, IsSeq(s), NEW e
    PROVE  /\ IsSeq(Append(s, e)) /\ Len(Append(s, e)) = Len(s) + 1
           /\ \A i \in 1..Len(s) : Append(s, e)[i] = s[i]
           /\ Append(s, e)[Len(s) + 1] = e
           /\ DOMAIN Append(s, e) = 1..Len(s) + 1
  <1> DEFINE S == Range(s) \cup {e}
  <1>1. s \in Seq(S)
    <2>1. s \in Seq(Range(s)) /\ Range(s) \subseteq S
      BY DEF IsSeq
    <2> HIDE DEF S
    <2> QED
      BY <2>1, SeqMonotonic
  <1>2. e \in S
    OBVIOUS
  <1> HIDE DEF S
  <1>3. Append(s, e) \in Seq(S)
    BY <1>1, <1>2
  <1>4. IsSeq(Append(s, e))
    BY <1>3, SeqIsSeq
  <1>5. /\ Len(Append(s, e)) = Len(s) + 1
        /\ \A i \in 1..Len(s) : Append(s, e)[i] = s[i]
        /\ Append(s, e)[Len(s) + 1] = e
    BY <1>1, <1>2, AppendProperties
  <1>6. DOMAIN Append(s, e) = 1..Len(s) + 1
    BY <1>4, <1>5, SeqFacts
  <1> QED
    BY <1>4, <1>5, <1>6

(* The recursion that takes elements from a list has a solution, round by  *)
(* round.                                                                  *)
LEMMA TakenRounds ==
    ASSUME NEW s, IsSeq(s), NEW I
    PROVE  /\ TakenBy(s, I) \in [0..Len(s) -> Seq(Range(s))]
           /\ TakenBy(s, I)[0] = <<>>
           /\ \A n \in 1..Len(s) : TakenBy(s, I)[n] = IF n \in I THEN Append(TakenBy(s, I)[n - 1], s[n]) ELSE TakenBy(s, I)[n - 1]
  <1> DEFINE Lists == Seq(Range(s))
             round == [n \in Nat |-> [t \in Lists |-> IF n + 1 \in I \cap DOMAIN s THEN Append(t, s[n + 1]) ELSE t]]
             Fits(t) == t = [n \in 0..Len(s) |-> IF n = 0 THEN <<>> ELSE IF n \in I THEN Append(t[n - 1], s[n]) ELSE t[n - 1]]
  <1>1. Len(s) \in Nat /\ DOMAIN s = 1..Len(s)
    BY SeqFacts
  <1>2. <<>> \in Lists
    OBVIOUS
  <1>3. ASSUME NEW i \in DOMAIN s PROVE s[i] \in Range(s)
    BY DEF Range
  <1>4. round \in [Nat -> [Lists -> Lists]]
    BY <1>3
  <1>5. \A n \in Nat, t \in Lists : round[n][t] = IF n + 1 \in I \cap DOMAIN s THEN Append(t, s[n + 1]) ELSE t
    OBVIOUS
  <1>6. PICK f \in [Nat -> Lists] : f[0] = <<>> /\ \A n \in Nat : f[n + 1] = round[n][f[n]]
    <2> DEFINE nil == <<>>
    <2>1. nil \in Lists
      BY <1>2
    <2> HIDE DEF Lists, round, nil
    <2>2. round \in Rounds(Lists)
      BY <1>4 DEF Rounds
    <2>3. \E f : LoopOf(f, Lists, nil, round)
      BY <2>1, <2>2, LoopExists
    <2> QED
      BY <2>3 DEF nil, LoopOf
  <1>7. \E t : Fits(t)
    <2> DEFINE t == [n \in 0..Len(s) |-> f[n]]
    <2>1. ASSUME NEW n \in 0..Len(s), n # 0 PROVE t[n] = IF n \in I THEN Append(t[n - 1], s[n]) ELSE t[n - 1]
      <3>1. n - 1 \in Nat /\ (n - 1) + 1 = n /\ n \in DOMAIN s /\ n - 1 \in 0..Len(s)
        BY <1>1, <2>1
      <3>2. f[n - 1] \in Lists /\ f[n] = round[n - 1][f[n - 1]]
        BY <1>6, <3>1
      <3>3. f[n] = IF n \in I THEN Append(f[n - 1], s[n]) ELSE f[n - 1]
        BY <1>5, <3>1, <3>2
      <3> QED
        BY <3>1, <3>3
    <2>2. t[0] = <<>>
      BY <1>1, <1>6
    <2>3. Fits(t)
      BY <2>1, <2>2
    <2> QED
      BY <2>3
  <1>8. TakenBy(s, I) = CHOOSE t : Fits(t)
    BY DEF TakenBy
  <1>9. Fits(TakenBy(s, I))
    <2> HIDE DEF Fits
    <2> QED
      BY <1>7, <1>8
  <1> DEFINE T == TakenBy(s, I)
             U == {n \in Nat : n <= Len(s) => T[n] \in Lists}
  <1>10. T[0] = <<>> /\ \A n \in 1..Len(s) : T[n] = IF n \in I THEN Append(T[n - 1], s[n]) ELSE T[n - 1]
    <2> HIDE DEF T
    <2>1. Fits(T)
      BY <1>9 DEF T
    <2>2. 0 \in 0..Len(s) /\ \A n \in 1..Len(s) : n \in 0..Len(s) /\ n # 0
      BY <1>1
    <2> QED
      BY <2>1, <2>2
  <1>11. DOMAIN T = 0..Len(s) /\ T = [n \in DOMAIN T |-> T[n]]
    <2> HIDE DEF T
    <2>1. Fits(T)
      BY <1>9 DEF T
    <2> QED
      BY <2>1
  <1> HIDE DEF T, Fits, Lists, round
  <1>12. 0 \in U
    BY <1>10, <1>2
  <1>13. ASSUME NEW n \in U PROVE n + 1 \in U
    <2>1. SUFFICES ASSUME n + 1 <= Len(s) PROVE T[n + 1] \in Lists
      OBVIOUS
    <2>2. n + 1 \in 1..Len(s) /\ (n + 1) - 1 = n /\ T[n] \in Lists
      BY <1>1, <2>1
    <2>3. T[n + 1] = IF n + 1 \in I THEN Append(T[n], s[n + 1]) ELSE T[n]
      BY <1>10, <2>2
    <2>4. s[n + 1] \in Range(s)
      BY <1>1, <1>3, <2>2
    <2>5. Append(T[n], s[n + 1]) \in Lists
      BY <2>2, <2>4 DEF Lists
    <2> QED
      BY <2>2, <2>3, <2>5
  <1>14. U = Nat
    <2>1. U \in SUBSET Nat
      OBVIOUS
    <2> HIDE DEF U
    <2> QED
      BY <1>12, <1>13, <2>1, NatInduct
  <1>15. T \in [0..Len(s) -> Lists]
    BY <1>1, <1>11, <1>14
  <1> QED
    BY <1>10, <1>15 DEF T, Lists

(* What was taken after each round is a list. *)
LEMMA TakenIsSeq ==
    ASSUME NEW s, IsSeq(s), NEW I
    PROVE  \A n \in 0..Len(s) : IsSeq(TakenBy(s, I)[n])
  <1> SUFFICES ASSUME NEW n \in 0..Len(s) PROVE IsSeq(TakenBy(s, I)[n])
    OBVIOUS
  <1>1. TakenBy(s, I)[n] \in Seq(Range(s))
    BY TakenRounds
  <1> QED
    BY <1>1, SeqIsSeq

(* What is taken up to a position depends on what is there up to it. *)
LEMMA TakenSame ==
    ASSUME NEW s, IsSeq(s), NEW t, IsSeq(t), NEW I, NEW J, NEW k \in 0..Len(s), k <= Len(t),
           \A i \in 1..k : s[i] = t[i] /\ (i \in I <=> i \in J)
    PROVE  TakenBy(s, I)[k] = TakenBy(t, J)[k]
  <1> DEFINE U == {n \in Nat : n <= k => TakenBy(s, I)[n] = TakenBy(t, J)[n]}
  <1>1. Len(s) \in Nat /\ Len(t) \in Nat
    BY SeqFacts
  <1>2. 0 \in U
    BY TakenRounds
  <1>3. ASSUME NEW n \in U PROVE n + 1 \in U
    <2>1. SUFFICES ASSUME n + 1 <= k PROVE TakenBy(s, I)[n + 1] = TakenBy(t, J)[n + 1]
      OBVIOUS
    <2>2. n + 1 \in 1..Len(s) /\ n + 1 \in 1..Len(t) /\ (n + 1) - 1 = n /\ n <= k /\ n + 1 \in 1..k
      BY <1>1, <2>1
    <2>3. TakenBy(s, I)[n + 1] = IF n + 1 \in I THEN Append(TakenBy(s, I)[n], s[n + 1]) ELSE TakenBy(s, I)[n]
      BY <2>2, TakenRounds
    <2>4. TakenBy(t, J)[n + 1] = IF n + 1 \in J THEN Append(TakenBy(t, J)[n], t[n + 1]) ELSE TakenBy(t, J)[n]
      BY <2>2, TakenRounds
    <2>5. TakenBy(s, I)[n] = TakenBy(t, J)[n]
      BY <2>2
    <2> QED
      BY <2>2, <2>3, <2>4, <2>5
  <1>4. U = Nat
    <2>1. U \in SUBSET Nat
      OBVIOUS
    <2> HIDE DEF U
    <2> QED
      BY <1>2, <1>3, <2>1, NatInduct
  <1> QED
    BY <1>1, <1>4

(* What is taken of a list with one more element. *)
LEMMA TakenAppend ==
    ASSUME NEW s, IsSeq(s), NEW x, NEW I, NEW J, \A i \in 1..Len(s) : i \in I <=> i \in J
    PROVE  Taken(Append(s, x), J) = IF Len(s) + 1 \in J THEN Append(Taken(s, I), x) ELSE Taken(s, I)
  <1> DEFINE t == Append(s, x)
  <1>1. IsSeq(t) /\ Len(t) = Len(s) + 1 /\ (\A i \in 1..Len(s) : t[i] = s[i]) /\ t[Len(s) + 1] = x /\ Len(s) \in Nat
    BY AppendIsSeq, SeqFacts
  <1> HIDE DEF t
  <1>2. TakenBy(s, I)[Len(s)] = TakenBy(t, J)[Len(s)]
    <2>1. Len(s) \in 0..Len(s) /\ Len(s) <= Len(t) /\ \A i \in 1..Len(s) : s[i] = t[i] /\ (i \in I <=> i \in J)
      BY <1>1
    <2> QED
      BY <1>1, <2>1, TakenSame
  <1>3. Len(s) + 1 \in 1..Len(t) /\ (Len(s) + 1) - 1 = Len(s)
    BY <1>1
  <1>4. TakenBy(t, J)[Len(s) + 1] = IF Len(s) + 1 \in J THEN Append(TakenBy(t, J)[Len(s)], t[Len(s) + 1]) ELSE TakenBy(t, J)[Len(s)]
    BY <1>1, <1>3, TakenRounds
  <1>5. Taken(t, J) = TakenBy(t, J)[Len(s) + 1] /\ Taken(s, I) = TakenBy(s, I)[Len(s)]
    BY <1>1 DEF Taken
  <1> QED
    BY <1>1, <1>2, <1>4, <1>5 DEF t

(* Lists are equal when they agree at every position. *)
LEMMA SeqSame ==
    ASSUME NEW s, IsSeq(s), NEW t, IsSeq(t), Len(s) = Len(t), \A i \in 1..Len(s) : s[i] = t[i]
    PROVE  s = t
  <1>1. s = [i \in 1..Len(s) |-> s[i]] /\ t = [i \in 1..Len(t) |-> t[i]]
    BY SeqFacts
  <1> QED
    BY <1>1

(* Who takes every element takes the list. *)
LEMMA TakenAll ==
    ASSUME NEW s, IsSeq(s), NEW I, DOMAIN s \subseteq I
    PROVE  Taken(s, I) = s
  <1> DEFINE T == TakenBy(s, I)
             Whole(n) == IsSeq(T[n]) /\ Len(T[n]) = n /\ \A i \in 1..n : T[n][i] = s[i]
             U == {n \in Nat : n <= Len(s) => Whole(n)}
  <1>1. Len(s) \in Nat /\ DOMAIN s = 1..Len(s)
    BY SeqFacts
  <1>2. 0 \in U
    <2>1. T[0] = <<>> /\ IsSeq(<<>>) /\ Len(<<>>) = 0
      BY TakenRounds, SeqIsSeq
    <2> QED
      BY <2>1
  <1>3. ASSUME NEW n \in U PROVE n + 1 \in U
    <2>1. SUFFICES ASSUME n + 1 <= Len(s) PROVE Whole(n + 1)
      OBVIOUS
    <2>2. n \in Nat /\ n + 1 \in I /\ Whole(n)
      BY <1>1, <2>1
    <2>3. T[n + 1] = Append(T[n], s[n + 1])
      <3> HIDE DEF Whole, U
      <3>1. n + 1 \in 1..Len(s) /\ (n + 1) - 1 = n
        BY <1>1, <2>1, <2>2
      <3>2. T[n + 1] = IF n + 1 \in I THEN Append(T[n], s[n + 1]) ELSE T[n]
        BY <3>1, TakenRounds
      <3> QED
        BY <2>2, <3>2
    <2> HIDE DEF T
    <2>4. IsSeq(T[n + 1]) /\ Len(T[n + 1]) = n + 1 /\ (\A i \in 1..n : T[n + 1][i] = T[n][i]) /\ T[n + 1][n + 1] = s[n + 1]
      BY <2>2, <2>3, AppendIsSeq
    <2> QED
      BY <2>2, <2>4
  <1>4. U = Nat
    <2>1. U \in SUBSET Nat
      OBVIOUS
    <2> HIDE DEF U
    <2> QED
      BY <1>2, <1>3, <2>1, NatInduct
  <1>5. Whole(Len(s))
    BY <1>1, <1>4
  <1> QED
    BY <1>5, SeqSame DEF Taken

(* From two lists of one length, taking the same positions takes element   *)
(* for element from the same position.                                     *)
Aligned(a, b, s, t, I) ==
    /\ IsSeq(a) /\ IsSeq(b) /\ Len(a) = Len(b)
    /\ \A k \in 1..Len(a) : \E i \in I \cap DOMAIN s : a[k] = s[i] /\ b[k] = t[i]

(* What is taken at the same positions from two lists of one length is     *)
(* aligned.                                                                *)
LEMMA TakenAligned ==
    ASSUME NEW s, IsSeq(s), NEW t, IsSeq(t), Len(s) = Len(t), NEW I
    PROVE  Aligned(Taken(s, I), Taken(t, I), s, t, I)
  <1> DEFINE S == TakenBy(s, I)
             T == TakenBy(t, I)
             U == {n \in Nat : n <= Len(s) => Aligned(S[n], T[n], s, t, I)}
  <1>1. Len(s) \in Nat /\ DOMAIN s = 1..Len(s)
    BY SeqFacts
  <1>2. 0 \in U
    <2>1. S[0] = <<>> /\ T[0] = <<>> /\ IsSeq(<<>>) /\ Len(<<>>) = 0
      BY TakenRounds, SeqIsSeq
    <2> QED
      BY <2>1 DEF Aligned
  <1>3. ASSUME NEW n \in U PROVE n + 1 \in U
    <2>1. SUFFICES ASSUME n + 1 <= Len(s) PROVE Aligned(S[n + 1], T[n + 1], s, t, I)
      OBVIOUS
    <2>2. n + 1 \in 1..Len(s) /\ n + 1 \in 1..Len(t) /\ (n + 1) - 1 = n /\ n + 1 \in DOMAIN s /\ Aligned(S[n], T[n], s, t, I)
      BY <1>1, <2>1
    <2>3. S[n + 1] = IF n + 1 \in I THEN Append(S[n], s[n + 1]) ELSE S[n]
      BY <2>2, TakenRounds
    <2>4. T[n + 1] = IF n + 1 \in I THEN Append(T[n], t[n + 1]) ELSE T[n]
      BY <2>2, TakenRounds
    <2> HIDE DEF S, T
    <2>5. CASE n + 1 \notin I
      BY <2>2, <2>3, <2>4, <2>5
    <2>6. CASE n + 1 \in I
      <3> DEFINE a == S[n]
                 b == T[n]
                 x == s[n + 1]
                 y == t[n + 1]
      <3>1. S[n + 1] = Append(a, x) /\ T[n + 1] = Append(b, y)
        BY <2>3, <2>4, <2>6
      <3>2. IsSeq(a) /\ IsSeq(b) /\ Len(a) = Len(b) /\ Len(a) \in Nat
        BY <2>2, SeqFacts DEF Aligned
      <3>3. \A k \in 1..Len(a) : \E i \in I \cap DOMAIN s : a[k] = s[i] /\ b[k] = t[i]
        BY <2>2 DEF Aligned
      <3> HIDE DEF a, b, x, y
      <3>4. /\ IsSeq(Append(a, x)) /\ Len(Append(a, x)) = Len(a) + 1 /\ Append(a, x)[Len(a) + 1] = x
            /\ \A i \in 1..Len(a) : Append(a, x)[i] = a[i]
        BY <3>2, AppendIsSeq
      <3>5. /\ IsSeq(Append(b, y)) /\ Len(Append(b, y)) = Len(b) + 1 /\ Append(b, y)[Len(b) + 1] = y
            /\ \A i \in 1..Len(b) : Append(b, y)[i] = b[i]
        BY <3>2, AppendIsSeq
      <3>6. ASSUME NEW k \in 1..Len(a) + 1
            PROVE \E i \in I \cap DOMAIN s : Append(a, x)[k] = s[i] /\ Append(b, y)[k] = t[i]
        <4>1. CASE k = Len(a) + 1
          <5>1. Append(a, x)[k] = s[n + 1] /\ Append(b, y)[k] = t[n + 1]
            BY <3>2, <3>4, <3>5, <4>1 DEF x, y
          <5> QED
            BY <2>2, <2>6, <5>1
        <4>2. CASE k # Len(a) + 1
          <5>1. k \in 1..Len(a) /\ k \in 1..Len(b)
            BY <3>2, <4>2
          <5> QED
            BY <3>3, <3>4, <3>5, <5>1
        <4> QED
          BY <4>1, <4>2
      <3> QED
        BY <3>1, <3>2, <3>4, <3>5, <3>6 DEF Aligned
    <2> QED
      BY <2>5, <2>6
  <1>4. U = Nat
    <2>1. U \in SUBSET Nat
      OBVIOUS
    <2> HIDE DEF U
    <2> QED
      BY <1>2, <1>3, <2>1, NatInduct
  <1>5. Aligned(S[Len(s)], T[Len(s)], s, t, I)
    BY <1>1, <1>4
  <1> QED
    BY <1>5 DEF Taken

(* One list begins another, position by position. *)
Begins(a, b) == Len(a) <= Len(b) /\ \A i \in 1..Len(a) : a[i] = b[i]

(* It is then the prefix the library defines.                              *)
LEMMA BeginsIsPrefix ==
    ASSUME NEW a, IsSeq(a), NEW b, IsSeq(b), Begins(a, b)
    PROVE  IsPrefix(a, b)
  <1>1. Len(a) \in Nat /\ Len(b) \in Nat /\ a \in Seq(Range(a)) /\ b \in Seq(Range(b))
    BY SeqFacts DEF IsSeq
  <1>2. SubSeq(a, 1, Len(a)) = [i \in 1..Len(a) |-> a[i]]
    BY <1>1
  <1>3. SubSeq(b, 1, Len(a)) = [i \in 1..Len(a) |-> b[i]]
    BY <1>1 DEF Begins
  <1> QED
    BY <1>2, <1>3 DEF IsPrefix, Begins

(* What begins the beginning of a sequence begins the sequence. *)
LEMMA BeginsOn ==
    ASSUME NEW a, NEW b, NEW c, Len(a) \in Nat, Len(b) \in Nat, Len(c) \in Nat,
           Begins(a, b), Begins(b, c)
    PROVE  Begins(a, c)
  BY DEF Begins

(* What was taken so far begins what will have been taken. *)
LEMMA TakenGrows ==
    ASSUME NEW s, IsSeq(s), NEW I, NEW m \in 0..Len(s)
    PROVE  Begins(TakenBy(s, I)[m], Taken(s, I))
  <1> DEFINE T == TakenBy(s, I)
             U == {n \in Nat : m + n <= Len(s) => Begins(T[m], T[m + n])}
  <1>1. Len(s) \in Nat /\ \A n \in 0..Len(s) : IsSeq(T[n]) /\ Len(T[n]) \in Nat
    BY SeqFacts, TakenIsSeq
  <1>2. 0 \in U
    BY <1>1 DEF Begins
  <1>3. ASSUME NEW n \in U PROVE n + 1 \in U
    <2>1. SUFFICES ASSUME m + (n + 1) <= Len(s) PROVE Begins(T[m], T[m + (n + 1)])
      OBVIOUS
    <2> DEFINE k == m + n
    <2>2. k + 1 \in 1..Len(s) /\ (k + 1) - 1 = k /\ m + (n + 1) = k + 1 /\ Begins(T[m], T[k]) /\ k \in 0..Len(s)
      BY <1>1, <2>1
    <2>3. T[k + 1] = IF k + 1 \in I THEN Append(T[k], s[k + 1]) ELSE T[k]
      <3> HIDE DEF k
      <3> QED
        BY <2>2, TakenRounds
    <2>4. IsSeq(T[k]) /\ Len(T[k]) \in Nat /\ Len(T[m]) \in Nat
      BY <1>1, <2>2
    <2> HIDE DEF k, T
    <2>5. Len(T[k + 1]) >= Len(T[k]) /\ \A i \in 1..Len(T[k]) : T[k + 1][i] = T[k][i]
      BY <2>3, <2>4, AppendIsSeq
    <2>6. Len(T[k + 1]) \in Nat
      BY <2>3, <2>4, AppendIsSeq
    <2> QED
      <3>1. Begins(T[k], T[k + 1])
        BY <2>4, <2>5, <2>6 DEF Begins
      <3>2. Begins(T[m], T[k + 1])
        BY <2>2, <2>4, <2>6, <3>1, BeginsOn
      <3> QED
        BY <2>2, <3>2
  <1>4. U = Nat
    <2>1. U \in SUBSET Nat
      OBVIOUS
    <2> HIDE DEF U
    <2> QED
      BY <1>2, <1>3, <2>1, NatInduct
  <1>5. Len(s) - m \in Nat /\ m + (Len(s) - m) = Len(s)
    BY <1>1
  <1>6. Begins(T[m], T[m + (Len(s) - m)])
    <2>1. \A n \in Nat : m + n <= Len(s) => Begins(T[m], T[m + n])
      BY <1>4
    <2>2. m + (Len(s) - m) <= Len(s)
      BY <1>1, <1>5
    <2> HIDE DEF T, U
    <2> QED
      BY <1>5, <2>1, <2>2
  <1> QED
    BY <1>5, <1>6 DEF Taken

(* The loop over the parts joins their texts. *)
LEMMA CollectIsText ==
    ASSUME NEW parts, TextParts(parts)
    PROVE  CollectText(parts) = TextOf(parts)
  <1> DEFINE Pieces == [i \in DOMAIN parts |-> IF parts[i].type = "text" THEN parts[i].text ELSE <<>>]
             Words == UNION {Range(Pieces[i]) : i \in DOMAIN parts}
             Texts == Seq(Words)
             round == [n \in Nat |-> [t \in Texts |-> IF n + 1 \in DOMAIN parts THEN t \o Pieces[n + 1] ELSE t]]
             nil == <<>>
             Fits(t) == t = [n \in 0..Len(parts) |-> IF n = 0 THEN <<>>
                                                    ELSE IF parts[n].type = "text" THEN t[n - 1] \o parts[n].text ELSE t[n - 1]]
             Flat(t) == t = [i \in 1..Len(Pieces) |-> IF i = 1 THEN Pieces[i] ELSE t[i - 1] \o Pieces[i]]
  <1>1. Len(parts) \in Nat /\ DOMAIN parts = 1..Len(parts)
    BY SeqFacts DEF TextParts
  <1>2. ASSUME NEW i \in DOMAIN parts PROVE Pieces[i] \in Texts
    <2>1. IsSeq(Pieces[i])
      <3>1. CASE parts[i].type = "text"
        BY <3>1 DEF TextParts
      <3>2. CASE parts[i].type # "text"
        <4>1. Pieces[i] = <<>>
          BY <3>2
        <4>2. IsSeq(<<>>)
          BY DEF IsSeq, Range
        <4> QED
          BY <4>1, <4>2
      <3> QED
        BY <3>1, <3>2
    <2> HIDE DEF Pieces
    <2>2. Range(Pieces[i]) \subseteq Words
      OBVIOUS
    <2> HIDE DEF Words
    <2> QED
      BY <2>1, <2>2, SeqMonotonic DEF IsSeq
  <1>3. Len(Pieces) = Len(parts) /\ DOMAIN Pieces = 1..Len(parts)
    <2>1. DOMAIN Pieces = 1..Len(parts) /\ Pieces = [i \in 1..Len(parts) |-> Pieces[i]]
      BY <1>1
    <2> HIDE DEF Pieces
    <2> QED
      BY <1>1, <2>1, FunctionIsSeq
  <1>4. \A i \in DOMAIN parts : Pieces[i] = IF parts[i].type = "text" THEN parts[i].text ELSE <<>>
    OBVIOUS
  <1>5. TextOf(parts) = FlattenSeq(Pieces)
    BY DEF TextOf
  <1> HIDE DEF Pieces, Words
  <1>6. round \in Rounds(Texts)
    BY <1>2 DEF Rounds
  <1>7. nil \in Texts
    OBVIOUS
  <1>8. \A n \in Nat, t \in Texts : round[n][t] = IF n + 1 \in DOMAIN parts THEN t \o Pieces[n + 1] ELSE t
    OBVIOUS
  <1>9. PICK f : LoopOf(f, Texts, nil, round)
    <2> HIDE DEF Texts, round, nil
    <2> QED
      BY <1>6, <1>7, LoopExists
  <1>10. (\A n \in Nat : f[n] \in Texts) /\ f[0] = <<>>
    BY <1>9 DEF LoopOf
  <1>11. ASSUME NEW n \in 1..Len(parts) PROVE f[n] = f[n - 1] \o Pieces[n]
    <2>1. n - 1 \in Nat /\ (n - 1) + 1 = n /\ n \in DOMAIN parts
      BY <1>1
    <2>2. f[n] = round[n - 1][f[n - 1]]
      BY <1>9, <2>1 DEF LoopOf
    <2> HIDE DEF round, Texts
    <2> QED
      BY <1>8, <1>10, <2>1, <2>2
  <1> HIDE DEF round, nil
  <1>12. ASSUME NEW n \in 1..Len(parts)
         PROVE  f[n] = IF parts[n].type = "text" THEN f[n - 1] \o parts[n].text ELSE f[n - 1]
    <2>1. n \in DOMAIN parts /\ n - 1 \in Nat
      BY <1>1
    <2>2. f[n - 1] \in Texts
      BY <1>10, <2>1
    <2>3. f[n - 1] \o <<>> = f[n - 1]
      BY <2>2, ConcatEmptySeq
    <2> QED
      BY <1>4, <1>11, <2>1, <2>3
  <1>13. CollectText(parts) = f[Len(parts)]
    <2>1. Fits([n \in 0..Len(parts) |-> f[n]])
      <3> DEFINE t == [n \in 0..Len(parts) |-> f[n]]
      <3>1. t[0] = <<>>
        BY <1>1, <1>10
      <3>2. ASSUME NEW n \in 0..Len(parts), n # 0
            PROVE t[n] = IF parts[n].type = "text" THEN t[n - 1] \o parts[n].text ELSE t[n - 1]
        <4>1. n \in 1..Len(parts) /\ n - 1 \in 0..Len(parts)
          BY <1>1, <3>2
        <4>2. t[n] = f[n] /\ t[n - 1] = f[n - 1]
          BY <4>1
        <4> QED
          BY <1>12, <4>1, <4>2
      <3> QED
        BY <3>1, <3>2
    <2> DEFINE C == CHOOSE t : Fits(t)
    <2>2. CollectText(parts) = C[Len(parts)]
      BY DEF CollectText
    <2>3. Fits(C)
      <3> HIDE DEF Fits
      <3> QED
        BY <2>1
    <2> HIDE DEF C
    <2>4. C[0] = <<>> /\ \A n \in 1..Len(parts) : C[n] = IF parts[n].type = "text" THEN C[n - 1] \o parts[n].text ELSE C[n - 1]
      <3>1. 0 \in 0..Len(parts) /\ \A n \in 1..Len(parts) : n \in 0..Len(parts) /\ n # 0
        BY <1>1
      <3> QED
        BY <2>3, <3>1
    <2> HIDE DEF Fits
    <2> DEFINE U == {n \in Nat : n <= Len(parts) => C[n] = f[n]}
    <2>5. 0 \in U
      BY <1>10, <2>4
    <2>6. ASSUME NEW n \in U PROVE n + 1 \in U
      <3>1. SUFFICES ASSUME n + 1 <= Len(parts) PROVE C[n + 1] = f[n + 1]
        OBVIOUS
      <3>2. n + 1 \in 1..Len(parts) /\ (n + 1) - 1 = n /\ C[n] = f[n]
        BY <1>1, <3>1
      <3> QED
        BY <1>12, <2>4, <3>2
    <2>7. U = Nat
      <3>1. U \in SUBSET Nat
        OBVIOUS
      <3> HIDE DEF U
      <3> QED
        BY <2>5, <2>6, <3>1, NatInduct
    <2> QED
      BY <1>1, <2>2, <2>7
  <1>14. CASE Len(parts) = 0
    <2>1. FlattenSeq(Pieces) = Pieces /\ f[Len(parts)] = <<>>
      BY <1>3, <1>10, <1>14 DEF FlattenSeq
    <2>2. Pieces = <<>>
      <3>1. Pieces = [i \in DOMAIN parts |-> Pieces[i]]
        BY DEF Pieces
      <3> QED
        BY <1>1, <1>14, <3>1
    <2> QED
      BY <1>5, <1>13, <2>1, <2>2
  <1>15. CASE Len(parts) # 0
    <2>5. f[1] = Pieces[1]
      <3>1. 1 \in 1..Len(parts) /\ 1 \in DOMAIN parts
        BY <1>1, <1>15
      <3>2. f[1] = f[0] \o Pieces[1]
        <4>1. 1 - 1 = 0
          OBVIOUS
        <4>2. f[1] = f[1 - 1] \o Pieces[1]
          BY <1>11, <3>1
        <4> QED
          BY <4>1, <4>2
      <3>3. Pieces[1] \in Texts
        BY <1>2, <3>1
      <3>4. f[0] \o Pieces[1] = Pieces[1]
        BY <1>10, <3>3, ConcatEmptySeq
      <3> QED
        BY <3>2, <3>4
    <2>1. Flat([n \in 1..Len(parts) |-> f[n]])
      <3> DEFINE t == [n \in 1..Len(parts) |-> f[n]]
      <3>1. t[1] = Pieces[1]
        BY <1>1, <1>15, <2>5
      <3>2. ASSUME NEW n \in 1..Len(parts), n # 1 PROVE t[n] = t[n - 1] \o Pieces[n]
        <4>1. n - 1 \in 1..Len(parts)
          BY <1>1, <3>2
        <4> QED
          BY <1>11, <4>1
      <3> QED
        BY <1>3, <3>1, <3>2
    <2> DEFINE F == CHOOSE t : Flat(t)
    <2>2. FlattenSeq(Pieces) = F[Len(parts)]
      BY <1>3, <1>15 DEF FlattenSeq
    <2>3. Flat(F)
      <3> HIDE DEF Flat
      <3> QED
        BY <2>1
    <2> HIDE DEF F
    <2>4. F[1] = Pieces[1] /\ \A n \in 2..Len(parts) : F[n] = F[n - 1] \o Pieces[n]
      <3>1. 1 \in 1..Len(Pieces) /\ \A n \in 2..Len(parts) : n \in 1..Len(Pieces) /\ n # 1
        BY <1>1, <1>3, <1>15
      <3> QED
        BY <2>3, <3>1
    <2> HIDE DEF Flat
    <2> DEFINE U == {n \in Nat : n + 1 <= Len(parts) => F[n + 1] = f[n + 1]}
    <2>6. 0 \in U
      BY <2>4, <2>5
    <2>7. ASSUME NEW n \in U PROVE n + 1 \in U
      <3>1. SUFFICES ASSUME (n + 1) + 1 <= Len(parts) PROVE F[(n + 1) + 1] = f[(n + 1) + 1]
        OBVIOUS
      <3>2. (n + 1) + 1 \in 2..Len(parts) /\ (n + 1) + 1 \in 1..Len(parts) /\ ((n + 1) + 1) - 1 = n + 1 /\ F[n + 1] = f[n + 1]
        BY <1>1, <3>1
      <3> QED
        BY <1>11, <2>4, <3>2
    <2>8. U = Nat
      <3>1. U \in SUBSET Nat
        OBVIOUS
      <3> HIDE DEF U
      <3> QED
        BY <2>6, <2>7, <3>1, NatInduct
    <2>9. Len(parts) - 1 \in Nat /\ (Len(parts) - 1) + 1 = Len(parts)
      BY <1>1, <1>15
    <2>10. F[Len(parts)] = f[Len(parts)]
      <3>1. \A n \in Nat : n + 1 <= Len(parts) => F[n + 1] = f[n + 1]
        BY <2>8
      <3>2. (Len(parts) - 1) + 1 <= Len(parts)
        BY <1>1
      <3> HIDE DEF U
      <3> QED
        BY <2>9, <3>1, <3>2
    <2> QED
      BY <1>5, <1>13, <2>2, <2>10
  <1> QED
    BY <1>14, <1>15

(* The text of a content is its words. *)
LEMMA ContentIsWords ==
    ASSUME NEW c, Content(c)
    PROVE  convertMessageContent(c) = WordsOf(c)
  <1>1. CASE DOMAIN c = {"null"}
    BY <1>1 DEF convertMessageContent, WordsOf
  <1>2. CASE DOMAIN c = {"text"}
    BY <1>2 DEF convertMessageContent, WordsOf
  <1>3. CASE DOMAIN c = {"parts"} /\ TextParts(c.parts)
    BY <1>3, CollectIsText DEF convertMessageContent, WordsOf, convertMultimodalContent
  <1>4. CASE DOMAIN c = {"value"}
    BY <1>4 DEF convertMessageContent, WordsOf
  <1> QED
    BY <1>1, <1>2, <1>3, <1>4 DEF Content

-----------------------------------------------------------------------------
(* What a conversation becomes on its way to the provider *)

(* Of two conversations that agree message by message, what is taken at    *)
(* the same positions agrees too.                                          *)
LEMMA TakenConverse ==
    ASSUME NEW asked, IsSeq(asked), NEW told, IsSeq(told), Len(told) = Len(asked), NEW I,
           \A i \in DOMAIN asked : told[i].role = asked[i].role /\ told[i].content = WordsOf(asked[i].content)
    PROVE  Conversed(Taken(asked, I), Taken(told, I)) /\ IsSeq(Taken(asked, I)) /\ IsSeq(Taken(told, I))
  <1> DEFINE a == Taken(asked, I)
             b == Taken(told, I)
  <1>1. Aligned(a, b, asked, told, I)
    BY TakenAligned
  <1> HIDE DEF a, b
  <1>2. IsSeq(a) /\ IsSeq(b) /\ Len(a) = Len(b) /\ DOMAIN a = 1..Len(a)
    BY <1>1, SeqFacts DEF Aligned
  <1>3. ASSUME NEW k \in DOMAIN a PROVE b[k].role = a[k].role /\ b[k].content = WordsOf(a[k].content)
    <2>1. PICK i \in I \cap DOMAIN asked : a[k] = asked[i] /\ b[k] = told[i]
      BY <1>1, <1>2 DEF Aligned
    <2> QED
      BY <2>1
  <1> QED
    BY <1>2, <1>3 DEF Conversed, a, b

(* An error is one, and a record without that field is none. *)
LEMMA ErrorIsError ==
    ASSUME NEW kind, NEW status
    PROVE  IsError(Error(kind, status)) /\ Error(kind, status).error = kind /\ Error(kind, status).status = status
  BY DEF IsError, Error

(* What reaches a provider is what was asked. *)
LEMMA Converses ==
    ASSUME NEW r, IsSeq(r.messages), \A i \in DOMAIN r.messages : Content(r.messages[i].content),
           NEW p, ~IsError(transformRequest(p, convertToProviderRequest(r)))
    PROVE  LET told == transformRequest(p, convertToProviderRequest(r)).messages IN
           Conversed(Taken(r.messages, NonSystem(r.messages)), Taken(told, NonSystem(told)))
  <1> DEFINE m == r.messages
             q == convertToProviderRequest(r)
             c == q.messages
             N == NonSystem(m)
  <1>1. Len(m) \in Nat /\ DOMAIN m = 1..Len(m)
    BY SeqFacts
  <1>2. /\ DOMAIN c = DOMAIN m /\ c = [i \in DOMAIN m |-> c[i]]
        /\ \A i \in DOMAIN m : c[i].role = m[i].role /\ c[i].content = convertMessageContent(m[i].content)
    BY DEF convertToProviderRequest
  <1>3. \A i \in DOMAIN m : c[i].content = WordsOf(m[i].content)
    BY <1>2, ContentIsWords
  <1> HIDE DEF q
  <1>4. IsSeq(c) /\ Len(c) = Len(m)
    BY <1>1, <1>2, FunctionIsSeq
  <1>5. NonSystem(c) = N
    BY <1>2 DEF NonSystem
  <1> HIDE DEF m, c, N
  <1>6. Conversed(Taken(m, N), Taken(c, N)) /\ IsSeq(Taken(m, N)) /\ IsSeq(Taken(c, N))
    BY <1>2, <1>3, <1>4, TakenConverse DEF m
  <1>7. CASE p # "anthropic"
    <2> DEFINE o == [i \in DOMAIN c |-> [role |-> c[i].role, content |-> c[i].content]]
    <2>1. transformRequest(p, q).messages = o
      BY <1>7 DEF transformRequest, openaiTransformRequest, c
    <2>2. DOMAIN o = DOMAIN m /\ o = [i \in DOMAIN m |-> o[i]] /\ \A i \in DOMAIN m : o[i].role = m[i].role /\ o[i].content = WordsOf(m[i].content)
      BY <1>2, <1>3
    <2> HIDE DEF o
    <2>3. IsSeq(o) /\ Len(o) = Len(m)
      BY <1>1, <2>2, FunctionIsSeq DEF m
    <2>4. NonSystem(o) = N
      BY <2>2 DEF NonSystem, N
    <2>5. Conversed(Taken(m, N), Taken(o, N))
      BY <2>2, <2>3, TakenConverse DEF m
    <2> QED
      BY <2>1, <2>4, <2>5 DEF m, q, N
  <1>8. CASE p = "anthropic"
    <2> DEFINE others == Taken(c, N)
               o == [i \in DOMAIN others |-> [role |-> others[i].role, content |-> others[i].content]]
    <2>1. transformRequest(p, q).messages = o
      <3>1. transformRequest(p, q) = anthropicTransformRequest(q)
        BY <1>8 DEF transformRequest
      <3>2. ~IsError(anthropicTransformRequest(q))
        BY <3>1 DEF q
      <3>3. validateMessageSequence(o)
        <4>1. ~validateMessageSequence(o) => anthropicTransformRequest(q) = Error("validation", 0)
          BY <1>5 DEF anthropicTransformRequest, c
        <4> QED
          BY <3>2, <4>1, ErrorIsError
      <3>4. validateMessageSequence(o) => anthropicTransformRequest(q).messages = o
        BY <1>5 DEF anthropicTransformRequest, c
      <3> QED
        BY <3>1, <3>3, <3>4
    <2>2. Aligned(others, others, c, c, N)
      BY <1>4, TakenAligned
    <2>3. IsSeq(others) /\ Len(others) \in Nat /\ DOMAIN others = 1..Len(others)
      BY <1>6, SeqFacts
    <2>4. \A k \in DOMAIN others : others[k].role # "system"
      <3> SUFFICES ASSUME NEW k \in DOMAIN others PROVE others[k].role # "system"
        OBVIOUS
      <3> HIDE DEF others
      <3>1. PICK i \in N \cap DOMAIN c : others[k] = c[i]
        BY <2>2, <2>3 DEF Aligned
      <3>2. i \in NonSystem(c)
        BY <1>5
      <3> QED
        BY <3>1, <3>2 DEF NonSystem
    <2>5. /\ DOMAIN o = DOMAIN others /\ o = [i \in DOMAIN others |-> o[i]]
          /\ \A i \in DOMAIN others : o[i].role = others[i].role /\ o[i].content = others[i].content
      OBVIOUS
    <2> HIDE DEF others, o
    <2>6. IsSeq(o) /\ Len(o) = Len(others)
      BY <2>3, <2>5, FunctionIsSeq
    <2>7. NonSystem(o) = DOMAIN o
      BY <2>4, <2>5 DEF NonSystem
    <2>8. Taken(o, NonSystem(o)) = o
      BY <2>6, <2>7, TakenAll
    <2>9. Conversed(Taken(m, N), others)
      BY <1>6 DEF others
    <2>10. DOMAIN Taken(m, N) = DOMAIN others
      BY <1>6, <2>3, <2>9, SeqFacts DEF Conversed
    <2>11. Conversed(Taken(m, N), o)
      BY <2>5, <2>6, <2>9, <2>10 DEF Conversed
    <2> QED
      BY <2>1, <2>8, <2>11 DEF m, q, N
  <1> QED
    BY <1>7, <1>8

-----------------------------------------------------------------------------
(* The items of a response, and the chunks among them *)

(* The items with a field, and the chunks among them. *)
With(items, field) == {i \in DOMAIN items : field \in DOMAIN items[i]}
ChunksOf(items) == LET c == Taken(items, With(items, "chunk")) IN [i \in DOMAIN c |-> c[i].chunk]

(* They are a list, to which an item adds its chunk if it has one. *)
LEMMA ChunksAppend ==
    ASSUME NEW items, IsSeq(items), NEW x
    PROVE  /\ IsSeq(ChunksOf(items))
           /\ "chunk" \in DOMAIN x => ChunksOf(Append(items, x)) = Append(ChunksOf(items), x.chunk)
           /\ "chunk" \notin DOMAIN x => ChunksOf(Append(items, x)) = ChunksOf(items)
  <1> DEFINE W == With(items, "chunk")
             longer == Append(items, x)
             X == With(longer, "chunk")
             c == Taken(items, W)
             d == Taken(longer, X)
  <1>1. Len(items) \in Nat /\ DOMAIN items = 1..Len(items)
    BY SeqFacts
  <1>2. IsSeq(longer) /\ Len(longer) = Len(items) + 1 /\ (\A i \in 1..Len(items) : longer[i] = items[i])
        /\ longer[Len(items) + 1] = x /\ DOMAIN longer = 1..Len(items) + 1
    BY AppendIsSeq
  <1> HIDE DEF longer
  <1>3. \A i \in 1..Len(items) : i \in W <=> i \in X
    BY <1>1, <1>2 DEF With
  <1>4. Len(items) + 1 \in X <=> "chunk" \in DOMAIN x
    BY <1>1, <1>2 DEF With
  <1> HIDE DEF W, X
  <1>5. d = IF Len(items) + 1 \in X THEN Append(c, x) ELSE c
    BY <1>3, TakenAppend DEF longer
  <1>6. IsSeq(c)
    BY <1>1, TakenIsSeq DEF Taken
  <1>7. ChunksOf(items) = [i \in DOMAIN c |-> c[i].chunk] /\ ChunksOf(longer) = [i \in DOMAIN d |-> d[i].chunk]
    BY DEF ChunksOf, W, X
  <1> HIDE DEF c, d
  <1>8. Len(c) \in Nat /\ DOMAIN c = 1..Len(c)
    BY <1>6, SeqFacts
  <1> DEFINE C == ChunksOf(items)
  <1>9. DOMAIN C = 1..Len(c) /\ C = [i \in 1..Len(c) |-> C[i]] /\ \A i \in 1..Len(c) : C[i] = c[i].chunk
    BY <1>7, <1>8
  <1> HIDE DEF C
  <1>10. IsSeq(C) /\ Len(C) = Len(c)
    BY <1>8, <1>9, FunctionIsSeq
  <1>11. CASE "chunk" \notin DOMAIN x
    BY <1>4, <1>5, <1>7, <1>10, <1>11 DEF longer, C
  <1>12. CASE "chunk" \in DOMAIN x
    <2>1. d = Append(c, x)
      BY <1>4, <1>5, <1>12
    <2>2. Len(d) = Len(c) + 1 /\ (\A i \in 1..Len(c) : d[i] = c[i]) /\ d[Len(c) + 1] = x /\ DOMAIN d = 1..Len(c) + 1
      BY <1>6, <2>1, AppendIsSeq
    <2> DEFINE D == ChunksOf(longer)
               E == Append(C, x.chunk)
    <2>3. DOMAIN D = 1..Len(c) + 1 /\ D = [i \in 1..Len(c) + 1 |-> D[i]] /\ \A i \in 1..Len(c) + 1 : D[i] = d[i].chunk
      BY <1>7, <2>2
    <2>4. IsSeq(E) /\ Len(E) = Len(c) + 1 /\ (\A i \in 1..Len(c) : E[i] = C[i]) /\ E[Len(c) + 1] = x.chunk
      BY <1>10, AppendIsSeq
    <2> HIDE DEF D, E
    <2>5. IsSeq(D) /\ Len(D) = Len(c) + 1
      BY <1>8, <2>3, FunctionIsSeq
    <2>6. ASSUME NEW i \in 1..Len(c) + 1 PROVE D[i] = E[i]
      <3>1. CASE i = Len(c) + 1
        BY <2>2, <2>3, <2>4, <3>1
      <3>2. CASE i # Len(c) + 1
        <4>1. i \in 1..Len(c)
          BY <1>8, <3>2
        <4> QED
          BY <1>9, <2>2, <2>3, <2>4, <4>1
      <3> QED
        BY <3>1, <3>2
    <2>7. D = E
      BY <2>4, <2>5, <2>6, SeqSame
    <2> QED
      BY <1>10, <1>12, <2>7 DEF longer, C, D, E
  <1> QED
    BY <1>11, <1>12

-----------------------------------------------------------------------------
(* The chunks among the first events of a stream, up to the one before     *)
(* next.                                                                   *)
Converted(events, provider) == [i \in DOMAIN events |-> transformStreamChunk(provider, events[i])]
GoodIn(c) == {i \in DOMAIN c : ~IsError(c[i]) /\ c[i] # NoChunk}
Gotten(events, provider, next) ==
    LET c == Converted(events, provider) IN TakenBy(c, GoodIn(c))[IF next <= Len(c) THEN next - 1 ELSE Len(c)]

(* They are a list that begins the chunks of the whole stream. *)
LEMMA GottenBegins ==
    ASSUME NEW events, IsSeq(events), NEW p, NEW next \in Nat \ {0}
    PROVE  LET c == Converted(events, p) IN
           /\ IsSeq(Gotten(events, p, next)) /\ IsSeq(Taken(c, GoodIn(c)))
           /\ Begins(Gotten(events, p, next), Taken(c, GoodIn(c)))
           /\ next = 1 => Gotten(events, p, next) = <<>>
  <1> DEFINE c == Converted(events, p)
             I == GoodIn(c)
             k == IF next <= Len(c) THEN next - 1 ELSE Len(c)
  <1>1. Len(events) \in Nat /\ DOMAIN events = 1..Len(events)
    BY SeqFacts
  <1>2. DOMAIN c = 1..Len(events) /\ c = [i \in 1..Len(events) |-> c[i]]
    BY <1>1 DEF Converted
  <1>3. Gotten(events, p, next) = TakenBy(c, I)[k]
    BY DEF Gotten
  <1> HIDE DEF c, I
  <1>4. IsSeq(c) /\ Len(c) = Len(events)
    BY <1>1, <1>2, FunctionIsSeq
  <1>5. k \in 0..Len(c) /\ (next = 1 => k = 0)
    BY <1>1, <1>4
  <1>6. Len(c) \in 0..Len(c)
    BY <1>1, <1>4
  <1> HIDE DEF k
  <1>7. IsSeq(TakenBy(c, I)[k]) /\ IsSeq(Taken(c, I)) /\ Begins(TakenBy(c, I)[k], Taken(c, I))
    BY <1>4, <1>5, <1>6, TakenIsSeq, TakenGrows DEF Taken
  <1>8. next = 1 => TakenBy(c, I)[k] = <<>>
    BY <1>4, <1>5, TakenRounds
  <1> QED
    BY <1>3, <1>7, <1>8 DEF c, I

(* What one more event adds. *)
EventAt(events, provider, next) ==
    IF next \in DOMAIN events THEN transformStreamChunk(provider, events[next]) ELSE Error("stream", 0)

(* The events read so far yield that chunk in addition, or nothing new if  *)
(* it is an error or of no interest.                                       *)
LEMMA GottenNext ==
    ASSUME NEW events, IsSeq(events), NEW p, NEW next \in Nat \ {0},
           NEW result, result = EventAt(events, p, next)
    PROVE  Gotten(events, p, next + 1) = IF IsError(result) \/ result = NoChunk THEN Gotten(events, p, next)
                                         ELSE Append(Gotten(events, p, next), result)
  <1> DEFINE c == Converted(events, p)
             I == GoodIn(c)
             Upto(n) == IF n <= Len(c) THEN n - 1 ELSE Len(c)
  <1>1. Len(events) \in Nat /\ DOMAIN events = 1..Len(events)
    BY SeqFacts
  <1>2. DOMAIN c = 1..Len(events) /\ c = [i \in 1..Len(events) |-> c[i]] /\ \A i \in 1..Len(events) : c[i] = transformStreamChunk(p, events[i])
    BY <1>1 DEF Converted
  <1>3. Gotten(events, p, next) = TakenBy(c, I)[Upto(next)] /\ Gotten(events, p, next + 1) = TakenBy(c, I)[Upto(next + 1)]
    BY DEF Gotten
  <1>4. \A i \in 1..Len(events) : i \in I <=> ~IsError(c[i]) /\ c[i] # NoChunk
    BY <1>2 DEF GoodIn
  <1> HIDE DEF c, I
  <1>5. IsSeq(c) /\ Len(c) = Len(events)
    BY <1>1, <1>2, FunctionIsSeq
  <1>6. CASE next \in DOMAIN events
    <2>0. next \in 1..Len(c) /\ Len(c) \in Nat
      BY <1>1, <1>5, <1>6
    <2>1. next \in 1..Len(c) /\ Upto(next) = next - 1 /\ Upto(next + 1) = next
      BY <2>0
    <2>2. TakenBy(c, I)[next] = IF next \in I THEN Append(TakenBy(c, I)[next - 1], c[next]) ELSE TakenBy(c, I)[next - 1]
      <3> HIDE DEF Upto
      <3> QED
        BY <1>5, <2>1, TakenRounds
    <2>3. result = c[next]
      BY <1>1, <1>2, <1>6 DEF EventAt
    <2> QED
      BY <1>1, <1>3, <1>4, <1>6, <2>1, <2>2, <2>3
  <1>7. CASE next \notin DOMAIN events
    <2>0. next > Len(c) /\ Len(c) \in Nat
      BY <1>1, <1>5, <1>7
    <2>1. Upto(next) = Len(c) /\ Upto(next + 1) = Len(c)
      BY <2>0
    <2>2. IsError(result)
      BY <1>7, ErrorIsError DEF EventAt
    <2> QED
      BY <1>3, <2>1, <2>2
  <1> QED
    BY <1>6, <1>7

-----------------------------------------------------------------------------
(* A channel: chunks, and perhaps an error at the end.                     *)
EndsInError(ch) == ch # <<>> /\ IsError(ch[Len(ch)])
Queued(ch) == IF EndsInError(ch) THEN Len(ch) - 1 ELSE Len(ch)
(* Its chunks follow what is out in what was read. *)
Feeds(ch, out, read) ==
    /\ Len(out) + Queued(ch) <= Len(read)
    /\ \A i \in 1..Queued(ch) : ~IsError(ch[i]) /\ ch[i] = read[Len(out) + i]

(* A list without its first element: its length and its elements.          *)
LEMMA TailIsSeq ==
    ASSUME NEW s, IsSeq(s), s # <<>>
    PROVE  /\ IsSeq(Tail(s)) /\ Len(Tail(s)) = Len(s) - 1 /\ Len(s) >= 1 /\ Head(s) = s[1]
           /\ \A i \in 1..Len(s) - 1 : Tail(s)[i] = s[i + 1]
           /\ Len(s) = 1 => Tail(s) = <<>>
  <1>1. s \in Seq(Range(s)) /\ Len(s) \in Nat
    BY DEF IsSeq
  <1>2. Tail(s) \in Seq(Range(s)) /\ Len(Tail(s)) = Len(s) - 1 /\ Len(s) >= 1 /\ Head(s) = s[1]
    BY <1>1, HeadTailProperties
  <1>3. IsSeq(Tail(s))
    BY <1>2, SeqIsSeq
  <1>4. \A i \in 1..Len(s) - 1 : Tail(s)[i] = s[i + 1]
    BY <1>1, <1>2, HeadTailProperties
  <1> QED
    BY <1>1, <1>2, <1>3, <1>4, EmptySeq

(* Receiving the first chunk. *)
LEMMA FeedsTail ==
    ASSUME NEW ch, IsSeq(ch), ch # <<>>, ~IsError(Head(ch)), NEW out, IsSeq(out), NEW read, IsSeq(read)
    PROVE  /\ EndsInError(Tail(ch)) = EndsInError(ch) /\ Queued(Tail(ch)) = Queued(ch) - 1
           /\ Begins(out, read) /\ Feeds(ch, out, read) =>
                 Feeds(Tail(ch), Append(out, Head(ch)), read) /\ Begins(Append(out, Head(ch)), read)
  <1> DEFINE t == Tail(ch)
             more == Append(out, Head(ch))
  <1>1. /\ IsSeq(t) /\ Len(t) = Len(ch) - 1 /\ Len(ch) >= 1 /\ Head(ch) = ch[1]
        /\ \A i \in 1..Len(ch) - 1 : t[i] = ch[i + 1]
        /\ Len(ch) = 1 => t = <<>>
    BY TailIsSeq
  <1>2. Len(ch) \in Nat /\ Len(t) \in Nat /\ Len(out) \in Nat /\ Len(read) \in Nat /\ Len(<<>>) = 0
    BY <1>1, SeqFacts
  <1>3. Len(more) = Len(out) + 1 /\ (\A i \in 1..Len(out) : more[i] = out[i]) /\ more[Len(out) + 1] = Head(ch)
    BY AppendIsSeq
  <1> HIDE DEF t, more
  <1>4. EndsInError(t) = EndsInError(ch)
    <2>1. CASE Len(ch) = 1
      BY <1>1, <2>1 DEF EndsInError
    <2>2. CASE Len(ch) # 1
      <3>1. Len(t) \in 1..Len(ch) - 1 /\ Len(t) + 1 = Len(ch)
        BY <1>1, <1>2, <2>2
      <3>2. t[Len(t)] = ch[Len(ch)] /\ t # <<>>
        BY <1>1, <1>2, <3>1
      <3> QED
        BY <3>2 DEF EndsInError
    <2> QED
      BY <2>1, <2>2
  <1>5. Queued(t) = Queued(ch) - 1 /\ Queued(ch) \in Nat /\ Queued(ch) >= 1 /\ Queued(ch) <= Len(ch)
    <2>1. EndsInError(ch) => Len(ch) >= 2
      BY <1>1, <1>2 DEF EndsInError
    <2> QED
      BY <1>1, <1>2, <1>4, <2>1 DEF Queued
  <1>6. ASSUME Begins(out, read), Feeds(ch, out, read)
        PROVE  Feeds(t, more, read) /\ Begins(more, read)
    <2>1. Head(ch) = read[Len(out) + 1] /\ Len(out) + 1 <= Len(read)
      <3>1. 1 \in 1..Queued(ch)
        BY <1>5
      <3> QED
        BY <1>1, <1>2, <1>5, <1>6, <3>1 DEF Feeds
    <2>2. Begins(more, read)
      BY <1>2, <1>3, <1>6, <2>1 DEF Begins
    <2>3. ASSUME NEW i \in 1..Queued(t) PROVE ~IsError(t[i]) /\ t[i] = read[Len(more) + i]
      <3>1. i + 1 \in 1..Queued(ch) /\ i \in 1..Len(ch) - 1 /\ Len(more) + i = Len(out) + (i + 1)
        BY <1>2, <1>3, <1>5
      <3>2. t[i] = ch[i + 1]
        BY <1>1, <3>1
      <3> QED
        BY <1>6, <3>1, <3>2 DEF Feeds
    <2>4. Len(more) + Queued(t) <= Len(read)
      BY <1>2, <1>3, <1>5, <1>6 DEF Feeds
    <2> QED
      BY <2>2, <2>3, <2>4 DEF Feeds
  <1> QED
    BY <1>4, <1>5, <1>6 DEF t, more

(* Sending a chunk or an error. *)
LEMMA FeedsAppend ==
    ASSUME NEW ch, IsSeq(ch), ~EndsInError(ch), NEW x, NEW out, IsSeq(out), NEW read, IsSeq(read)
    PROVE  /\ EndsInError(Append(ch, x)) = IsError(x)
           /\ Queued(Append(ch, x)) = IF IsError(x) THEN Queued(ch) ELSE Queued(ch) + 1
           /\ /\ Feeds(ch, out, read)
              /\ ~IsError(x) => Len(out) + Queued(ch) + 1 <= Len(read) /\ x = read[Len(out) + Queued(ch) + 1]
              => Feeds(Append(ch, x), out, read)
  <1> DEFINE t == Append(ch, x)
  <1>1. IsSeq(t) /\ Len(t) = Len(ch) + 1 /\ (\A i \in 1..Len(ch) : t[i] = ch[i]) /\ t[Len(ch) + 1] = x
    BY AppendIsSeq
  <1>2. Len(ch) \in Nat /\ Len(out) \in Nat /\ Len(read) \in Nat /\ Len(<<>>) = 0
    BY SeqFacts
  <1> HIDE DEF t
  <1>3. t # <<>>
    BY <1>1, <1>2
  <1>4. EndsInError(t) = IsError(x)
    BY <1>1, <1>3 DEF EndsInError, IsError
  <1>5. Queued(ch) = Len(ch)
    BY DEF Queued
  <1>6. Queued(t) = IF IsError(x) THEN Queued(ch) ELSE Queued(ch) + 1
    BY <1>1, <1>2, <1>4, <1>5 DEF Queued
  <1>7. ASSUME Feeds(ch, out, read),
               ~IsError(x) => Len(out) + Queued(ch) + 1 <= Len(read) /\ x = read[Len(out) + Queued(ch) + 1]
        PROVE  Feeds(t, out, read)
    <2>1. Len(out) + Queued(t) <= Len(read)
      BY <1>2, <1>5, <1>6, <1>7 DEF Feeds
    <2>2. ASSUME NEW i \in 1..Queued(t) PROVE ~IsError(t[i]) /\ t[i] = read[Len(out) + i]
      <3>1. CASE i \in 1..Len(ch)
        BY <1>1, <1>5, <1>7, <3>1 DEF Feeds
      <3>2. CASE i \notin 1..Len(ch)
        <4>1. i = Len(ch) + 1 /\ ~IsError(x)
          BY <1>2, <1>5, <1>6, <3>2
        <4>2. Len(out) + i = Len(out) + Queued(ch) + 1
          BY <1>2, <1>5, <4>1
        <4> QED
          BY <1>1, <1>7, <4>1, <4>2
      <3> QED
        BY <3>1, <3>2
    <2> QED
      BY <2>1, <2>2 DEF Feeds
  <1> QED
    BY <1>4, <1>6, <1>7 DEF t

(* Reading on. *)
LEMMA FeedsGrows ==
    ASSUME NEW ch, IsSeq(ch), NEW out, IsSeq(out), NEW read, IsSeq(read), NEW x
    PROVE  /\ Feeds(ch, out, read) => Feeds(ch, out, Append(read, x))
           /\ Begins(out, read) => Begins(out, Append(read, x))
           /\ IsSeq(Append(read, x)) /\ Len(Append(read, x)) = Len(read) + 1 /\ Append(read, x)[Len(read) + 1] = x
  <1> DEFINE t == Append(read, x)
  <1>1. IsSeq(t) /\ Len(t) = Len(read) + 1 /\ (\A i \in 1..Len(read) : t[i] = read[i]) /\ t[Len(read) + 1] = x
    BY AppendIsSeq
  <1>2. Len(ch) \in Nat /\ Len(out) \in Nat /\ Len(read) \in Nat /\ Queued(ch) \in Int
    BY SeqFacts DEF Queued
  <1> HIDE DEF t
  <1>3. ASSUME Feeds(ch, out, read) PROVE Feeds(ch, out, t)
    <2>1. ASSUME NEW i \in 1..Queued(ch) PROVE t[Len(out) + i] = read[Len(out) + i]
      <3>1. Len(out) + i \in 1..Len(read)
        BY <1>2, <1>3 DEF Feeds
      <3> QED
        BY <1>1, <3>1
    <2> QED
      BY <1>1, <1>2, <1>3, <2>1 DEF Feeds
  <1>4. ASSUME Begins(out, read) PROVE Begins(out, t)
    <2>1. ASSUME NEW i \in 1..Len(out) PROVE t[i] = read[i]
      BY <1>1, <1>2, <1>4 DEF Begins
    <2> QED
      BY <1>1, <1>2, <1>4, <2>1 DEF Begins
  <1> QED
    BY <1>1, <1>3, <1>4 DEF t

(* What a list has with one more element or one less. *)
LEMMA WithAppend ==
    ASSUME NEW items, IsSeq(items), NEW x, NEW field
    PROVE  With(Append(items, x), field) = With(items, field) \cup (IF field \in DOMAIN x THEN {Len(items) + 1} ELSE {})
  <1> DEFINE longer == Append(items, x)
  <1>1. /\ \A i \in 1..Len(items) : longer[i] = items[i]
        /\ longer[Len(items) + 1] = x /\ DOMAIN longer = 1..Len(items) + 1
    BY AppendIsSeq
  <1>2. Len(items) \in Nat /\ DOMAIN items = 1..Len(items)
    BY SeqFacts
  <1> HIDE DEF longer
  <1>3. DOMAIN longer = DOMAIN items \cup {Len(items) + 1} /\ Len(items) + 1 \notin DOMAIN items
    BY <1>1, <1>2
  <1>4. ASSUME NEW i \in DOMAIN items PROVE longer[i] = items[i]
    BY <1>1, <1>2
  <1>5. With(longer, field) = With(items, field) \cup (IF field \in DOMAIN x THEN {Len(items) + 1} ELSE {})
    BY <1>1, <1>3, <1>4 DEF With
  <1> QED
    BY <1>5 DEF longer

(* Appending an element adds it to the elements of a list.                 *)
LEMMA RangeAppend ==
    ASSUME NEW s, IsSeq(s), NEW x
    PROVE  Range(Append(s, x)) = Range(s) \cup {x}
  <1> DEFINE t == Append(s, x)
  <1>1. /\ \A i \in 1..Len(s) : t[i] = s[i]
        /\ t[Len(s) + 1] = x /\ DOMAIN t = 1..Len(s) + 1
    BY AppendIsSeq
  <1>2. Len(s) \in Nat /\ DOMAIN s = 1..Len(s)
    BY SeqFacts
  <1> HIDE DEF t
  <1>3. DOMAIN t = DOMAIN s \cup {Len(s) + 1} /\ \A i \in DOMAIN s : t[i] = s[i]
    BY <1>1, <1>2
  <1>4. Range(t) = Range(s) \cup {x}
    BY <1>1, <1>3 DEF Range
  <1> QED
    BY <1>4 DEF t

(* The tail of a list has no element the list lacks.                       *)
LEMMA RangeTail ==
    ASSUME NEW s, IsSeq(s), s # <<>>
    PROVE  Head(s) \in Range(s) /\ Range(Tail(s)) \subseteq Range(s)
  <1>1. /\ IsSeq(Tail(s)) /\ Len(Tail(s)) = Len(s) - 1 /\ Len(s) >= 1 /\ Head(s) = s[1]
        /\ \A i \in 1..Len(s) - 1 : Tail(s)[i] = s[i + 1]
    BY TailIsSeq
  <1>2. Len(s) \in Nat /\ DOMAIN s = 1..Len(s) /\ DOMAIN Tail(s) = 1..Len(s) - 1
    BY <1>1, SeqFacts
  <1>3. 1 \in DOMAIN s
    BY <1>1, <1>2
  <1>4. ASSUME NEW i \in DOMAIN Tail(s) PROVE Tail(s)[i] \in Range(s)
    <2>1. i + 1 \in DOMAIN s /\ Tail(s)[i] = s[i + 1]
      BY <1>1, <1>2
    <2> QED
      BY <2>1 DEF Range
  <1>5. Range(Tail(s)) \subseteq Range(s)
    BY <1>4 DEF Range
  <1>6. Head(s) \in Range(s)
    BY <1>1, <1>3 DEF Range
  <1> QED
    BY <1>5, <1>6

(* Responses are lists of one or two items. *)
LEMMA OneItem ==
    ASSUME NEW x
    PROVE  /\ IsSeq(<<x>>) /\ <<x>> # <<>> /\ DOMAIN <<x>> = {1} /\ <<x>>[1] = x
           /\ Range(<<x>>) = {x} /\ Head(<<x>>) = x /\ Tail(<<x>>) = <<>> /\ Len(<<x>>) = 1
           /\ Append(<<>>, x) = <<x>>
  <1>1. <<x>> \in Seq({x}) /\ DOMAIN <<x>> = {1} /\ <<x>>[1] = x
    OBVIOUS
  <1>2. IsSeq(<<x>>)
    BY <1>1, SeqIsSeq
  <1>3. Range(<<x>>) = {x}
    BY <1>1 DEF Range
  <1> QED
    BY <1>1, <1>2, <1>3

(* A list of two: its elements, its head and its tail.                     *)
LEMMA TwoItems ==
    ASSUME NEW x, NEW y
    PROVE  /\ IsSeq(<<x, y>>) /\ <<x, y>> # <<>> /\ DOMAIN <<x, y>> = {1, 2} /\ <<x, y>>[1] = x /\ <<x, y>>[2] = y
           /\ Range(<<x, y>>) = {x, y} /\ Head(<<x, y>>) = x /\ Tail(<<x, y>>) = <<y>>
  <1>1. <<x, y>> \in Seq({x, y}) /\ DOMAIN <<x, y>> = {1, 2} /\ <<x, y>>[1] = x /\ <<x, y>>[2] = y
    OBVIOUS
  <1>2. IsSeq(<<x, y>>)
    BY <1>1, SeqIsSeq
  <1>3. Range(<<x, y>>) = {x, y}
    BY <1>1 DEF Range
  <1>4. Head(<<x, y>>) = x /\ Tail(<<x, y>>) = <<y>>
    OBVIOUS
  <1> QED
    BY <1>1, <1>2, <1>3, <1>4

(* The empty list has no element.                                          *)
LEMMA NoItem == IsSeq(<<>>) /\ DOMAIN <<>> = {} /\ Range(<<>>) = {} /\ Len(<<>>) = 0
  BY DEF IsSeq, Range

(* The items, by their fields. *)
LEMMA ItemFields ==
    ASSUME NEW s, NEW b, NEW e, NEW c
    PROVE  /\ DOMAIN [status |-> s] = {"status"} /\ [status |-> s].status = s
           /\ DOMAIN [body |-> b] = {"body"} /\ [body |-> b].body = b
           /\ DOMAIN SSEError(e) = {"failure"} /\ DOMAIN SSEDone = {"done"}
           /\ DOMAIN FormatStreamChunk(c) = {"chunk"} /\ FormatStreamChunk(c).chunk = c
  BY DEF SSEError, SSEDone, FormatStreamChunk

(* The status of an error is none of success. *)
LEMMA ErrorStatus ==
    ASSUME NEW e
    PROVE  HTTPStatusCode(e) # 0 /\ HTTPStatusCode(e) # 200
  BY DEF HTTPStatusCode

(* A status fits a body: 200 goes with an answer, and only with one.       *)
Matching(status, body) == status # 0 /\ (status = 200 <=> "answer" \in DOMAIN body)

(* WriteErrorResponse is a status and a body without an answer that fit.   *)
LEMMA ErrorResponse ==
    ASSUME NEW e
    PROVE  \E s, b : /\ WriteErrorResponse(e) = <<[status |-> s], [body |-> b]>> /\ Matching(s, b) /\ "answer" \notin DOMAIN b
  <1> DEFINE s == HTTPStatusCode(HandleError(e))
             b == [error |-> HandleError(e)]
  <1>1. WriteErrorResponse(e) = <<[status |-> s], [body |-> b]>>
    BY DEF WriteErrorResponse, WriteJSONResponse
  <1>2. "answer" \notin DOMAIN b
    OBVIOUS
  <1>3. s # 0 /\ s # 200
    BY ErrorStatus
  <1> HIDE DEF s, b
  <1>4. Matching(s, b)
    BY <1>2, <1>3 DEF Matching
  <1> QED
    BY <1>1, <1>2, <1>4

(* A request that is parsed without error is valid. *)
LEMMA ParsedIsValid ==
    ASSUME NEW body, ~IsError(ParseChatCompletionRequest(body))
    PROVE  body.kind \notin {"unreadable", "too large", "malformed"} /\ ValidRequest(body.request)
  <1>1. body.kind # "unreadable"
    BY ErrorIsError DEF ParseChatCompletionRequest
  <1>2. body.kind \notin {"too large", "malformed"}
    BY <1>1, ErrorIsError DEF ParseChatCompletionRequest
  <1>3. ValidRequest(body.request)
    <2>1. ParseChatCompletionRequest(body) = IF ValidRequest(body.request) THEN body.request ELSE Error("request", 0)
      BY <1>1, <1>2 DEF ParseChatCompletionRequest
    <2> QED
      BY <2>1, ErrorIsError
  <1> QED
    BY <1>1, <1>2, <1>3

-----------------------------------------------------------------------------
(* The invariant *)

(* Where the handler and the reader are, and what is out, read and held.   *)
Waiting == handler \in {"start", "parsed", "selected"}
Streaming == handler \in {"streaming", "wrote"}
Out == ChunksOf(written.items)
Got == Gotten(script, chosen, nextEvent)
Held == IF producer = "sending" THEN 1 ELSE 0
EndsWithReason(chunks) == chunks # <<>> /\ Last(chunks).reason # ""
Finished == EndsWithReason(Out)
NoneLost(out, ch, held, read) == Len(out) + Queued(ch) + held = Len(read)
Live == ctxState = "live" /\ connection = "open"

(* What may be written after the loop of a stream. *)
Writable(x) == "chunk" \notin DOMAIN x /\ ("failure" \in DOMAIN x => "status" \notin DOMAIN x)

(* The shapes of the state, and the guard before the context ends.         *)
ChatTypes ==
    /\ call \in Calls
    /\ ctxState \in {"live", "deadline", "cancelled", "finished"}
    /\ guard \in {"serving", "expired", "status sent", "returned"}
    /\ handler \in {"start", "parsed", "selected", "writing", "streaming", "wrote", "ended"}
    /\ producer \in {"none", "reading", "sending", "reporting", "ended"}
    /\ IsSeq(written.items) /\ IsSeq(pending) /\ IsSeq(channel) /\ IsSeq(script)
    /\ nextEvent \in Nat \ {0}
    /\ handler = "writing" <=> pending # <<>>
    /\ \A x \in Range(pending) : Writable(x)
    /\ ctxState = "live" => guard = "serving" \/ (guard = "returned" /\ handler = "ended")

(* What the provider was asked is what the client asked. *)
AskedRight(c, request) ==
    /\ c.method = "POST" /\ ValidRequest(c.body.request)
    /\ Conversed(Taken(c.body.request.messages, NonSystem(c.body.request.messages)),
                 Taken(request.messages, NonSystem(request.messages)))

(* What holds when the handler has come to a point: nothing is asked or    *)
(* written before its time, and what is asked is right.                    *)
Reached ==
    /\ Waiting => sent = <<>> /\ reply = <<>> /\ producer = "none" /\ With(written.items, "done") = {}
    /\ Waiting /\ Live => written.status = 0 /\ written.items = <<>>
    /\ handler \in {"parsed", "selected"} => call.method = "POST" /\ ~IsError(ParseChatCompletionRequest(call.body))
    /\ handler = "selected" => chosen \in ProviderNames
    /\ sent # <<>> => AskedRight(call, sent[1])

(* Every answer, written or about to be, repeats what the provider         *)
(* replied.                                                                *)
Carries(x) == "body" \in DOMAIN x /\ "answer" \in DOMAIN x.body
TextReplied(provider, r) == IF provider = "anthropic" THEN TextOf(r[1].blocks) ELSE r[1].choices[1].text
Repeats(x, provider, r) == Carries(x) => r # <<>> /\ x.body.answer.text = TextReplied(provider, r)
AnswersMatch == \A x \in Range(written.items) \cup Range(pending) : Repeats(x, chosen, reply)

(* No item of a list is a body.                                            *)
NoBody(items) == \A x \in Range(items) : "body" \notin DOMAIN x
(* The stages of a response: nothing is written, the status, all of it. *)
Stage(s, b) ==
    \/ /\ handler = "writing" /\ pending = <<[status |-> s], [body |-> b]>>
       /\ written.status = 0 /\ written.items = <<>>
    \/ handler = "writing" /\ pending = <<[body |-> b]>> /\ written.status = s /\ written.items = <<>>
    \/ handler = "ended" /\ pending = <<>> /\ written.status = s /\ written.items = <<[body |-> b]>>

(* While the context lives, a chat response has no body, or one that fits  *)
(* its status at one of these stages.                                      *)
StatusFits ==
    Live /\ call.path = "chat" =>
       \/ NoBody(written.items) /\ NoBody(pending)
       \/ \E s, b : Matching(s, b) /\ Stage(s, b)

(* The reader: the error it reports is the last thing in the channel, and  *)
(* it closes the channel when it ends.                                     *)
Produced ==
    /\ producer = "none" => channel = <<>> /\ nextEvent = 1 /\ Out = <<>> /\ ~closed
    /\ producer \in {"reading", "sending", "reporting"} => ~EndsInError(channel)
    /\ producer = "sending" => ~IsError(holding)
    /\ producer = "reporting" => IsError(holding)
    /\ closed => producer = "ended"

(* What went out, what is queued and what the reader holds make up, in     *)
(* this order, what was read of the stream; if the channel is closed while *)
(* the context lives, an error or the finish reason is the last of it.     *)
Linked ==
    /\ Begins(Out, Got)
    /\ Streaming => producer # "none" /\ With(written.items, "done") = {}
    /\ Streaming /\ guard # "returned" =>
          /\ Feeds(channel, Out, Got)
          /\ producer = "sending" => holding = Last(Got)
          /\ producer \in {"reading", "sending"} \/ Live => NoneLost(Out, channel, Held, Got)
    /\ Streaming /\ Live /\ closed => EndsInError(channel) \/ EndsWithReason(Got)

(* A done marker, written or about to be, follows an error or a chunk with *)
(* a finish reason.                                                        *)
Explained(i) == i > 1 /\ "failure" \in DOMAIN pending[i - 1]
DoneExplained ==
    Live =>
       /\ With(written.items, "done") # {} => With(written.items, "failure") # {} \/ Finished
       /\ \A i \in DOMAIN pending : "done" \in DOMAIN pending[i] => Explained(i) \/ With(written.items, "failure") # {} \/ Finished

(* The inductive invariant.                                                *)
ChatInv == ChatTypes /\ Reached /\ AnswersMatch /\ StatusFits /\ Produced /\ Linked /\ DoneExplained

-----------------------------------------------------------------------------
(* The reader of the stream *)

(* It holds when the request arrives. *)
LEMMA ChatStarts ==
    ASSUME NEW c \in Calls, ChatInit(c)
    PROVE  ChatInv
  <1>1. /\ call = c /\ ctxState = "live" /\ connection = "open" /\ guard = "serving" /\ handler = "start" /\ pending = <<>>
        /\ sent = <<>> /\ reply = <<>> /\ script = <<>> /\ nextEvent = 1
        /\ producer = "none" /\ channel = <<>> /\ closed = FALSE
        /\ written.status = 0 /\ written.items = <<>>
    BY DEF ChatInit
  <1>2. ChatTypes
    BY <1>1, NoItem DEF ChatTypes, Live
  <1>3. With(<<>>, "done") = {} /\ With(<<>>, "chunk") = {}
    BY NoItem DEF With
  <1>4. Reached
    BY <1>1, <1>3 DEF Reached, Waiting
  <1>5. AnswersMatch
    BY <1>1, NoItem DEF AnswersMatch
  <1>6. StatusFits
    BY <1>1, NoItem DEF StatusFits, NoBody
  <1>7. Out = <<>>
    <2> DEFINE nil == <<>>
               t == Taken(nil, With(nil, "chunk"))
    <2>1. t = <<>>
      <3>1. IsSeq(nil) /\ Len(nil) = 0
        BY NoItem
      <3> HIDE DEF nil
      <3>2. TakenBy(nil, With(nil, "chunk"))[0] = <<>>
        BY <3>1, TakenRounds
      <3> QED
        BY <3>1, <3>2 DEF Taken
    <2>2. Out = [i \in DOMAIN t |-> t[i].chunk]
      BY <1>1 DEF Out, ChunksOf
    <2> HIDE DEF t
    <2> QED
      BY <2>1, <2>2
  <1>8. Produced
    BY <1>1, <1>7 DEF Produced
  <1>9. Begins(Out, Got)
    <2>1. Got = <<>>
      BY <1>1, NoItem, GottenBegins DEF Got
    <2> QED
      BY <1>7, <2>1, NoItem DEF Begins
  <1>10. Linked
    BY <1>1, <1>9 DEF Linked, Streaming
  <1>11. DoneExplained
    BY <1>1, <1>3, NoItem DEF DoneExplained
  <1> QED
    BY <1>2, <1>4, <1>5, <1>6, <1>8, <1>10, <1>11 DEF ChatInv

(* It implies the property. *)
LEMMA ChatMeans ==
    ASSUME ChatInv
    PROVE  AnswerIsFaithful
  <1> USE DEF ChatInv
  <1>1. sent # <<>> =>
          /\ call.method = "POST" /\ ValidRequest(call.body.request)
          /\ LET request == call.body.request.messages IN
             Conversed(Taken(request, NonSystem(request)), Taken(sent[1].messages, NonSystem(sent[1].messages)))
    BY DEF Reached, AskedRight
  <1>2. \A f : Having(f) = With(written.items, f)
    BY DEF Having, With
  <1>3. ASSUME NEW i \in Answering PROVE written.items[i].body.answer.text = ReplyText
    <2>1. i \in DOMAIN written.items /\ Carries(written.items[i])
      BY <1>3 DEF Answering, Having, Carries
    <2>2. written.items[i] \in Range(written.items)
      BY <2>1 DEF Range
    <2> QED
      BY <2>1, <2>2 DEF AnswersMatch, Repeats, ReplyText, TextReplied
  <1>4. ASSUME handler = "ended", InTime, call.path = "chat", Having("body") # {}
        PROVE  written.status = 200 <=> Answering # {}
    <2>1. ~NoBody(written.items)
      BY <1>4 DEF NoBody, Having, Range
    <2>2. PICK s, b : Matching(s, b) /\ Stage(s, b)
      BY <1>4, <2>1 DEF StatusFits, Live, InTime
    <2>3. written.status = s /\ written.items = <<[body |-> b]>>
      BY <1>4, <2>2 DEF Stage
    <2> DEFINE x == [body |-> b]
    <2>4. DOMAIN x = {"body"} /\ x.body = b
      OBVIOUS
    <2> HIDE DEF x
    <2>5. DOMAIN written.items = {1} /\ written.items[1] = x
      BY <2>3, OneItem DEF x
    <2>6. Having("body") = {1}
      BY <2>4, <2>5 DEF Having
    <2>7. Answering # {} <=> "answer" \in DOMAIN b
      BY <2>4, <2>5, <2>6 DEF Answering
    <2> QED
      BY <2>2, <2>3, <2>7 DEF Matching
  <1>5. SentChunks = Out
    BY <1>2 DEF SentChunks, Out, ChunksOf
  <1>6. Transformed = Converted(script, chosen) /\ GoodEvents = GoodIn(Transformed)
    <2>1. Transformed = Converted(script, chosen)
      BY DEF Transformed, Converted
    <2>2. DOMAIN Transformed = DOMAIN script
      BY DEF Transformed
    <2>3. GoodEvents = GoodIn(Transformed)
      BY <2>2 DEF GoodEvents, GoodIn
    <2> QED
      BY <2>1, <2>3
  <1>7. IsPrefix(SentChunks, Taken(Transformed, GoodEvents))
    <2> DEFINE all == Taken(Transformed, GoodEvents)
    <2>1. IsSeq(Got) /\ IsSeq(all) /\ Begins(Got, all)
      BY <1>6, GottenBegins DEF ChatTypes, Got
    <2>2. IsSeq(Out)
      BY ChunksAppend DEF ChatTypes, Out
    <2>3. Len(Out) \in Nat /\ Len(Got) \in Nat /\ Len(all) \in Nat
      BY <2>1, <2>2, SeqFacts
    <2>4. Begins(Out, Got)
      BY DEF Linked
    <2> HIDE DEF all
    <2>5. Begins(Out, all)
      BY <2>1, <2>3, <2>4 DEF Begins
    <2> QED
      BY <1>5, <2>1, <2>2, <2>5, BeginsIsPrefix DEF all
  <1>8. InTime /\ Having("done") # {} /\ Having("failure") = {} => SentChunks # <<>> /\ Last(SentChunks).reason # ""
    BY <1>2, <1>5 DEF DoneExplained, Live, InTime, Finished, EndsWithReason
  <1> QED
    BY <1>1, <1>3, <1>4, <1>7, <1>8 DEF AnswerIsFaithful, StreamIsHonest

(* A step of the producer does not concern what was written. *)
LEMMA ProducerFrame ==
    ASSUME ChatInv, UNCHANGED producerVars, producer # "none", producer' \in {"reading", "sending", "reporting", "ended"},
           IsSeq(channel'), nextEvent' \in Nat \ {0}
    PROVE  ChatTypes' /\ Reached' /\ AnswersMatch' /\ StatusFits' /\ DoneExplained' /\ Out' = Out
           /\ (Streaming => producer' # "none" /\ With(written.items, "done")' = {})
  <1> USE DEF ChatInv, producerVars, net
  <1>1. ChatTypes'
    BY DEF ChatTypes, Live
  <1>2. ~Waiting
    BY DEF Reached
  <1>3. Reached'
    BY <1>2 DEF Reached, Waiting
  <1>4. AnswersMatch'
    BY DEF AnswersMatch
  <1>5. StatusFits'
    BY DEF StatusFits, Live, Stage
  <1>6. Out' = Out
    BY DEF Out
  <1>7. DoneExplained'
    BY <1>6 DEF DoneExplained, Live, Finished, Explained
  <1>8. Streaming => producer' # "none" /\ With(written.items, "done")' = {}
    BY DEF Linked
  <1> QED
    BY <1>1, <1>3, <1>4, <1>5, <1>6, <1>7, <1>8

(* The reader takes the next event: it holds a chunk, reports an error, or *)
(* goes on.                                                                *)
LEMMA ReadStep ==
    ASSUME ChatInv, Read
    PROVE  ChatInv'
  <1> USE DEF ChatInv
  <1> DEFINE result == EventAt(script, chosen, nextEvent)
  <1>1. /\ producer = "reading" /\ ctxState = "live" /\ holding' = result
        /\ UNCHANGED producerVars /\ channel' = channel /\ closed' = closed
    BY DEF Read, Over, EventAt
  <1>2. producer' = CASE IsError(result) -> "reporting" [] result = NoChunk -> "reading" [] OTHER -> "sending"
    BY DEF Read, EventAt
  <1> HIDE DEF result
  <1>3. nextEvent \in Nat \ {0} /\ IsSeq(channel) /\ IsSeq(script) /\ IsSeq(written.items)
    BY DEF ChatTypes
  <1>4. nextEvent' = nextEvent + 1
    BY DEF Read
  <1>5. nextEvent' \in Nat \ {0}
    BY <1>3, <1>4
  <1>6. ~IsError(NoChunk)
    BY DEF IsError, NoChunk
  <1>7. \/ IsError(result) /\ producer' = "reporting"
        \/ ~IsError(result) /\ result = NoChunk /\ producer' = "reading"
        \/ ~IsError(result) /\ result # NoChunk /\ producer' = "sending"
    BY <1>2, <1>6
  <1>8. IsSeq(channel')
    BY <1>1, <1>3
  <1>9. ChatTypes' /\ Reached' /\ AnswersMatch' /\ StatusFits' /\ DoneExplained' /\ Out' = Out
        /\ (Streaming => producer' # "none" /\ With(written.items, "done")' = {})
    BY <1>1, <1>5, <1>7, <1>8, ProducerFrame
  <1>10. Got' = IF IsError(result) \/ result = NoChunk THEN Got ELSE Append(Got, result)
    <2>1. Gotten(script, chosen, nextEvent + 1) = IF IsError(result) \/ result = NoChunk THEN Got ELSE Append(Got, result)
      BY <1>3, GottenNext DEF Got, result
    <2> QED
      BY <1>1, <1>4, <2>1 DEF Got, producerVars, net
  <1>11. IsSeq(Got) /\ IsSeq(Out) /\ Len(Got) \in Nat /\ Len(Out) \in Nat /\ Queued(channel) \in Int
    BY <1>3, GottenBegins, ChunksAppend, SeqFacts DEF Got, Out, Queued
  <1>12. ~EndsInError(channel) /\ ~closed
    BY <1>1 DEF Produced
  <1>13. Produced'
    BY <1>1, <1>7, <1>12 DEF Produced
  <1>14. /\ Begins(Out, Got)
         /\ Streaming /\ guard # "returned" => Feeds(channel, Out, Got) /\ NoneLost(Out, channel, Held, Got)
    BY <1>1 DEF Linked
  <1>15. Streaming' = Streaming /\ guard' = guard
    BY <1>1 DEF Streaming, producerVars, net
  <1>16. CASE IsError(result) \/ result = NoChunk
    <2>1. Got' = Got /\ Held' = Held /\ producer' # "sending"
      BY <1>1, <1>7, <1>10, <1>16 DEF Held
    <2>2. Linked'
      BY <1>1, <1>9, <1>12, <1>14, <1>15, <2>1 DEF Linked
    <2> QED
      BY <1>9, <1>13, <2>2
  <1>17. CASE ~(IsError(result) \/ result = NoChunk)
    <2>1. Got' = Append(Got, result) /\ producer' = "sending" /\ Held' = 1 /\ Held = 0
      BY <1>1, <1>7, <1>10, <1>17 DEF Held
    <2>2. /\ Feeds(channel, Out, Got) => Feeds(channel, Out, Got')
          /\ Begins(Out, Got) => Begins(Out, Got')
          /\ Len(Got') = Len(Got) + 1 /\ Got'[Len(Got) + 1] = result
      BY <1>3, <1>11, <2>1, FeedsGrows
    <2>3. NoneLost(Out, channel, Held, Got) => NoneLost(Out, channel, Held', Got')
      BY <1>11, <2>1, <2>2 DEF NoneLost
    <2>4. result = Last(Got')
      BY <2>2 DEF Last
    <2>5. Linked'
      BY <1>1, <1>9, <1>12, <1>14, <1>15, <2>1, <2>2, <2>3, <2>4 DEF Linked
    <2> QED
      BY <1>9, <1>13, <2>5
  <1> QED
    BY <1>16, <1>17

(* The reader finds the context over while it reads.                       *)
LEMMA ReadCancelledStep ==
    ASSUME ChatInv, ReadCancelled
    PROVE  ChatInv'
  <1> USE DEF ChatInv
  <1>1. /\ producer = "reading" /\ ctxState # "live" /\ holding' = Error("internal", 0) /\ producer' = "reporting"
        /\ UNCHANGED producerVars /\ nextEvent' = nextEvent /\ channel' = channel /\ closed' = closed
    BY DEF ReadCancelled, Over
  <1>2. IsError(holding')
    BY <1>1, ErrorIsError
  <1>3. nextEvent' \in Nat \ {0} /\ IsSeq(channel')
    BY <1>1 DEF ChatTypes
  <1>4. ChatTypes' /\ Reached' /\ AnswersMatch' /\ StatusFits' /\ DoneExplained' /\ Out' = Out
        /\ (Streaming => producer' # "none" /\ With(written.items, "done")' = {})
    BY <1>1, <1>3, ProducerFrame
  <1>5. Produced'
    BY <1>1, <1>2 DEF Produced
  <1>6. Got' = Got /\ Streaming' = Streaming /\ guard' = guard /\ ctxState' = ctxState /\ connection' = connection
    BY <1>1 DEF Got, Streaming, producerVars, net
  <1>7. Linked'
    BY <1>1, <1>4, <1>6 DEF Linked, Live
  <1> QED
    BY <1>4, <1>5, <1>7

(* The reader puts the chunk it holds into the channel.                    *)
LEMMA SendChunkStep ==
    ASSUME ChatInv, SendChunk
    PROVE  ChatInv'
  <1> USE DEF ChatInv
  <1>1. /\ producer = "sending" /\ channel' = Append(channel, holding)
        /\ UNCHANGED producerVars /\ nextEvent' = nextEvent
    BY DEF SendChunk
  <1>2. producer' = IF holding.reason # "" THEN "ended" ELSE "reading"
    BY DEF SendChunk
  <1>3. closed' = (holding.reason # "")
    BY DEF SendChunk
  <1>4. IsSeq(channel) /\ nextEvent \in Nat \ {0} /\ IsSeq(script) /\ IsSeq(written.items)
    BY DEF ChatTypes
  <1>5. nextEvent' \in Nat \ {0} /\ IsSeq(channel') /\ producer' \in {"ended", "reading"}
    BY <1>1, <1>2, <1>4, AppendIsSeq
  <1>6. ChatTypes' /\ Reached' /\ AnswersMatch' /\ StatusFits' /\ DoneExplained' /\ Out' = Out
        /\ (Streaming => producer' # "none" /\ With(written.items, "done")' = {})
    BY <1>1, <1>5, ProducerFrame
  <1>7. IsSeq(Got) /\ IsSeq(Out) /\ Len(Got) \in Nat /\ Len(Out) \in Nat /\ Queued(channel) \in Nat
    <2>1. IsSeq(Got) /\ IsSeq(Out)
      BY <1>4, GottenBegins, ChunksAppend DEF Got, Out
    <2>2. ~EndsInError(channel)
      BY <1>1 DEF Produced
    <2> QED
      BY <1>4, <2>1, <2>2, SeqFacts DEF Queued
  <1>8. ~EndsInError(channel) /\ ~IsError(holding)
    BY <1>1 DEF Produced
  <1>9. ~EndsInError(channel') /\ Queued(channel') = Queued(channel) + 1
    <2>1. EndsInError(Append(channel, holding)) = IsError(holding)
      BY <1>4, <1>7, <1>8, FeedsAppend
    <2>2. Queued(Append(channel, holding)) = IF IsError(holding) THEN Queued(channel) ELSE Queued(channel) + 1
      BY <1>4, <1>7, <1>8, FeedsAppend
    <2> QED
      BY <1>1, <1>8, <2>1, <2>2
  <1>10. Produced'
    BY <1>2, <1>3, <1>5, <1>9 DEF Produced
  <1>11. /\ Got' = Got /\ Streaming' = Streaming /\ guard' = guard /\ ctxState' = ctxState /\ connection' = connection /\ Begins(Out, Got)
         /\ Held = 1 /\ Held' = 0 /\ producer' # "sending"
    BY <1>1, <1>5 DEF Got, Streaming, producerVars, net, Linked, Held
  <1>12. ASSUME Streaming, guard # "returned"
         PROVE  Feeds(channel', Out, Got) /\ NoneLost(Out, channel', Held', Got) /\ holding = Last(Got) /\ Got # <<>>
    <2>1. Feeds(channel, Out, Got) /\ holding = Last(Got) /\ NoneLost(Out, channel, 1, Got)
      BY <1>1, <1>11, <1>12 DEF Linked
    <2>2. Len(Out) + Queued(channel) + 1 = Len(Got)
      BY <2>1 DEF NoneLost
    <2>3. holding = Got[Len(Out) + Queued(channel) + 1]
      BY <2>1, <2>2 DEF Last
    <2>4. Feeds(channel', Out, Got)
      BY <1>1, <1>4, <1>7, <1>8, <2>1, <2>2, <2>3, FeedsAppend
    <2>5. NoneLost(Out, channel', Held', Got)
      BY <1>7, <1>9, <1>11, <2>2 DEF NoneLost
    <2>6. Got # <<>>
      BY <1>7, <2>2, NoItem
    <2> QED
      BY <2>1, <2>4, <2>5, <2>6
  <1>13. Streaming /\ Live /\ closed' => EndsWithReason(Got)
    <2>1. Streaming /\ Live => guard # "returned"
      BY DEF ChatTypes, Streaming, Live
    <2> QED
      BY <1>3, <1>12, <2>1 DEF EndsWithReason
  <1>14. Live' = Live
    BY <1>11 DEF Live
  <1>15. Linked'
    BY <1>6, <1>11, <1>12, <1>13, <1>14 DEF Linked
  <1> QED
    BY <1>6, <1>10, <1>15

(* The context is over while the reader waits for room in the channel.     *)
LEMMA GiveUpStep ==
    ASSUME ChatInv, GiveUp
    PROVE  ChatInv'
  <1> USE DEF ChatInv
  <1>1. /\ producer = "sending" /\ ctxState # "live" /\ producer' = "ended" /\ closed' = TRUE
        /\ UNCHANGED producerVars /\ nextEvent' = nextEvent /\ channel' = channel
    BY DEF GiveUp, Over
  <1>2. nextEvent' \in Nat \ {0} /\ IsSeq(channel')
    BY <1>1 DEF ChatTypes
  <1>3. ChatTypes' /\ Reached' /\ AnswersMatch' /\ StatusFits' /\ DoneExplained' /\ Out' = Out
        /\ (Streaming => producer' # "none" /\ With(written.items, "done")' = {})
    BY <1>1, <1>2, ProducerFrame
  <1>4. Produced'
    BY <1>1 DEF Produced
  <1>5. Got' = Got /\ Streaming' = Streaming /\ guard' = guard /\ ctxState' = ctxState /\ connection' = connection
    BY <1>1 DEF Got, Streaming, producerVars, net
  <1>6. Linked'
    BY <1>1, <1>3, <1>5 DEF Linked, Live
  <1> QED
    BY <1>3, <1>4, <1>6

(* The reader puts its error into the channel, or drops it, and closes the *)
(* channel.                                                                *)
LEMMA SendErrorStep ==
    ASSUME ChatInv, SendError
    PROVE  ChatInv'
  <1> USE DEF ChatInv
  <1>1. /\ producer = "reporting" /\ channel' = Append(channel, holding) /\ producer' = "ended" /\ closed' = TRUE
        /\ UNCHANGED producerVars /\ nextEvent' = nextEvent
    BY DEF SendError
  <1>2. IsSeq(channel) /\ nextEvent \in Nat \ {0} /\ IsSeq(script) /\ IsSeq(written.items)
    BY DEF ChatTypes
  <1>3. nextEvent' \in Nat \ {0} /\ IsSeq(channel')
    BY <1>1, <1>2, AppendIsSeq
  <1>4. ChatTypes' /\ Reached' /\ AnswersMatch' /\ StatusFits' /\ DoneExplained' /\ Out' = Out
        /\ (Streaming => producer' # "none" /\ With(written.items, "done")' = {})
    BY <1>1, <1>3, ProducerFrame
  <1>5. IsSeq(Got) /\ IsSeq(Out)
    BY <1>2, GottenBegins, ChunksAppend DEF Got, Out
  <1>6. ~EndsInError(channel) /\ IsError(holding)
    BY <1>1 DEF Produced
  <1>7. EndsInError(channel') /\ Queued(channel') = Queued(channel)
    BY <1>1, <1>2, <1>5, <1>6, FeedsAppend
  <1>8. Feeds(channel, Out, Got) => Feeds(channel', Out, Got)
    BY <1>1, <1>2, <1>5, <1>6, FeedsAppend
  <1>9. Produced'
    BY <1>1 DEF Produced
  <1>10. /\ Got' = Got /\ Streaming' = Streaming /\ guard' = guard /\ ctxState' = ctxState /\ connection' = connection
         /\ Held = 0 /\ Held' = 0
    BY <1>1 DEF Got, Streaming, producerVars, net, Held
  <1>11. NoneLost(Out, channel, Held, Got) => NoneLost(Out, channel', Held', Got)
    BY <1>7, <1>10 DEF NoneLost
  <1>12. Linked'
    BY <1>1, <1>4, <1>7, <1>8, <1>10, <1>11 DEF Linked, Live
  <1> QED
    BY <1>4, <1>9, <1>12

(* A step of the middleware or of time leaves the context over or the      *)
(* connection expired, and may write the timeout.                          *)
LEMMA GuardFrame ==
    ASSUME ChatInv, ~Live', ctxState' \in {"live", "deadline", "cancelled", "finished"},
           UNCHANGED <<call, handler, pending, chosen, sent, reply, script, nextEvent, producer, holding, channel, closed>>,
           ctxState' = "live" => ctxState = "live" /\ guard' = guard,
           guard' \in {"serving", "expired", "status sent", "returned"}, guard = "returned" => guard' = "returned",
           NEW x, DOMAIN x = {"body"}, ~Carries(x),
           written'.items = written.items \/ written'.items = Append(written.items, x)
    PROVE  ChatInv'
  <1> USE DEF ChatInv
  <1>1. IsSeq(written.items)
    BY DEF ChatTypes
  <1>2. /\ IsSeq(written'.items) /\ Out' = Out /\ Range(written'.items) \subseteq Range(written.items) \cup {x}
        /\ With(written'.items, "done") = With(written.items, "done")
    <2>1. CASE written'.items = written.items
      BY <1>1, <2>1 DEF Out
    <2>2. CASE written'.items = Append(written.items, x)
      <3>1. "chunk" \notin DOMAIN x /\ "done" \notin DOMAIN x
        OBVIOUS
      <3> DEFINE old == written.items
      <3> HIDE DEF old
      <3>2. IsSeq(Append(old, x)) /\ Range(Append(old, x)) = Range(old) \cup {x}
        BY <1>1, AppendIsSeq, RangeAppend DEF old
      <3>3. ChunksOf(Append(old, x)) = ChunksOf(old)
        BY <1>1, <3>1, ChunksAppend DEF old
      <3>4. With(Append(old, x), "done") = With(old, "done")
        <4>1. With(Append(old, x), "done") = With(old, "done") \cup (IF "done" \in DOMAIN x THEN {Len(old) + 1} ELSE {})
          BY <1>1, WithAppend DEF old
        <4> QED
          BY <3>1, <4>1
      <3> QED
        BY <2>2, <3>2, <3>3, <3>4 DEF Out, old
    <2> QED
      BY <2>1, <2>2
  <1>3. ~Live'
    OBVIOUS
  <1>4. ChatTypes'
    BY <1>2 DEF ChatTypes
  <1>5. Reached'
    BY <1>2, <1>3 DEF Reached, Waiting
  <1>6. AnswersMatch'
    BY <1>2 DEF AnswersMatch, Repeats
  <1>7. StatusFits'
    BY <1>3 DEF StatusFits
  <1>8. Produced'
    BY <1>2 DEF Produced
  <1>9. Got' = Got /\ Held' = Held /\ Streaming' = Streaming
    BY DEF Got, Held, Streaming
  <1>10. Linked'
    BY <1>2, <1>3, <1>9 DEF Linked
  <1>11. DoneExplained'
    BY <1>3 DEF DoneExplained
  <1> QED
    BY <1>4, <1>5, <1>6, <1>7, <1>8, <1>10, <1>11

(* The timeout middleware and the end of the context.                      *)
LEMMA GuardStep ==
    ASSUME ChatInv,
           \/ HandlerDone \/ ContextDone \/ WriteTimeoutStatus \/ WriteTimeoutBody
           \/ ConnectionExpires \/ Deadline \/ ClientLeaves
    PROVE  ChatInv'
  <1> DEFINE b == [error |-> "gateway_timeout"]
             x == [body |-> b]
  <1>1. DOMAIN x = {"body"} /\ x.body = b /\ "answer" \notin DOMAIN b
    OBVIOUS
  <1> HIDE DEF x, b
  <1>2. DOMAIN x = {"body"} /\ ~Carries(x)
    BY <1>1 DEF Carries
  <1>3. /\ ctxState \in {"live", "deadline", "cancelled", "finished"} /\ guard \in {"serving", "expired", "status sent", "returned"}
        /\ ctxState = "live" => guard \in {"serving", "returned"}
    BY DEF ChatInv, ChatTypes
  <1>4. ASSUME NEW response, Return(response)
        PROVE  guard' = "returned" /\ ctxState' \in {"deadline", "cancelled", "finished"}
    BY <1>3, <1>4 DEF Return, Over
  <1>5. ctxState' # "live" \/ connection' = "expired" => ~Live'
    BY DEF Live
  <1> USE DEF guardVars
  <1>6. CASE HandlerDone
    BY <1>2, <1>3, <1>4, <1>5, <1>6, GuardFrame DEF HandlerDone
  <1>7. CASE ContextDone
    BY <1>2, <1>3, <1>4, <1>5, <1>7, GuardFrame DEF ContextDone
  <1>8. CASE WriteTimeoutStatus
    <2>1. written'.items = written.items
      BY <1>8 DEF WriteTimeoutStatus, WriteHeader
    <2> QED
      BY <1>2, <1>3, <1>5, <1>8, <2>1, GuardFrame DEF WriteTimeoutStatus
  <1>9. CASE WriteTimeoutBody
    <2>1. written' = Write(x) /\ Return(Write(x))
      BY <1>9 DEF WriteTimeoutBody, x, b
    <2>2. written'.items = written.items \/ written'.items = Append(written.items, x)
      BY <2>1 DEF Write
    <2> QED
      BY <1>2, <1>3, <1>4, <1>5, <1>9, <2>1, <2>2, GuardFrame DEF WriteTimeoutBody
  <1>10. CASE ConnectionExpires
    BY <1>2, <1>3, <1>5, <1>10, GuardFrame DEF ConnectionExpires
  <1>11. CASE Deadline
    BY <1>2, <1>3, <1>5, <1>11, GuardFrame DEF Deadline
  <1>12. CASE ClientLeaves
    BY <1>2, <1>3, <1>5, <1>12, GuardFrame DEF ClientLeaves
  <1> QED
    BY <1>6, <1>7, <1>8, <1>9, <1>10, <1>11, <1>12

-----------------------------------------------------------------------------
(* The handler before the stream *)

(* The handler has its response and begins to write it.                    *)
Responding(items) ==
    /\ IsSeq(items) /\ items # <<>> /\ handler' = "writing" /\ pending' = items
    /\ UNCHANGED <<call, ctxState, net, guard, chosen, script, nextEvent, producer, holding, closed, written>>
    /\ IsSeq(channel') /\ (producer = "none" => channel' = channel) /\ (EndsInError(channel') => EndsInError(channel))
    /\ sent' # <<>> => AskedRight(call, sent'[1])

(* A response begun in one of the handler's waiting points keeps the       *)
(* invariant if its items may be written, its answer repeats the reply and *)
(* its status fits.                                                        *)
LEMMA Responds ==
    ASSUME ChatInv, Waiting \/ Streaming, NEW items, Responding(items),
           \A x \in Range(items) : Writable(x),
           \A x \in Range(written.items) \cup Range(items) : Repeats(x, chosen, reply'),
           StatusFits',
           Live => \A i \in DOMAIN items :
                      "done" \in DOMAIN items[i] => (i > 1 /\ "failure" \in DOMAIN items[i - 1]) \/ Finished
    PROVE  ChatInv'
  <1> USE DEF ChatInv, Responding, net
  <1>1. handler # "writing" /\ handler # "ended"
    BY DEF Waiting, Streaming
  <1>2. ChatTypes'
    BY <1>1 DEF ChatTypes, Live
  <1>3. Reached'
    BY DEF Reached, Waiting
  <1>4. AnswersMatch'
    BY DEF AnswersMatch
  <1>5. Out' = Out /\ Got' = Got /\ ~Streaming' /\ Finished' = Finished
    BY DEF Out, Got, Streaming, Finished
  <1>6. Produced'
    BY <1>5 DEF Produced
  <1>7. Linked'
    BY <1>5 DEF Linked
  <1>8. DoneExplained'
    BY <1>5 DEF DoneExplained, Live, Explained
  <1> QED
    BY <1>2, <1>3, <1>4, <1>6, <1>7, <1>8

(* While a request waits nothing carries an answer. *)
LEMMA NothingCarried ==
    ASSUME ChatInv, Waiting, NEW provider, NEW r
    PROVE  \A x \in Range(written.items) : Repeats(x, provider, r)
  BY DEF ChatInv, Reached, AnswersMatch, Repeats

(* A response with a status and a body. *)
LEMMA RespondsJSON ==
    ASSUME ChatInv, Waiting, NEW s, NEW b, Responding(<<[status |-> s], [body |-> b]>>),
           Matching(s, b) \/ call.path # "chat",
           "answer" \in DOMAIN b => reply' # <<>> /\ b.answer.text = TextReplied(chosen, reply')
    PROVE  ChatInv'
  <1> DEFINE x == [status |-> s]
             y == [body |-> b]
             items == <<x, y>>
  <1>1. DOMAIN x = {"status"} /\ DOMAIN y = {"body"} /\ y.body = b
    BY ItemFields
  <1>2. Responding(items)
    OBVIOUS
  <1>3. StatusFits'
    <2>1. CASE call.path # "chat" \/ ~Live
      BY <1>2, <2>1 DEF StatusFits, Responding, Live, net
    <2>2. CASE Matching(s, b) /\ Live
      <3>1. written.status = 0 /\ written.items = <<>>
        BY <2>2 DEF ChatInv, Reached
      <3>2. Stage(s, b)'
        BY <1>2, <3>1 DEF Responding, Stage
      <3> QED
        BY <2>2, <3>2 DEF StatusFits
    <2> QED
      BY <2>1, <2>2
  <1> HIDE DEF x, y
  <1>4. DOMAIN items = {1, 2} /\ items[1] = x /\ items[2] = y /\ Range(items) = {x, y}
    BY TwoItems
  <1> HIDE DEF items
  <1>5. \A z \in Range(items) : Writable(z)
    BY <1>1, <1>4 DEF Writable
  <1>6. \A i \in DOMAIN items : "done" \notin DOMAIN items[i]
    BY <1>1, <1>4
  <1>7. \A z \in Range(items) : Repeats(z, chosen, reply')
    BY <1>1, <1>4 DEF Repeats, Carries
  <1>8. \A z \in Range(written.items) : Repeats(z, chosen, reply')
    BY NothingCarried
  <1> QED
    BY <1>2, <1>3, <1>5, <1>6, <1>7, <1>8, Responds

(* A response that is an error. *)
LEMMA RespondsError ==
    ASSUME ChatInv, Waiting, NEW e, Responding(WriteErrorResponse(e))
    PROVE  ChatInv'
  <1>1. PICK s, b : WriteErrorResponse(e) = <<[status |-> s], [body |-> b]>> /\ Matching(s, b) /\ "answer" \notin DOMAIN b
    BY ErrorResponse
  <1>2. Responding(<<[status |-> s], [body |-> b]>>)
    BY <1>1
  <1> QED
    BY <1>1, <1>2, RespondsJSON

(* A response without a body. *)
LEMMA RespondsPlain ==
    ASSUME ChatInv, Waiting \/ Streaming, NEW items, Responding(items),
           \A x \in Range(items) : Writable(x) /\ "body" \notin DOMAIN x,
           Waiting \/ reply' = reply,
           Live => \A i \in DOMAIN items :
                      "done" \in DOMAIN items[i] => (i > 1 /\ "failure" \in DOMAIN items[i - 1]) \/ Finished
    PROVE  ChatInv'
  <1>1. \A x \in Range(items) : Repeats(x, chosen, reply')
    BY DEF Repeats, Carries
  <1>2. \A x \in Range(written.items) : Repeats(x, chosen, reply')
    <2>1. CASE Waiting
      BY <2>1, NothingCarried
    <2>2. CASE reply' = reply
      BY <2>2 DEF ChatInv, AnswersMatch
    <2> QED
      BY <2>1, <2>2
  <1>3. StatusFits'
    <2> SUFFICES ASSUME Live', call'.path = "chat" PROVE NoBody(written'.items) /\ NoBody(pending')
      BY DEF StatusFits
    <2>1. Live /\ call.path = "chat" /\ written' = written /\ pending' = items
      BY DEF Responding, Live, net
    <2>2. handler # "writing" /\ handler # "ended"
      BY DEF Waiting, Streaming
    <2>3. NoBody(written.items)
      BY <2>1, <2>2 DEF ChatInv, StatusFits, Stage
    <2> QED
      BY <2>1, <2>3 DEF NoBody
  <1> QED
    BY <1>1, <1>2, <1>3, Responds

(* A preflight request is answered with a bare status.                     *)
LEMMA CORSStep ==
    ASSUME ChatInv, CORSMiddleware
    PROVE  ChatInv'
  <1> USE DEF ChatInv
  <1>1. /\ handler = "start" /\ handler' = "ended" /\ guard' = "returned" /\ written' = WriteHeader(204)
        /\ UNCHANGED <<call, ctxState, connection, pending, chosen, sent, reply, script, nextEvent, producer, holding, channel, closed>>
    BY DEF CORSMiddleware
  <1>2. written'.items = written.items
    BY <1>1 DEF WriteHeader
  <1>3. Waiting /\ ~Waiting' /\ ~Streaming' /\ pending = <<>> /\ pending' = <<>>
    BY <1>1 DEF ChatTypes, Waiting, Streaming
  <1>4. ChatTypes'
    BY <1>1, <1>2 DEF ChatTypes, Live
  <1>5. Reached'
    BY <1>1, <1>2, <1>3 DEF Reached
  <1>6. AnswersMatch'
    BY <1>1, <1>2 DEF AnswersMatch
  <1>7. StatusFits'
    <2>1. Live => NoBody(written.items)
      BY <1>3, NoItem DEF Reached, NoBody
    <2>2. NoBody(pending')
      BY <1>3, NoItem DEF NoBody
    <2> QED
      BY <1>1, <1>2, <2>1, <2>2 DEF StatusFits, Live, NoBody
  <1>8. Out' = Out /\ Got' = Got /\ Finished' = Finished
    BY <1>1, <1>2 DEF Out, Got, Finished
  <1>9. Produced' /\ Linked'
    BY <1>1, <1>2, <1>3, <1>8 DEF Produced, Linked
  <1>10. DoneExplained'
    BY <1>1, <1>2, <1>3, <1>8, NoItem DEF DoneExplained, Live
  <1> QED
    BY <1>4, <1>5, <1>6, <1>7, <1>9, <1>10

(* A probe is answered with a text or with a body that is no answer.       *)
ProbeAnswer(r) ==
    \/ \E code : r = PlainText(code)
    \/ \E s, b : r = <<[status |-> s], [body |-> b]>> /\ "answer" \notin DOMAIN b

(* No probe answers with a completion.                                     *)
LEMMA Probes ==
    ASSUME NEW path, NEW method, NEW healthy
    PROVE  ProbeAnswer(ProbeResponse(path, method, healthy))
  <1>1. \A code : ProbeAnswer(PlainText(code))
    BY DEF ProbeAnswer
  <1>2. ASSUME NEW s, NEW b, "answer" \notin DOMAIN b PROVE ProbeAnswer(WriteJSONResponse(s, b))
    BY <1>2 DEF ProbeAnswer, WriteJSONResponse
  <1>3. ProbeAnswer(WebSocketHandler)
    BY <1>1 DEF WebSocketHandler
  <1>4. ProbeAnswer(ReadyHandler(method, healthy))
    <2> DEFINE b == [healthy |-> Cardinality(healthy)]
               code == IF healthy = {} THEN 503 ELSE 200
    <2>1. "answer" \notin DOMAIN b
      OBVIOUS
    <2>2. ReadyHandler(method, healthy) = IF method # "GET" THEN PlainText(405) ELSE WriteJSONResponse(code, b)
      BY DEF ReadyHandler
    <2> HIDE DEF b, code
    <2>3. ProbeAnswer(WriteJSONResponse(code, b))
      BY <1>2, <2>1
    <2> QED
      BY <1>1, <2>2, <2>3
  <1>5. ProbeAnswer(ProviderHealthHandler(method, healthy))
    <2> DEFINE b == [providers |-> healthy]
    <2>1. "answer" \notin DOMAIN b
      OBVIOUS
    <2>2. ProviderHealthHandler(method, healthy) = IF method # "GET" THEN PlainText(405) ELSE WriteJSONResponse(200, b)
      BY DEF ProviderHealthHandler
    <2> HIDE DEF b
    <2>3. ProbeAnswer(WriteJSONResponse(200, b))
      BY <1>2, <2>1
    <2> QED
      BY <1>1, <2>2, <2>3
  <1>6. ProbeAnswer(HealthHandler(method))
    <2> DEFINE b == [state |-> "ok"]
    <2>1. "answer" \notin DOMAIN b
      OBVIOUS
    <2>2. HealthHandler(method) = IF method # "GET" THEN PlainText(405) ELSE WriteJSONResponse(200, b)
      BY DEF HealthHandler
    <2> HIDE DEF b
    <2>3. ProbeAnswer(WriteJSONResponse(200, b))
      BY <1>2, <2>1
    <2> QED
      BY <1>1, <2>2, <2>3
  <1>7. ProbeResponse(path, method, healthy) \in
           {WebSocketHandler, ReadyHandler(method, healthy), ProviderHealthHandler(method, healthy), HealthHandler(method)}
    BY DEF ProbeResponse
  <1> QED
    BY <1>3, <1>4, <1>5, <1>6, <1>7

(* A response while nothing but the handler moves. *)
LEMMA RespondingNow ==
    ASSUME ChatInv, Waiting, NEW items, IsSeq(items), items # <<>>, Respond(items),
           UNCHANGED <<call, ctxState, net, guard, chosen, script, nextEvent, producer, holding, closed, channel, written>>,
           sent' # <<>> => AskedRight(call, sent'[1])
    PROVE  Responding(items)
  BY DEF ChatInv, ChatTypes, Respond, Responding

(* An error response is a list with items.                                 *)
LEMMA ErrorItems ==
    ASSUME NEW e
    PROVE  IsSeq(WriteErrorResponse(e)) /\ WriteErrorResponse(e) # <<>>
  <1>1. PICK s, b : WriteErrorResponse(e) = <<[status |-> s], [body |-> b]>>
    BY ErrorResponse
  <1> DEFINE head == [status |-> s]
             rest == [body |-> b]
  <1>2. WriteErrorResponse(e) = <<head, rest>>
    BY <1>1
  <1> HIDE DEF head, rest
  <1>3. IsSeq(<<head, rest>>) /\ <<head, rest>> # <<>>
    BY TwoItems
  <1> QED
    BY <1>2, <1>3

(* A probe is answered.                                                    *)
LEMMA ProbeStep ==
    ASSUME ChatInv, ServeProbe
    PROVE  ChatInv'
  <1>1. /\ handler = "start" /\ call.path # "chat" /\ UNCHANGED <<handlerVars, channel, written>>
    BY DEF ServeProbe, Routed
  <1>2. PICK healthy \in SUBSET ProviderNames : Respond(ProbeResponse(call.path, call.method, healthy))
    BY DEF ServeProbe
  <1>3. PICK r : ProbeAnswer(r) /\ Respond(r)
    BY <1>2, Probes
  <1>4. Waiting /\ sent = <<>> /\ sent' = <<>> /\ reply' = reply
    BY <1>1 DEF Waiting, handlerVars, net, ChatInv, Reached
  <1>5. CASE \E code : r = PlainText(code)
    <2>1. PICK code : r = PlainText(code)
      BY <1>5
    <2> DEFINE x == [status |-> code]
               y == [text |-> "plain"]
    <2>2. r = <<x, y>>
      BY <2>1 DEF PlainText
    <2>3. DOMAIN x = {"status"} /\ DOMAIN y = {"text"}
      OBVIOUS
    <2> HIDE DEF x, y
    <2>4. IsSeq(r) /\ r # <<>> /\ DOMAIN r = {1, 2} /\ r[1] = x /\ r[2] = y /\ Range(r) = {x, y}
      BY <2>2, TwoItems
    <2>5. Responding(r)
      BY <1>1, <1>3, <1>4, <2>4, RespondingNow DEF handlerVars, net
    <2>6. \A z \in Range(r) : Writable(z) /\ "body" \notin DOMAIN z
      BY <2>3, <2>4 DEF Writable
    <2>7. \A i \in DOMAIN r : "done" \notin DOMAIN r[i]
      BY <2>3, <2>4
    <2> QED
      BY <1>4, <2>5, <2>6, <2>7, RespondsPlain
  <1>6. CASE \E s, b : r = <<[status |-> s], [body |-> b]>> /\ "answer" \notin DOMAIN b
    <2>1. PICK s, b : r = <<[status |-> s], [body |-> b]>> /\ "answer" \notin DOMAIN b
      BY <1>6
    <2>2. IsSeq(r) /\ r # <<>>
      <3> DEFINE x == [status |-> s]
                 y == [body |-> b]
      <3>1. r = <<x, y>>
        BY <2>1
      <3> HIDE DEF x, y
      <3> QED
        BY <3>1, TwoItems
    <2>3. Responding(r)
      BY <1>1, <1>3, <1>4, <2>2, RespondingNow DEF handlerVars, net
    <2>4. Responding(<<[status |-> s], [body |-> b]>>)
      BY <2>1, <2>3
    <2> QED
      BY <1>1, <1>4, <2>1, <2>4, RespondsJSON
  <1> QED
    BY <1>3, <1>5, <1>6 DEF ProbeAnswer

(* The handler goes on to the next stage before anything is written. *)
LEMMA StageStep ==
    ASSUME ChatInv, Waiting, handler' \in {"parsed", "selected"}, call.method = "POST",
           ~IsError(ParseChatCompletionRequest(call.body)),
           handler' = "selected" => chosen' \in ProviderNames,
           UNCHANGED <<call, ctxState, net, guard, pending, sent, reply, script, nextEvent, producer, holding, channel, closed, written>>
    PROVE  ChatInv'
  <1> USE DEF ChatInv
  <1>1. Waiting' /\ handler' # "writing" /\ ~Streaming' /\ handler # "writing" /\ handler # "ended"
    BY DEF Waiting, Streaming
  <1>2. ChatTypes'
    BY <1>1 DEF ChatTypes, Live
  <1>3. Reached'
    BY <1>1 DEF Reached, Live, net
  <1>4. pending = <<>> /\ pending' = <<>>
    BY <1>1 DEF ChatTypes
  <1>5. AnswersMatch'
    BY <1>4, NoItem, NothingCarried DEF AnswersMatch
  <1>6. StatusFits'
    BY <1>4, NoItem DEF StatusFits, Live, NoBody, Reached, net
  <1>7. Out' = Out /\ Finished' = Finished /\ Out = <<>> /\ producer = "none"
    BY DEF Out, Finished, Reached, Produced
  <1>8. Produced'
    BY <1>7 DEF Produced
  <1>9. IsSeq(Got')
    BY GottenBegins DEF ChatTypes, Got
  <1>10. Len(Got') \in Nat
    BY <1>9, SeqFacts
  <1>11. Begins(Out', Got')
    BY <1>7, <1>10, NoItem DEF Begins
  <1>12. Linked'
    BY <1>1, <1>11 DEF Linked
  <1>13. DoneExplained'
    BY <1>4, <1>7, NoItem DEF DoneExplained, Live, net
  <1> QED
    BY <1>2, <1>3, <1>5, <1>6, <1>8, <1>12, <1>13

(* The handler parses the body, or answers with the error.                 *)
LEMMA ParseStep ==
    ASSUME ChatInv, handleChatRequest
    PROVE  ChatInv'
  <1> DEFINE parsed == ParseChatCompletionRequest(call.body)
  <1>1. handler = "start" /\ UNCHANGED <<handlerVars, channel, written>>
    BY DEF handleChatRequest, Routed
  <1>2. \/ \E e : Respond(WriteErrorResponse(e))
        \/ call.method = "POST" /\ ~IsError(parsed) /\ handler' = "parsed" /\ pending' = pending
    <2>1. CASE call.method # "POST"
      BY <2>1 DEF handleChatRequest
    <2>2. CASE call.method = "POST" /\ IsError(parsed)
      BY <2>2 DEF handleChatRequest
    <2>3. CASE call.method = "POST" /\ ~IsError(parsed)
      BY <2>3 DEF handleChatRequest
    <2> QED
      BY <2>1, <2>2, <2>3
  <1>3. Waiting /\ sent = <<>> /\ sent' = <<>>
    BY <1>1 DEF Waiting, handlerVars, net, ChatInv, Reached
  <1>4. CASE \E e : Respond(WriteErrorResponse(e))
    <2>1. PICK e : Respond(WriteErrorResponse(e))
      BY <1>4
    <2>2. Responding(WriteErrorResponse(e))
      BY <1>1, <1>3, <2>1, ErrorItems, RespondingNow DEF handlerVars, net
    <2> QED
      BY <1>3, <2>2, RespondsError
  <1>5. CASE call.method = "POST" /\ ~IsError(parsed) /\ handler' = "parsed" /\ pending' = pending
    BY <1>1, <1>3, <1>5, StageStep DEF handlerVars, net
  <1> QED
    BY <1>2, <1>4, <1>5

(* The handler selects a provider, or answers with the error.              *)
LEMMA SelectStep ==
    ASSUME ChatInv, SelectProvider
    PROVE  ChatInv'
  <1>1. /\ handler = "parsed"
        /\ UNCHANGED <<call, ctxState, net, guard, sent, reply, script, nextEvent, producer, holding, channel, closed, written>>
    BY DEF SelectProvider
  <1>2. /\ Waiting /\ sent = <<>> /\ sent' = <<>>
        /\ call.method = "POST" /\ ~IsError(ParseChatCompletionRequest(call.body))
    BY <1>1 DEF Waiting, ChatInv, Reached
  <1>3. PICK healthy \in SUBSET ProviderNames :
           IF healthy = {} THEN Respond(WriteErrorResponse(Error("provider", 503))) /\ chosen' = chosen
           ELSE /\ chosen' \in selectProviderFromManager(healthy, call.body.request.model)
                /\ handler' = "selected" /\ pending' = pending
    BY DEF SelectProvider
  <1>4. CASE healthy = {}
    <2>1. Responding(WriteErrorResponse(Error("provider", 503)))
      BY <1>1, <1>2, <1>3, <1>4, ErrorItems, RespondingNow
    <2> QED
      BY <1>2, <2>1, RespondsError
  <1>5. CASE healthy # {}
    <2>1. chosen' \in healthy
      BY <1>3, <1>5 DEF selectProviderFromManager, selectProviderByModel
    <2> QED
      BY <1>1, <1>2, <1>3, <1>5, <2>1, StageStep
  <1> QED
    BY <1>4, <1>5

(* What a provider is asked. *)
LEMMA Asked ==
    ASSUME ChatInv, handler = "selected", ~IsError(providerRequest)
    PROVE  AskedRight(call, providerRequest) /\ chosen \in ProviderNames /\ Waiting
  <1> DEFINE r == call.body.request
  <1>1. /\ call \in Calls /\ chosen \in ProviderNames /\ Waiting /\ call.method = "POST"
        /\ ~IsError(ParseChatCompletionRequest(call.body))
    BY DEF ChatInv, ChatTypes, Reached, Waiting
  <1>2. call.body.kind \notin {"unreadable", "too large", "malformed"} /\ ValidRequest(r)
    BY <1>1, ParsedIsValid
  <1>3. IsSeq(r.messages) /\ \A i \in DOMAIN r.messages : Content(r.messages[i].content)
    BY <1>1, <1>2, ChatAssumption
  <1>4. LET told == providerRequest.messages IN
        Conversed(Taken(r.messages, NonSystem(r.messages)), Taken(told, NonSystem(told)))
    BY <1>3, Converses DEF providerRequest
  <1> QED
    BY <1>1, <1>2, <1>4 DEF AskedRight

(* The text of an answer is the text of the reply. *)
LEMMA AnswerText ==
    ASSUME NEW p \in ProviderNames, NEW a \in Answers(p), ~IsError(transformResponse(p, a))
    PROVE  transformResponse(p, a).text = TextReplied(p, <<a>>)
  <1>1. CASE p = "anthropic"
    <2>1. TextParts(a.blocks)
      BY <1>1, ChatAssumption
    <2>2. transformResponse(p, a).text = CollectText(a.blocks)
      BY <1>1 DEF transformResponse, anthropicTransformResponse
    <2> QED
      BY <1>1, <2>1, <2>2, CollectIsText DEF TextReplied
  <1>2. CASE p # "anthropic"
    <2>1. transformResponse(p, a) = openaiTransformResponse(a)
      BY <1>2 DEF transformResponse
    <2>2. a.choices # <<>>
      BY <2>1, ErrorIsError DEF openaiTransformResponse
    <2>3. openaiTransformResponse(a).text = a.choices[1].text
      BY <2>2 DEF openaiTransformResponse
    <2> QED
      BY <1>2, <2>1, <2>3 DEF TextReplied
  <1> QED
    BY <1>1, <1>2

(* A completion without a stream: the provider is asked and its reply, or  *)
(* the error, becomes the response.                                        *)
LEMMA SendStep ==
    ASSUME ChatInv, SendCompletion
    PROVE  ChatInv'
  <1>1. /\ handler = "selected" 
        /\ UNCHANGED <<call, ctxState, net, guard, chosen, script, nextEvent, producer, holding, channel, closed, written>>
    BY DEF SendCompletion
  <1>2. Waiting /\ sent = <<>>
    BY <1>1 DEF ChatInv, Reached, Waiting
  <1>3. CASE IsError(providerRequest)
    <2>1. Respond(WriteErrorResponse(providerRequest)) /\ sent' = sent
      BY <1>3 DEF SendCompletion
    <2>2. Responding(WriteErrorResponse(providerRequest))
      BY <1>1, <1>2, <2>1, ErrorItems, RespondingNow
    <2> QED
      BY <1>2, <2>2, RespondsError
  <1>4. CASE ~IsError(providerRequest)
    <2>1. sent' = <<providerRequest>>
      BY <1>4 DEF SendCompletion
    <2>2. sent' # <<>> => AskedRight(call, sent'[1])
      BY <1>1, <1>4, <2>1, Asked
    <2>3. ASSUME NEW e, Respond(WriteErrorResponse(e)) PROVE ChatInv'
      <3>1. Responding(WriteErrorResponse(e))
        BY <1>1, <1>2, <2>2, <2>3, ErrorItems, RespondingNow
      <3> QED
        BY <1>2, <3>1, RespondsError
    <2>4. ASSUME NEW a \in Answers(chosen), reply' = <<a>>, ~IsError(transformResponse(chosen, a)),
                 Respond(WriteJSONResponse(200, FormatChatCompletionResponse(transformResponse(chosen, a))))
          PROVE  ChatInv'
      <3> DEFINE resp == transformResponse(chosen, a)
                 b == FormatChatCompletionResponse(resp)
                 head == [status |-> 200]
                 rest == [body |-> b]
      <3>1. DOMAIN b = {"answer"} /\ b.answer.text = resp.text
        BY DEF FormatChatCompletionResponse
      <3>2. resp.text = TextReplied(chosen, reply')
        BY <1>1, <1>4, <2>4, Asked, AnswerText
      <3>3. Respond(<<head, rest>>)
        BY <2>4 DEF WriteJSONResponse
      <3> HIDE DEF b, resp
      <3>4. Matching(200, b)
        BY <3>1 DEF Matching
      <3>5. Responding(<<head, rest>>)
        <4> HIDE DEF head, rest
        <4>1. IsSeq(<<head, rest>>) /\ <<head, rest>> # <<>>
          BY TwoItems
        <4> QED
          BY <1>1, <1>2, <2>2, <3>3, <4>1, RespondingNow
      <3>6. reply' # <<>>
        BY <2>4
      <3> QED
        BY <1>2, <3>1, <3>2, <3>4, <3>5, <3>6, RespondsJSON
    <2>5. \/ \E e \in DoRequestErrors \cup {Error("parse", 0)} : reply' = <<e>> /\ Respond(WriteErrorResponse(e))
          \/ \E a \in Answers(chosen) :
                LET resp == transformResponse(chosen, a) IN
                /\ ~Over /\ reply' = <<a>>
                /\ Respond(IF IsError(resp) THEN WriteErrorResponse(resp)
                           ELSE WriteJSONResponse(200, FormatChatCompletionResponse(resp)))
      BY <1>4 DEF SendCompletion
    <2>6. CASE \E e \in DoRequestErrors \cup {Error("parse", 0)} : reply' = <<e>> /\ Respond(WriteErrorResponse(e))
      BY <2>3, <2>6
    <2>7. CASE \E a \in Answers(chosen) :
                LET resp == transformResponse(chosen, a) IN
                /\ ~Over /\ reply' = <<a>>
                /\ Respond(IF IsError(resp) THEN WriteErrorResponse(resp)
                           ELSE WriteJSONResponse(200, FormatChatCompletionResponse(resp)))
      <3>1. PICK a \in Answers(chosen) :
                /\ reply' = <<a>>
                /\ Respond(IF IsError(transformResponse(chosen, a)) THEN WriteErrorResponse(transformResponse(chosen, a))
                           ELSE WriteJSONResponse(200, FormatChatCompletionResponse(transformResponse(chosen, a))))
        BY <2>7
      <3>2. CASE IsError(transformResponse(chosen, a))
        BY <2>3, <3>1, <3>2
      <3>3. CASE ~IsError(transformResponse(chosen, a))
        BY <2>4, <3>1, <3>3
      <3> QED
        BY <3>2, <3>3
    <2> QED
      BY <2>5, <2>6, <2>7
  <1> QED
    BY <1>3, <1>4

(* One event of an error. *)
LEMMA FailureItem ==
    ASSUME NEW e
    PROVE  /\ IsSeq(<<SSEError(e)>>) /\ <<SSEError(e)>> # <<>>
           /\ \A x \in Range(<<SSEError(e)>>) : Writable(x) /\ "body" \notin DOMAIN x
           /\ \A i \in DOMAIN <<SSEError(e)>> : "done" \notin DOMAIN <<SSEError(e)>>[i]
  <1> DEFINE f == SSEError(e)
  <1>1. DOMAIN f = {"failure"}
    BY ItemFields
  <1> HIDE DEF f
  <1>2. IsSeq(<<f>>) /\ <<f>> # <<>> /\ DOMAIN <<f>> = {1} /\ <<f>>[1] = f /\ Range(<<f>>) = {f}
    BY OneItem
  <1>3. Writable(f) /\ "body" \notin DOMAIN f /\ "done" \notin DOMAIN f
    BY <1>1 DEF Writable
  <1> QED
    BY <1>2, <1>3 DEF f

(* A completion with a stream: the stream is opened, or the error becomes  *)
(* the response.                                                           *)
LEMMA StreamStep ==
    ASSUME ChatInv, StreamCompletion
    PROVE  ChatInv'
  <1>1. /\ handler = "selected"
        /\ UNCHANGED <<call, ctxState, net, guard, chosen, nextEvent, holding, channel, closed, written>>
    BY DEF StreamCompletion
  <1>2. Waiting /\ sent = <<>> /\ reply = <<>> /\ producer = "none" /\ With(written.items, "done") = {}
    BY <1>1 DEF ChatInv, Reached, Waiting
  <1>3. CASE IsError(providerRequest)
    <2>1. Respond(<<SSEError(providerRequest)>>) /\ UNCHANGED <<sent, reply, script, producer>>
      BY <1>3 DEF StreamCompletion
    <2>2. Responding(<<SSEError(providerRequest)>>)
      BY <1>1, <1>2, <2>1, FailureItem, RespondingNow
    <2> QED
      BY <1>2, <2>2, FailureItem, RespondsPlain
  <1>4. CASE ~IsError(providerRequest)
    <2>1. sent' = <<providerRequest>>
      BY <1>4 DEF StreamCompletion
    <2>2. (sent' # <<>> => AskedRight(call, sent'[1])) /\ chosen \in ProviderNames
      BY <1>1, <1>4, <2>1, Asked
    <2>3. \/ \E e \in DoRequestErrors : reply' = <<e>> /\ Respond(<<SSEError(e)>>) /\ UNCHANGED <<script, producer>>
          \/ /\ ~Over /\ script' \in Streams(chosen) /\ producer' = "reading" /\ handler' = "streaming"
             /\ UNCHANGED <<reply, pending>>
      BY <1>4 DEF StreamCompletion
    <2>4. CASE \E e \in DoRequestErrors : reply' = <<e>> /\ Respond(<<SSEError(e)>>) /\ UNCHANGED <<script, producer>>
      <3>1. PICK e \in DoRequestErrors : Respond(<<SSEError(e)>>) /\ UNCHANGED <<script, producer>>
        BY <2>4
      <3>2. Responding(<<SSEError(e)>>)
        BY <1>1, <1>2, <2>2, <3>1, FailureItem, RespondingNow
      <3> QED
        BY <1>2, <3>2, FailureItem, RespondsPlain
    <2>5. CASE /\ ~Over /\ script' \in Streams(chosen) /\ producer' = "reading" /\ handler' = "streaming"
               /\ UNCHANGED <<reply, pending>>
      <3> USE DEF ChatInv
      <3>1. IsSeq(script')
        BY <2>2, <2>5, ChatAssumption
      <3>2. Live' = Live /\ ~Waiting' /\ Streaming' /\ handler # "writing" /\ handler' # "writing"
        BY <1>1, <2>5 DEF Live, Waiting, Streaming, net
      <3>3. pending = <<>> /\ pending' = <<>>
        BY <2>5, <3>2 DEF ChatTypes
      <3>4. ChatTypes'
        BY <1>1, <2>5, <3>1, <3>2 DEF ChatTypes, Live
      <3>5. Reached'
        BY <1>1, <2>2, <2>5, <3>2 DEF Reached, AskedRight
      <3>6. AnswersMatch'
        BY <1>1, <2>5 DEF AnswersMatch
      <3>7. StatusFits'
        <4>1. Live => written.items = <<>>
          BY <1>2 DEF Reached
        <4> QED
          BY <1>1, <3>2, <3>3, <4>1, NoItem DEF StatusFits, NoBody
      <3>8. channel = <<>> /\ nextEvent = 1 /\ Out = <<>> /\ ~closed
        BY <1>2 DEF Produced
      <3>9. Out' = <<>>
        BY <1>1, <3>8 DEF Out
      <3>10. Got' = <<>>
        <4>1. Gotten(script', chosen, nextEvent) = <<>>
          BY <3>1, <3>8, GottenBegins
        <4> QED
          BY <1>1, <4>1 DEF Got
      <3>11. ~EndsInError(<<>>) /\ Queued(<<>>) = 0
        BY NoItem DEF EndsInError, Queued
      <3>12. Produced'
        BY <1>1, <2>5, <3>8, <3>11 DEF Produced
      <3>13. Begins(<<>>, <<>>) /\ Feeds(<<>>, <<>>, <<>>) /\ NoneLost(<<>>, <<>>, 0, <<>>)
        BY <3>11, NoItem DEF Begins, Feeds, NoneLost
      <3>14. Held' = 0 /\ With(written'.items, "done") = {}
        BY <1>1, <1>2, <2>5 DEF Held
      <3>15. Linked'
        BY <1>1, <2>5, <3>8, <3>9, <3>10, <3>13, <3>14 DEF Linked
      <3>16. DoneExplained'
        BY <3>3, <3>14, NoItem DEF DoneExplained
      <3> QED
        BY <3>4, <3>5, <3>6, <3>7, <3>12, <3>15, <3>16
    <2> QED
      BY <2>3, <2>4, <2>5
  <1> QED
    BY <1>3, <1>4

-----------------------------------------------------------------------------
(* The handler during the stream and after *)

(* What is left of a channel ends in an error only if it did. *)
LEMMA EndsTail ==
    ASSUME NEW ch, IsSeq(ch), ch # <<>>, EndsInError(Tail(ch))
    PROVE  EndsInError(ch)
  <1>1. /\ IsSeq(Tail(ch)) /\ Len(Tail(ch)) = Len(ch) - 1 /\ Len(ch) >= 1
        /\ \A i \in 1..Len(ch) - 1 : Tail(ch)[i] = ch[i + 1]
        /\ Len(ch) = 1 => Tail(ch) = <<>>
    BY TailIsSeq
  <1>2. Len(ch) \in Nat
    BY SeqFacts
  <1>3. Tail(ch) # <<>> /\ IsError(Tail(ch)[Len(Tail(ch))])
    BY DEF EndsInError
  <1>4. Len(ch) - 1 \in 1..Len(ch) - 1 /\ (Len(ch) - 1) + 1 = Len(ch)
    BY <1>1, <1>2, <1>3
  <1>5. Tail(ch)[Len(ch) - 1] = ch[Len(ch)]
    BY <1>1, <1>4
  <1> QED
    BY <1>1, <1>3, <1>5 DEF EndsInError

(* The handler receives from the channel: a chunk is written, an error     *)
(* begins the end.                                                         *)
LEMMA ReceiveStep ==
    ASSUME ChatInv, Receive
    PROVE  ChatInv'
  <1> DEFINE chunk == Head(channel)
             rest == Tail(channel)
  <1>1. handler = "streaming" /\ channel # <<>> /\ channel' = rest /\ UNCHANGED handlerVars
    BY DEF Receive
  <1>2. IsSeq(channel) /\ IsSeq(written.items) /\ IsSeq(script) /\ nextEvent \in Nat \ {0}
    BY DEF ChatInv, ChatTypes
  <1>3. IsSeq(rest) /\ (EndsInError(rest) => EndsInError(channel))
    BY <1>1, <1>2, TailIsSeq, EndsTail
  <1>4. Streaming /\ ~Waiting /\ producer # "none" /\ With(written.items, "done") = {}
    BY <1>1 DEF Streaming, Waiting, ChatInv, Linked
  <1>5. ASSUME NEW items, IsSeq(items), items # <<>>, Respond(items), written' = written PROVE Responding(items)
    BY <1>1, <1>3, <1>4, <1>5 DEF Respond, Responding, handlerVars, net, ChatInv, Reached
  <1>6. reply' = reply
    BY <1>1 DEF handlerVars, net
  <1>7. CASE IsError(chunk)
    <2> DEFINE f == SSEError(chunk)
               d == SSEDone
               items == <<f, d>>
    <2>1. Respond(items) /\ written' = written
      BY <1>7 DEF Receive
    <2>2. DOMAIN f = {"failure"} /\ DOMAIN d = {"done"}
      BY ItemFields
    <2> HIDE DEF f, d
    <2>3. IsSeq(items) /\ items # <<>> /\ DOMAIN items = {1, 2} /\ items[1] = f /\ items[2] = d /\ Range(items) = {f, d}
      BY TwoItems
    <2> HIDE DEF items
    <2>4. Responding(items)
      BY <1>5, <2>1, <2>3
    <2>5. \A x \in Range(items) : Writable(x) /\ "body" \notin DOMAIN x
      BY <2>2, <2>3 DEF Writable
    <2>6. \A i \in DOMAIN items : "done" \in DOMAIN items[i] => i > 1 /\ "failure" \in DOMAIN items[i - 1]
      BY <2>2, <2>3
    <2> QED
      BY <1>4, <1>6, <2>4, <2>5, <2>6, RespondsPlain
  <1>8. CASE ~IsError(chunk) /\ (ctxState = "cancelled" \/ connection = "expired") /\ Respond(<<SSEDone>>) /\ written' = written
    <2> DEFINE d == SSEDone
               items == <<d>>
    <2>1. DOMAIN d = {"done"}
      BY ItemFields
    <2> HIDE DEF d
    <2>2. IsSeq(items) /\ items # <<>> /\ DOMAIN items = {1} /\ Range(items) = {d}
      BY OneItem
    <2> HIDE DEF items
    <2>3. Responding(items)
      BY <1>5, <1>8, <2>2 DEF items, d
    <2>4. \A x \in Range(items) : Writable(x) /\ "body" \notin DOMAIN x
      BY <2>1, <2>2 DEF Writable
    <2>5. ~Live
      BY <1>8 DEF Live
    <2> QED
      BY <1>4, <1>6, <2>3, <2>4, <2>5, RespondsPlain
  <1>9. CASE ~IsError(chunk) /\ handler' = "wrote" /\ written' = Write(FormatStreamChunk(chunk)) /\ pending' = pending
    <2> USE DEF ChatInv
    <2> DEFINE x == FormatStreamChunk(chunk)
               old == written.items
    <2>1. DOMAIN x = {"chunk"} /\ x.chunk = chunk
      BY ItemFields
    <2> HIDE DEF x
    <2>2. Streaming' /\ ~Waiting' /\ pending = <<>> /\ pending' = <<>>
      BY <1>1, <1>9 DEF Streaming, Waiting, ChatTypes
    <2>3. IsSeq(Out) /\ IsSeq(Got)
      BY <1>2, ChunksAppend, GottenBegins DEF Out, Got
    <2>4. Got' = Got /\ Held' = Held /\ ctxState' = ctxState /\ connection' = connection /\ guard' = guard /\ producer' = producer /\ holding' = holding
          /\ closed' = closed /\ call' = call /\ chosen' = chosen /\ sent' = sent /\ script' = script /\ nextEvent' = nextEvent
      BY <1>1 DEF Got, Held, handlerVars, net
    <2>5. IF guard = "returned" THEN written' = written ELSE written'.items = Append(old, x)
      BY <1>9 DEF Write, x
    <2>6. /\ IsSeq(Append(old, x)) /\ Range(Append(old, x)) = Range(old) \cup {x}
          /\ ChunksOf(Append(old, x)) = Append(Out, chunk)
      BY <1>2, <2>1, AppendIsSeq, RangeAppend, ChunksAppend DEF Out
    <2>7. With(Append(old, x), "done") = {}
      <3>1. With(Append(old, x), "done") = With(old, "done") \cup (IF "done" \in DOMAIN x THEN {Len(old) + 1} ELSE {})
        BY <1>2, WithAppend
      <3>2. "done" \notin DOMAIN x
        BY <2>1
      <3> QED
        BY <1>4, <3>1, <3>2
    <2>8. /\ IsSeq(written'.items) /\ Range(written'.items) \subseteq Range(old) \cup {x}
          /\ With(written'.items, "done") = {}
          /\ Out' = IF guard = "returned" THEN Out ELSE Append(Out, chunk)
      BY <1>2, <1>4, <2>5, <2>6, <2>7 DEF Out
    <2>9. Live => guard # "returned"
      BY <1>1 DEF ChatTypes, Live
    <2>10. ChatTypes'
      <3>1. IsSeq(channel') /\ IsSeq(pending') /\ handler' # "writing" /\ Range(pending') = {}
        BY <1>1, <1>3, <1>9, <2>2, NoItem
      <3> QED
        BY <1>1, <1>9, <2>2, <2>4, <2>8, <2>9, <3>1 DEF ChatTypes, Live
    <2>11. Reached'
      BY <1>1, <1>9, <2>2, <2>4 DEF Reached
    <2>12. AnswersMatch'
      <3>1. ~Carries(x)
        BY <2>1 DEF Carries
      <3> QED
        BY <1>6, <2>2, <2>4, <2>8, <3>1, NoItem DEF AnswersMatch, Repeats
    <2>13. StatusFits'
      <3>1. Live /\ call.path = "chat" => NoBody(old)
        BY <1>1 DEF StatusFits, Stage
      <3>2. "body" \notin DOMAIN x
        BY <2>1
      <3> QED
        BY <2>2, <2>4, <2>8, <3>1, <3>2, NoItem DEF StatusFits, NoBody, Live
    <2>14. Produced'
      BY <1>1, <1>3, <1>4, <2>4 DEF Produced
    <2>15. /\ EndsInError(rest) = EndsInError(channel) /\ Queued(rest) = Queued(channel) - 1
           /\ Begins(Out, Got) /\ Feeds(channel, Out, Got) => Feeds(rest, Append(Out, chunk), Got) /\ Begins(Append(Out, chunk), Got)
      BY <1>1, <1>2, <1>9, <2>3, FeedsTail
    <2>16. NoneLost(Out, channel, Held, Got) => NoneLost(Append(Out, chunk), rest, Held, Got)
      <3>1. Len(Append(Out, chunk)) = Len(Out) + 1 /\ Len(Out) \in Nat /\ Queued(channel) \in Int /\ Held \in Int
        BY <1>2, <2>3, AppendIsSeq, SeqFacts DEF Queued, Held
      <3> QED
        BY <2>15, <3>1 DEF NoneLost
    <2> HIDE DEF chunk, rest
    <2>17. Linked'
      <3>1. CASE guard = "returned"
        BY <1>4, <2>4, <2>8, <2>9, <3>1 DEF Linked, Live
      <3>2. CASE guard # "returned"
        <4>1. Begins(Out, Got) /\ Feeds(channel, Out, Got)
          BY <1>4, <3>2 DEF Linked
        <4>2. Out' = Append(Out, chunk) /\ channel' = rest
          BY <1>1, <2>8, <3>2
        <4>3. Feeds(rest, Append(Out, chunk), Got) /\ Begins(Append(Out, chunk), Got)
          BY <2>15, <4>1
        <4> QED
          BY <1>4, <2>4, <2>8, <2>15, <2>16, <3>2, <4>2, <4>3 DEF Linked, Live
      <3> QED
        BY <3>1, <3>2
    <2>18. DoneExplained'
      BY <2>2, <2>8, NoItem DEF DoneExplained
    <2> QED
      BY <2>10, <2>11, <2>12, <2>13, <2>14, <2>17, <2>18
  <1> QED
    BY <1>7, <1>8, <1>9 DEF Receive

(* After a chunk with a finish reason the handler writes the done marker;  *)
(* after any other it goes on.                                             *)
LEMMA AfterChunkStep ==
    ASSUME ChatInv, AfterChunk
    PROVE  ChatInv'
  <1> USE DEF ChatInv
  <1>1. /\ handler = "wrote" /\ handler' = IF ctxState = "live" THEN "streaming" ELSE "ended"
        /\ UNCHANGED <<handlerVars, pending, channel, written>>
    BY DEF AfterChunk, Over
  <1>2. Streaming /\ ~Waiting' /\ handler' # "writing" /\ (Live => Streaming')
    BY <1>1 DEF Streaming, Waiting, Live
  <1>3. ChatTypes'
    BY <1>1, <1>2 DEF ChatTypes, Live, handlerVars, net
  <1>4. Reached'
    BY <1>1, <1>2 DEF Reached, handlerVars, net
  <1>5. AnswersMatch'
    BY <1>1 DEF AnswersMatch, handlerVars, net
  <1>6. StatusFits'
    BY <1>1 DEF StatusFits, Live, handlerVars, net, Stage
  <1>7. Out' = Out /\ Got' = Got /\ Held' = Held /\ Finished' = Finished
    BY <1>1 DEF Out, Got, Held, Finished, handlerVars, net
  <1>8. Produced'
    BY <1>1, <1>7 DEF Produced, handlerVars, net
  <1>9. Linked'
    BY <1>1, <1>2, <1>7 DEF Linked, Live, handlerVars, net
  <1>10. DoneExplained'
    BY <1>1, <1>7 DEF DoneExplained, Live, Explained, handlerVars, net
  <1> QED
    BY <1>3, <1>4, <1>5, <1>6, <1>8, <1>9, <1>10

(* The channel is closed and empty: the handler writes the done marker.    *)
LEMMA StreamClosedStep ==
    ASSUME ChatInv, StreamClosed
    PROVE  ChatInv'
  <1>1. /\ handler = "streaming" /\ channel = <<>> /\ closed /\ Respond(<<SSEDone>>)
        /\ UNCHANGED <<handlerVars, channel, written>>
    BY DEF StreamClosed
  <1>2. Streaming /\ producer = "ended" /\ reply' = reply
    BY <1>1 DEF Streaming, ChatInv, Produced, handlerVars, net
  <1>3. Live => Finished
    <2> SUFFICES ASSUME Live PROVE Finished
      OBVIOUS
    <2>1. guard # "returned"
      BY <1>1 DEF ChatInv, ChatTypes, Live
    <2>2. ~EndsInError(channel) /\ Queued(channel) = 0 /\ Held = 0
      BY <1>1, <1>2, NoItem DEF EndsInError, Queued, Held
    <2>3. EndsWithReason(Got) /\ Begins(Out, Got) /\ NoneLost(Out, channel, Held, Got)
      BY <1>1, <1>2, <2>1, <2>2 DEF ChatInv, Linked
    <2>4. IsSeq(Out) /\ IsSeq(Got) /\ Len(Out) \in Nat /\ Len(Got) \in Nat
      BY ChunksAppend, GottenBegins, SeqFacts DEF ChatInv, ChatTypes, Out, Got
    <2>5. Len(Out) = Len(Got)
      BY <2>2, <2>3, <2>4 DEF NoneLost
    <2>6. Out = Got
      BY <2>3, <2>4, <2>5, SeqSame DEF Begins
    <2> QED
      BY <2>3, <2>6 DEF Finished
  <1> DEFINE d == SSEDone
             items == <<d>>
  <1>4. DOMAIN d = {"done"}
    BY ItemFields
  <1> HIDE DEF d
  <1>5. IsSeq(items) /\ items # <<>> /\ Range(items) = {d}
    BY OneItem
  <1> HIDE DEF items
  <1>6. Responding(items)
    <2>1. Respond(items)
      BY <1>1 DEF items, d
    <2> QED
      BY <1>1, <1>5, <2>1 DEF Respond, Responding, handlerVars, net, ChatInv, ChatTypes, Reached
  <1>7. \A x \in Range(items) : Writable(x) /\ "body" \notin DOMAIN x
    BY <1>4, <1>5 DEF Writable
  <1> QED
    BY <1>2, <1>3, <1>6, <1>7, RespondsPlain

(* What the handler writes after the loop is no chunk, and counts while    *)
(* the context lives.                                                      *)
LEMMA WritesStep ==
    ASSUME ChatInv, HandlerWrites
    PROVE  ChatInv'
  <1> USE DEF ChatInv
  <1> DEFINE x == Head(pending)
             rest == Tail(pending)
             old == written.items
             new == written'.items
  <1>1. /\ handler = "writing" /\ written' = WriteItem(x) /\ pending' = rest
        /\ handler' = (IF rest = <<>> THEN "ended" ELSE "writing") /\ UNCHANGED <<handlerVars, channel>>
    BY DEF HandlerWrites
  <1>2. pending # <<>> /\ IsSeq(pending) /\ IsSeq(old)
    BY <1>1 DEF ChatTypes
  <1>3. /\ IsSeq(rest) /\ x = pending[1] /\ Len(rest) = Len(pending) - 1 /\ Len(pending) >= 1
        /\ \A i \in 1..Len(pending) - 1 : rest[i] = pending[i + 1]
    BY <1>2, TailIsSeq
  <1>4. x \in Range(pending) /\ Range(rest) \subseteq Range(pending)
    BY <1>2, RangeTail
  <1>5. Writable(x) /\ \A y \in Range(rest) : Writable(y)
    BY <1>4 DEF ChatTypes
  <1>6. Len(pending) \in Nat /\ DOMAIN pending = 1..Len(pending) /\ DOMAIN rest = 1..Len(pending) - 1
    BY <1>2, <1>3, SeqFacts
  <1>7. "status" \in DOMAIN x => written' = WriteHeader(x.status) /\ new = old
    BY <1>1 DEF WriteItem, WriteHeader
  <1>8. "status" \notin DOMAIN x => written' = Write(x) /\ new = IF guard = "returned" THEN old ELSE Append(old, x)
    BY <1>1 DEF WriteItem, Write
  <1> HIDE DEF x, rest
  <1>9. /\ IsSeq(Append(old, x)) /\ Range(Append(old, x)) = Range(old) \cup {x} /\ ChunksOf(Append(old, x)) = ChunksOf(old)
        /\ \A f : With(Append(old, x), f) = With(old, f) \cup (IF f \in DOMAIN x THEN {Len(old) + 1} ELSE {})
    <2>1. "chunk" \notin DOMAIN x
      BY <1>5 DEF Writable
    <2>2. IsSeq(Append(old, x)) /\ Range(Append(old, x)) = Range(old) \cup {x}
      BY <1>2, AppendIsSeq, RangeAppend
    <2>3. ChunksOf(Append(old, x)) = ChunksOf(old)
      BY <1>2, <2>1, ChunksAppend
    <2>4. \A f : With(Append(old, x), f) = With(old, f) \cup (IF f \in DOMAIN x THEN {Len(old) + 1} ELSE {})
      BY <1>2, WithAppend
    <2> QED
      BY <2>2, <2>3, <2>4
  <1>10. /\ IsSeq(new) /\ Range(new) \subseteq Range(old) \cup {x} /\ Out' = Out
         /\ \A f : With(new, f) = With(old, f) \/ (f \in DOMAIN x /\ With(new, f) # {})
         /\ \A f : With(old, f) \subseteq With(new, f)
    <2>1. CASE new = old
      BY <1>2, <2>1 DEF Out
    <2>2. CASE new = Append(old, x)
      BY <1>9, <2>2 DEF Out
    <2> QED
      BY <1>7, <1>8, <2>1, <2>2
  <1>11. Live => guard # "returned"
    BY <1>1 DEF ChatTypes, Live
  <1>12. ChatTypes'
    <2>1. handler' \in {"writing", "ended"} /\ (handler' = "writing" <=> pending' # <<>>)
      BY <1>1
    <2>2. ctxState' = "live" => guard' = "serving"
      BY <1>1 DEF ChatTypes, handlerVars, net
    <2> QED
      BY <1>1, <1>3, <1>5, <1>10, <2>1, <2>2 DEF ChatTypes, handlerVars, net
  <1>13. ~Waiting' /\ ~Streaming' /\ Got' = Got /\ Finished' = Finished /\ Live' = Live
    BY <1>1, <1>10 DEF Waiting, Streaming, Got, Finished, Live, handlerVars, net
  <1>14. Reached'
    BY <1>1, <1>13 DEF Reached, handlerVars, net
  <1>15. AnswersMatch'
    <2>1. reply' = reply /\ chosen' = chosen
      BY <1>1 DEF handlerVars, net
    <2> QED
      BY <1>1, <1>4, <1>10, <2>1 DEF AnswersMatch
  <1>16. Produced'
    BY <1>1, <1>10 DEF Produced, handlerVars, net
  <1>17. Linked'
    BY <1>10, <1>13 DEF Linked
  <1>18. StatusFits'
    <2> SUFFICES ASSUME Live, call.path = "chat"
                 PROVE  (NoBody(new) /\ NoBody(pending')) \/ (\E s, b : Matching(s, b) /\ Stage(s, b)')
      BY <1>1, <1>13 DEF StatusFits, handlerVars, net
    <2>1. CASE NoBody(old) /\ NoBody(pending)
      BY <1>1, <1>4, <1>10, <2>1 DEF NoBody
    <2>2. ASSUME NEW s, NEW b, Matching(s, b), Stage(s, b) PROVE Stage(s, b)'
      <3> DEFINE st == [status |-> s]
                 bd == [body |-> b]
      <3>1. DOMAIN st = {"status"} /\ st.status = s /\ DOMAIN bd = {"body"}
        BY ItemFields
      <3>2. CASE pending = <<st, bd>> /\ written.status = 0 /\ old = <<>>
        <4>1. x = st /\ rest = <<bd>> /\ <<bd>> # <<>>
          BY <3>2 DEF x, rest
        <4> HIDE DEF st
        <4>2. written' = WriteHeader(s) /\ new = old
          BY <1>7, <3>1, <4>1
        <4>3. written'.status = s
          BY <1>11, <3>2, <4>2 DEF WriteHeader
        <4>4. handler' = "writing" /\ pending' = <<[body |-> b]>>
          BY <1>1, <4>1
        <4> QED
          BY <3>2, <4>2, <4>3, <4>4 DEF Stage
      <3>3. CASE pending = <<bd>> /\ written.status = s /\ old = <<>>
        <4>1. x = bd /\ rest = <<>>
          BY <3>3 DEF x, rest
        <4>2. "status" \notin DOMAIN x
          BY <3>1, <4>1
        <4>3. written' = Write(x) /\ new = Append(<<>>, x)
          BY <1>8, <1>11, <3>3, <4>2
        <4>4. new = <<[body |-> b]>>
          BY <4>1, <4>3
        <4>5. s # 0
          BY <2>2 DEF Matching
        <4>6. written'.status = s
          BY <1>11, <3>3, <4>3, <4>5 DEF Write
        <4>7. handler' = "ended" /\ pending' = <<>>
          BY <1>1, <4>1
        <4> QED
          BY <4>4, <4>6, <4>7 DEF Stage
      <3> QED
        BY <1>1, <2>2, <3>2, <3>3 DEF Stage
    <2> QED
      BY <2>1, <2>2 DEF StatusFits
  <1>19. DoneExplained'
    <2> SUFFICES ASSUME Live
                 PROVE  /\ With(new, "done") # {} => With(new, "failure") # {} \/ Finished
                        /\ \A i \in DOMAIN rest : "done" \in DOMAIN rest[i] =>
                              (i > 1 /\ "failure" \in DOMAIN rest[i - 1]) \/ With(new, "failure") # {} \/ Finished
      BY <1>1, <1>13 DEF DoneExplained, Explained
    <2>1. With(old, "failure") # {} => With(new, "failure") # {}
      BY <1>10
    <2>2. ASSUME NEW i \in DOMAIN pending, "done" \in DOMAIN pending[i]
          PROVE  (i > 1 /\ "failure" \in DOMAIN pending[i - 1]) \/ With(new, "failure") # {} \/ Finished
      BY <2>1, <2>2 DEF DoneExplained, Explained
    <2>3. With(new, "done") # {} => With(new, "failure") # {} \/ Finished
      <3>1. CASE With(new, "done") = With(old, "done")
        BY <2>1, <3>1 DEF DoneExplained
      <3>2. CASE "done" \in DOMAIN x
        <4>1. 1 \in DOMAIN pending /\ "done" \in DOMAIN pending[1] /\ ~(1 > 1)
          BY <1>3, <1>6, <3>2
        <4> QED
          BY <2>2, <4>1
      <3> QED
        BY <1>10, <3>1, <3>2
    <2>4. "failure" \in DOMAIN x => With(new, "failure") # {}
      <3> SUFFICES ASSUME "failure" \in DOMAIN x PROVE With(new, "failure") # {}
        OBVIOUS
      <3>1. "status" \notin DOMAIN x
        BY <1>5 DEF Writable
      <3>2. new = Append(old, x)
        BY <1>8, <1>11, <3>1
      <3>3. With(Append(old, x), "failure") = With(old, "failure") \cup {Len(old) + 1}
        BY <1>9
      <3> QED
        BY <3>2, <3>3
    <2>5. ASSUME NEW i \in DOMAIN rest, "done" \in DOMAIN rest[i]
          PROVE  (i > 1 /\ "failure" \in DOMAIN rest[i - 1]) \/ With(new, "failure") # {} \/ Finished
      <3>1. i + 1 \in DOMAIN pending /\ rest[i] = pending[i + 1] /\ (i + 1) - 1 = i
        BY <1>3, <1>6
      <3>2. "failure" \in DOMAIN pending[i] \/ With(new, "failure") # {} \/ Finished
        BY <2>2, <2>5, <3>1
      <3>3. CASE i = 1
        BY <1>3, <2>4, <3>2, <3>3
      <3>4. CASE i # 1
        <4>1. i - 1 \in 1..Len(pending) - 1 /\ (i - 1) + 1 = i /\ i > 1
          BY <1>6, <3>4
        <4>2. rest[i - 1] = pending[i]
          BY <1>3, <4>1
        <4> QED
          BY <3>2, <4>1, <4>2
      <3> QED
        BY <3>3, <3>4
    <2> QED
      BY <2>3, <2>5
  <1> QED
    BY <1>12, <1>14, <1>15, <1>16, <1>17, <1>18, <1>19

(* The behaviours of one request, which are those of Services_MC.          *)
ChatSpec == (\E c \in Calls : ChatInit(c)) /\ [][ChatNext]_chatVars

(* Every step of the request keeps the invariant.                          *)
LEMMA ChatStep ==
    ASSUME ChatInv, [ChatNext]_chatVars
    PROVE  ChatInv'
  <1>1. CASE UNCHANGED chatVars
    <2> USE <1>1 DEF chatVars, net, ChatInv
    <2>1. ChatTypes'
      BY DEF ChatTypes, Live
    <2>2. Reached'
      BY DEF Reached, Waiting, Live
    <2>3. AnswersMatch'
      BY DEF AnswersMatch
    <2>4. StatusFits'
      BY DEF StatusFits, Live, Stage
    <2>5. Out' = Out /\ Got' = Got /\ Held' = Held /\ Finished' = Finished /\ Streaming' = Streaming /\ Live' = Live
      BY DEF Out, Got, Held, Finished, Streaming, Live
    <2>6. Produced'
      BY <2>5 DEF Produced
    <2>7. Linked'
      BY <2>5 DEF Linked
    <2>8. DoneExplained'
      BY <2>5 DEF DoneExplained, Explained
    <2> QED
      BY <2>1, <2>2, <2>3, <2>4, <2>6, <2>7, <2>8
  <1>2. CASE CORSMiddleware \/ ServeProbe \/ handleChatRequest \/ SelectProvider \/ HandlerWrites
    BY <1>2, CORSStep, ProbeStep, ParseStep, SelectStep, WritesStep
  <1>3. CASE Receive \/ AfterChunk \/ StreamClosed \/ SendCompletion \/ StreamCompletion
    BY <1>3, ReceiveStep, AfterChunkStep, StreamClosedStep, SendStep, StreamStep
  <1>4. CASE Read \/ ReadCancelled \/ SendChunk \/ GiveUp \/ SendError
    BY <1>4, ReadStep, ReadCancelledStep, SendChunkStep, GiveUpStep, SendErrorStep
  <1>5. CASE \/ HandlerDone \/ ContextDone \/ WriteTimeoutStatus \/ WriteTimeoutBody
             \/ ConnectionExpires \/ Deadline \/ ClientLeaves
    BY <1>5, GuardStep
  <1> QED
    BY <1>1, <1>2, <1>3, <1>4, <1>5 DEF ChatNext, Running

(* AnswerIsFaithful: only a valid POST reaches a provider, with the role   *)
(* and the words of each message (handleChatRequest and the adapters'      *)
(* transforms); an answer carries the text of the provider's; the status   *)
(* is 200 with an answer and with nothing else, if the request ran its     *)
(* course in time; the chunks of a stream go out as read, none missing     *)
(* between two; and a stream the provider broke off is not marked done     *)
(* (handleStreamRequest, StreamCompletion).                                *)
THEOREM AnswersAreFaithful == ChatSpec => []AnswerIsFaithful
  <1>1. (\E c \in Calls : ChatInit(c)) => ChatInv
    BY ChatStarts
  <1>2. ChatInv /\ [ChatNext]_chatVars => ChatInv'
    BY ChatStep
  <1>3. ChatInv => AnswerIsFaithful
    BY ChatMeans
  <1> QED
    BY <1>1, <1>2, <1>3, PTL DEF ChatSpec

=============================================================================
