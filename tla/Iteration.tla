----------------------------- MODULE Iteration ------------------------------
(***************************************************************************)
(* Facts about counting loops: how a claim is carried from 0 to N, and     *)
(* that a function which takes each value from the one before exists.      *)
(* They take sets and functions for what is usually a predicate or an      *)
(* operator, so that the provers can use them.  Then what joining a        *)
(* sequence of sequences gives.                                            *)
(***************************************************************************)
EXTENDS Integers, Sequences, SequencesExt, SequenceTheorems, WellFoundedInduction, TLAPS

(* A set of naturals that is not empty has a least element. *)
LEMMA LeastNatural ==
  ASSUME NEW T, T \subseteq Nat, T # {}
  PROVE  \E x \in T : \A y \in T : x <= y
<1> DEFINE R == {ss \in Nat \X Nat : ss[1] < ss[2]}
<1>1. IsWellFoundedOn(R, Nat)
  BY NatLessThanWellFounded DEF OpToRel
<1>2. PICK x \in T : \A y \in T : ~(<<y, x>> \in R)
  <2> HIDE DEF R
  <2> QED BY <1>1, WFMin
<1>3. \A y \in T : ~(y < x)
  BY <1>2
<1> QED BY <1>3

(* What is true of 0, and of i if it is true of i - 1, is true up to N. *)
LEMMA UpTo ==
  ASSUME NEW N \in Nat, NEW T,
         0 \in T, \A i \in 1 .. N : i - 1 \in T => i \in T
  PROVE  0 .. N \subseteq T
<1> DEFINE F == (0 .. N) \ T
<1> SUFFICES ASSUME F # {} PROVE FALSE
  OBVIOUS
<1>1. PICK x \in F : \A y \in F : x <= y
  <2>1. F \subseteq Nat
    OBVIOUS
  <2> QED BY <2>1, LeastNatural
<1>2. x \in 1 .. N /\ x - 1 \in 0 .. N
  OBVIOUS
<1>3. x - 1 \in T
  BY <1>1, <1>2
<1> QED BY <1>2, <1>3

(* The steps of a loop over 1 .. N with values in S, and that g holds the    *)
(* values of the loop that starts with a and takes these steps              *)
Steps(S, N) == [S \X (1 .. N) -> S]

Iterates(g, S, N, a, h) ==
  /\ g \in [0 .. N -> S]
  /\ g[0] = a
  /\ \A i \in 1 .. N : g[i] = h[<<g[i - 1], i>>]

(* Every such loop has values. *)
LEMMA Iterated ==
  ASSUME NEW N \in Nat, NEW S, NEW a \in S, NEW h \in Steps(S, N)
  PROVE  \E g : Iterates(g, S, N, a, h)
<1> USE DEF Steps
<1> DEFINE Runs(g, k) == g[0] = a /\ \A i \in 1 .. k : g[i] = h[<<g[i - 1], i>>]
           T == {k \in 0 .. N : \E g \in [0 .. k -> S] : Runs(g, k)}
<1>1. 0 \in T
  <2> DEFINE g == [i \in 0 .. 0 |-> a]
  <2>1. g \in [0 .. 0 -> S] /\ Runs(g, 0)
    OBVIOUS
  <2> HIDE DEF g
  <2> QED BY <2>1
<1>2. ASSUME NEW k \in 1 .. N, k - 1 \in T PROVE k \in T
  <2>1. PICK f \in [0 .. k - 1 -> S] : Runs(f, k - 1)
    BY <1>2
  <2> DEFINE v == h[<<f[k - 1], k>>]
             g == [i \in 0 .. k |-> IF i = k THEN v ELSE f[i]]
  <2>2. v \in S
    OBVIOUS
  <2>3. g \in [0 .. k -> S]
    BY <2>2
  <2>4. g[0] = a
    BY <2>1
  <2>5. ASSUME NEW i \in 1 .. k PROVE g[i] = h[<<g[i - 1], i>>]
    <3>1. CASE i = k
      <4>1. k - 1 \in 0 .. k /\ k - 1 # k /\ k \in 0 .. k
        OBVIOUS
      <4>2. g[k] = v /\ g[k - 1] = f[k - 1]
        BY <4>1
      <4> QED BY <3>1, <4>2
    <3>2. CASE i # k
      <4>1. i \in 1 .. k - 1 /\ i - 1 \in 0 .. k - 1 /\ i - 1 # k
        BY <3>2
      <4> QED BY <2>1, <4>1, <3>2
    <3> QED BY <3>1, <3>2
  <2>6. Runs(g, k)
    BY <2>4, <2>5
  <2> HIDE DEF g
  <2> QED BY <2>3, <2>6
<1>3. N \in T
  <2> HIDE DEF T
  <2> QED BY <1>1, <1>2, UpTo
<1>4. PICK g \in [0 .. N -> S] : Runs(g, N)
  BY <1>3
<1> QED BY <1>4 DEF Iterates

-----------------------------------------------------------------------------
(* Sequences of sequences *)

(* Concatenation under a name, so that the provers can be kept from looking  *)
(* into it.                                                                 *)
Joined(s, t) == s \o t

(* g holds what has been joined of seqs after each of its sequences. *)
Joins(g, seqs) ==
  /\ g[0] = <<>>
  /\ \A i \in 1 .. Len(seqs) : g[i] = Joined(g[i - 1], seqs[i])

(* Joining two sequences gives a sequence; the empty one changes nothing. *)
LEMMA JoinedType ==
  ASSUME NEW B, NEW s \in Seq(B), NEW t \in Seq(B)
  PROVE  Joined(s, t) \in Seq(B) /\ Joined(<<>>, s) = s /\ Joined(s, <<>>) = s
BY ConcatProperties, ConcatEmptySeq DEF Joined

(* It does not matter which two of three are joined first. *)
LEMMA JoinedAssociative ==
  ASSUME NEW B, NEW s \in Seq(B), NEW t \in Seq(B), NEW u \in Seq(B)
  PROVE  Joined(Joined(s, t), u) = Joined(s, Joined(t, u))
BY ConcatAssociative DEF Joined

(* The recursion of FlattenSeq has the values that its definition asks for. *)
LEMMA FlattenIsDefined ==
  ASSUME NEW B, NEW seqs \in Seq(Seq(B))
  PROVE  \E g \in [0 .. Len(seqs) -> Seq(B)] :
           Joins(g, seqs) /\ FlattenSeq(seqs) = g[Len(seqs)]
<1> DEFINE n == Len(seqs)
           S == Seq(B)
           h == [s \in S \X (1 .. n) |-> Joined(s[1], seqs[s[2]])]
<1>0. n \in Nat /\ <<>> \in S /\ \A i \in 1 .. n : seqs[i] \in S
  OBVIOUS
<1>1. \A s, t \in S : Joined(s, t) \in S /\ Joined(<<>>, s) = s
  BY JoinedType
<1> HIDE DEF S
<1>2. h \in Steps(S, n)
  <2> HIDE DEF n
  <2> QED BY <1>0, <1>1 DEF Steps
<1>3. PICK g \in [0 .. n -> S] : g[0] = <<>> /\ \A i \in 1 .. n : g[i] = h[<<g[i - 1], i>>]
  <2> HIDE DEF h, n
  <2>1. \E g : Iterates(g, S, n, <<>>, h)
    BY <1>0, <1>2, Iterated
  <2> QED BY <2>1 DEF Iterates
<1>4. ASSUME NEW i \in 1 .. n PROVE g[i] = Joined(g[i - 1], seqs[i])
  <2> HIDE DEF n
  <2>1. i - 1 \in 0 .. n
    BY <1>0
  <2>2. <<g[i - 1], i>> \in S \X (1 .. n)
    BY <1>0, <1>3, <2>1
  <2>3. h[<<g[i - 1], i>>] = Joined(g[i - 1], seqs[i])
    BY <2>2
  <2> HIDE DEF h
  <2> QED BY <1>3, <2>3
<1>5. FlattenSeq(seqs) = g[n]
  <2>1. CASE n = 0
    <3>1. seqs = <<>>
      BY <2>1
    <3> QED BY <1>3, <2>1, <3>1 DEF FlattenSeq
  <2>2. CASE n # 0
    <3> DEFINE Body(f) == [i \in 1 .. n |-> IF i = 1 THEN seqs[i]
                                           ELSE Joined(f[i - 1], seqs[i])]
               flatten == CHOOSE f : f = Body(f)
               f0 == [i \in 1 .. n |-> g[i]]
    <3>0. FlattenSeq(seqs) = flatten[n]
      BY <2>2 DEF FlattenSeq, Joined
    <3> HIDE DEF n
    <3>1. g[1] = seqs[1]
      BY <1>0, <1>1, <1>3, <1>4, <2>2
    <3>2. ASSUME NEW i \in 1 .. n
          PROVE  f0[i] = IF i = 1 THEN seqs[i] ELSE Joined(f0[i - 1], seqs[i])
      BY <1>0, <1>4, <3>1
    <3>3. f0 = Body(f0)
      BY <3>2
    <3>4. flatten = Body(flatten)
      <4> HIDE DEF f0
      <4> QED BY <3>3
    <3> HIDE DEF flatten
    <3>5. ASSUME NEW i \in 1 .. n
          PROVE  flatten[i] = IF i = 1 THEN seqs[i] ELSE Joined(flatten[i - 1], seqs[i])
      <4>1. flatten[i] = Body(flatten)[i]
        BY <3>4
      <4> QED BY <4>1
    <3> DEFINE T == {i \in 0 .. n : i = 0 \/ flatten[i] = g[i]}
    <3>6. ASSUME NEW i \in 1 .. n, i - 1 \in T PROVE i \in T
      BY <1>0, <1>4, <3>1, <3>5, <3>6
    <3>7. 0 .. n \subseteq T
      <4>1. 0 \in T
        BY <1>0
      <4> HIDE DEF T
      <4> QED BY <1>0, <3>6, <4>1, UpTo
    <3>8. flatten[n] = g[n]
      BY <1>0, <2>2, <3>7
    <3> QED BY <3>0, <3>8 DEF n
  <2> QED BY <2>1, <2>2
<1> QED BY <1>3, <1>4, <1>5 DEF Joins, S

(* Sequences of B's joined give a sequence of B's. *)
LEMMA FlattenType ==
  ASSUME NEW B, NEW seqs \in Seq(Seq(B))
  PROVE  FlattenSeq(seqs) \in Seq(B)
<1>1. Len(seqs) \in 0 .. Len(seqs)
  OBVIOUS
<1> QED BY <1>1, FlattenIsDefined

(* No sequences give the empty one. *)
LEMMA FlattenEmpty == FlattenSeq(<<>>) = <<>>
BY DEF FlattenSeq

(* What is appended last comes out last. *)
LEMMA FlattenAppend ==
  ASSUME NEW B, NEW seqs \in Seq(Seq(B)), NEW x \in Seq(B)
  PROVE  FlattenSeq(Append(seqs, x)) = Joined(FlattenSeq(seqs), x)
<1> DEFINE n == Len(seqs)
           more == Append(seqs, x)
<1>0. /\ n \in Nat /\ more \in Seq(Seq(B)) /\ Len(more) = n + 1
      /\ \A i \in 1 .. n : more[i] = seqs[i]
      /\ more[n + 1] = x
  BY AppendProperties
<1> HIDE DEF more
<1>1. PICK g \in [0 .. n -> Seq(B)] : Joins(g, seqs) /\ FlattenSeq(seqs) = g[n]
  BY FlattenIsDefined
<1>2. PICK f \in [0 .. n + 1 -> Seq(B)] : Joins(f, more) /\ FlattenSeq(more) = f[n + 1]
  BY <1>0, FlattenIsDefined
<1>3. /\ g[0] = <<>> /\ f[0] = <<>>
      /\ \A i \in 1 .. n : g[i] = Joined(g[i - 1], seqs[i])
      /\ \A i \in 1 .. n + 1 : f[i] = Joined(f[i - 1], more[i])
  BY <1>0, <1>1, <1>2 DEF Joins
<1> HIDE DEF n
<1> DEFINE T == {i \in 0 .. n : f[i] = g[i]}
<1>4. 0 .. n \subseteq T
  <2>1. 0 \in T
    BY <1>0, <1>3
  <2>2. ASSUME NEW i \in 1 .. n, i - 1 \in T PROVE i \in T
    BY <1>0, <1>3, <2>2
  <2> HIDE DEF T
  <2> QED BY <1>0, <2>1, <2>2, UpTo
<1>5. f[n + 1] = Joined(g[n], x)
  BY <1>0, <1>3, <1>4
<1> QED BY <1>1, <1>2, <1>5 DEF more
=============================================================================
