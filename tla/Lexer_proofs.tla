---------------------------- MODULE Lexer_proofs ----------------------------
(***************************************************************************)
(* For every line, typed or sent: the words are those of the grammar, no   *)
(* buffer is written past its memory, what a client sends is what the      *)
(* server reads, and the two parsers agree.                                *)
(*                                                                         *)
(* The loops of Lexer are recursive functions; the first sections say what *)
(* each is from one turn to the next.  Then the grammar is followed        *)
(* through the line, and the state machine through the grammar: AtPlace    *)
(* gives the state and the tokens after k characters.                      *)
(***************************************************************************)
EXTENDS Lexer, Iteration, SequenceTheorems, FiniteSetTheorems, TLAPS

-----------------------------------------------------------------------------
(* Ascending *)

(* The loop of Ascending *)
Finds(f, S, n) ==
  /\ f \in [0 .. n -> Seq(Nat)]
  /\ f[0] = <<>>
  /\ \A k \in 1 .. n : f[k] = IF k \in S THEN Append(f[k - 1], k) ELSE f[k - 1]

(* Ascending is the end of its loop. *)
LEMMA AscendingIsFound ==
  ASSUME NEW S, NEW n \in Nat
  PROVE  \E f : Finds(f, S, n) /\ Ascending(S, n) = f[n]
<1> DEFINE V == Seq(Nat)
           h == [v \in V \X (1 .. n) |-> IF v[2] \in S THEN Append(v[1], v[2]) ELSE v[1]]
           Body(f) == [k \in 0 .. n |-> IF k = 0 THEN <<>>
                                        ELSE IF k \in S THEN Append(f[k - 1], k) ELSE f[k - 1]]
           found == CHOOSE f : f = Body(f)
<1>1. <<>> \in V /\ h \in Steps(V, n)
  <2>1. <<>> \in V
    BY EmptySeq
  <2>2. ASSUME NEW v \in V \X (1 .. n)
        PROVE  (IF v[2] \in S THEN Append(v[1], v[2]) ELSE v[1]) \in V
    <3>1. v[1] \in V /\ v[2] \in Nat
      OBVIOUS
    <3>2. Append(v[1], v[2]) \in V
      BY <3>1, AppendProperties
    <3> QED BY <3>1, <3>2
  <2>3. h \in [V \X (1 .. n) -> V]
    BY <2>2
  <2> QED BY <2>1, <2>3 DEF Steps
<1>2. PICK g : Iterates(g, V, n, <<>>, h)
  <2> HIDE DEF V, h
  <2> QED BY <1>1, Iterated
<1>3. Finds(g, S, n)
  <2>1. g \in [0 .. n -> V] /\ g[0] = <<>> /\ \A k \in 1 .. n : g[k] = h[<<g[k - 1], k>>]
    BY <1>2 DEF Iterates
  <2>2. ASSUME NEW k \in 1 .. n
        PROVE  g[k] = IF k \in S THEN Append(g[k - 1], k) ELSE g[k - 1]
    <3>1. k - 1 \in 0 .. n
      OBVIOUS
    <3>2. <<g[k - 1], k>> \in V \X (1 .. n)
      BY <2>1, <3>1
    <3> QED BY <2>1, <3>2
  <2> QED BY <2>1, <2>2 DEF Finds
<1>4. g = Body(g)
  <2>1. g = [k \in 0 .. n |-> g[k]]
    BY <1>3 DEF Finds
  <2>2. ASSUME NEW k \in 0 .. n PROVE g[k] = Body(g)[k]
    <3>1. CASE k = 0
      BY <1>3, <3>1 DEF Finds
    <3>2. CASE k # 0
      <4>1. k \in 1 .. n
        BY <3>2
      <4>2. g[k] = IF k \in S THEN Append(g[k - 1], k) ELSE g[k - 1]
        BY <1>3, <4>1 DEF Finds
      <4> QED BY <3>2, <4>2
    <3> QED BY <3>1, <3>2
  <2> QED BY <2>1, <2>2
<1>5. found = Body(found)
  BY <1>4
<1>6. Ascending(S, n) = found[n]
  BY DEF Ascending
<1> HIDE DEF found
<1> DEFINE T == {k \in 0 .. n : found[k] = g[k]}
<1>7. 0 \in T
  <2>1. Body(found)[0] = <<>> /\ Body(g)[0] = <<>>
    OBVIOUS
  <2> QED BY <1>4, <1>5, <2>1
<1>8. ASSUME NEW k \in 1 .. n, k - 1 \in T PROVE k \in T
  <2>1. k \in 0 .. n /\ k # 0
    OBVIOUS
  <2>2. found[k] = IF k \in S THEN Append(found[k - 1], k) ELSE found[k - 1]
    BY <1>5, <2>1
  <2>3. g[k] = IF k \in S THEN Append(g[k - 1], k) ELSE g[k - 1]
    BY <1>3 DEF Finds
  <2> QED BY <1>8, <2>1, <2>2, <2>3
<1>9. n \in T
  <2> HIDE DEF T
  <2>1. 0 .. n \subseteq T
    BY <1>7, <1>8, UpTo
  <2> QED BY <2>1
<1> QED BY <1>3, <1>6, <1>9

(* Loops over sets that agree so far have found the same. *)
LEMMA FindsAlike ==
  ASSUME NEW S, NEW T, NEW m \in Nat, NEW n \in Nat, NEW k \in Nat, k <= m, k <= n,
         NEW f, NEW g, Finds(f, S, m), Finds(g, T, n),
         \A j \in 1 .. k : j \in S <=> j \in T
  PROVE  f[k] = g[k]
<1> DEFINE U == {j \in 0 .. k : f[j] = g[j]}
<1>1. 0 \in U
  BY DEF Finds
<1>2. ASSUME NEW j \in 1 .. k, j - 1 \in U PROVE j \in U
  <2>1. /\ f[j] = IF j \in S THEN Append(f[j - 1], j) ELSE f[j - 1]
        /\ g[j] = IF j \in T THEN Append(g[j - 1], j) ELSE g[j - 1]
    <3>1. j \in 1 .. m /\ j \in 1 .. n
      OBVIOUS
    <3> QED BY <3>1 DEF Finds
  <2>2. f[j - 1] = g[j - 1] /\ j \in 0 .. k
    BY <1>2
  <2> QED BY <2>1, <2>2
<1>3. k \in U
  <2> HIDE DEF U
  <2>1. 0 .. k \subseteq U
    BY <1>1, <1>2, UpTo
  <2> QED BY <2>1
<1> QED BY <1>3

(* One number more *)
LEMMA AscendingStep ==
  ASSUME NEW S, NEW n \in Nat
  PROVE  /\ Ascending(S, 0) = <<>>
         /\ Ascending(S, n) \in Seq(Nat)
         /\ Ascending(S, n + 1) =
              IF n + 1 \in S THEN Append(Ascending(S, n), n + 1) ELSE Ascending(S, n)
<1>1. PICK f : Finds(f, S, n) /\ Ascending(S, n) = f[n]
  BY AscendingIsFound
<1>2. PICK g : Finds(g, S, n + 1) /\ Ascending(S, n + 1) = g[n + 1]
  BY AscendingIsFound
<1>3. PICK h : Finds(h, S, 0) /\ Ascending(S, 0) = h[0]
  BY AscendingIsFound
<1>4. f[n] = g[n]
  BY <1>1, <1>2, FindsAlike
<1>5. n + 1 \in 1 .. n + 1 /\ n \in 0 .. n /\ (n + 1) - 1 = n
  OBVIOUS
<1>6. g[n + 1] = IF n + 1 \in S THEN Append(g[n], n + 1) ELSE g[n]
  BY <1>2, <1>5 DEF Finds
<1>7. f[n] \in Seq(Nat) /\ h[0] = <<>>
  BY <1>1, <1>3, <1>5 DEF Finds
<1> QED BY <1>1, <1>2, <1>3, <1>4, <1>6, <1>7

(* Only the members up to n matter. *)
LEMMA AscendingSame ==
  ASSUME NEW S, NEW T, NEW n \in Nat, \A k \in 1 .. n : k \in S <=> k \in T
  PROVE  Ascending(S, n) = Ascending(T, n)
<1>1. PICK f : Finds(f, S, n) /\ Ascending(S, n) = f[n]
  BY AscendingIsFound
<1>2. PICK g : Finds(g, T, n) /\ Ascending(T, n) = g[n]
  BY AscendingIsFound
<1> QED BY <1>1, <1>2, FindsAlike

(* What is found are members. *)
LEMMA AscendingMembers ==
  ASSUME NEW S, NEW n \in Nat
  PROVE  Ascending(S, n) \in Seq(S \cap (1 .. n))
<1>1. PICK f : Finds(f, S, n) /\ Ascending(S, n) = f[n]
  BY AscendingIsFound
<1> DEFINE W == S \cap (1 .. n)
           U == {k \in 0 .. n : f[k] \in Seq(W)}
<1>2. 0 \in U
  BY <1>1, EmptySeq DEF Finds
<1>3. ASSUME NEW k \in 1 .. n, k - 1 \in U PROVE k \in U
  <2>1. f[k - 1] \in Seq(W)
    BY <1>3
  <2>2. f[k] = IF k \in S THEN Append(f[k - 1], k) ELSE f[k - 1]
    BY <1>1 DEF Finds
  <2>3. k \in S => Append(f[k - 1], k) \in Seq(W)
    <3>1. k \in S => k \in W
      OBVIOUS
    <3> HIDE DEF W
    <3> QED BY <2>1, <3>1, AppendProperties
  <2>4. f[k] \in Seq(W)
    BY <2>1, <2>2, <2>3
  <2> QED BY <2>4
<1>4. n \in U
  <2> HIDE DEF U
  <2>1. 0 .. n \subseteq U
    BY <1>2, <1>3, UpTo
  <2> QED BY <2>1
<1> QED BY <1>1, <1>4

-----------------------------------------------------------------------------
(* The strings of a buffer *)

Zeros(chars) == Ascending({k \in DOMAIN chars : chars[k] = "nul"}, Len(chars))

LastZero(chars) == IF Zeros(chars) = <<>> THEN 0 ELSE Zeros(chars)[Len(Zeros(chars))]

(* What stands behind the last zero: the string that is being written *)
Rest(chars) == SubSeq(chars, LastZero(chars) + 1, Len(chars))

(* Where the zeros are *)
LEMMA ZerosType ==
  ASSUME NEW chars \in Seq(Char)
  PROVE  /\ Len(chars) \in Nat
         /\ Zeros(chars) \in Seq(1 .. Len(chars))
         /\ LastZero(chars) \in 0 .. Len(chars)
<1> DEFINE n == Len(chars)
           Z == {k \in DOMAIN chars : chars[k] = "nul"}
<1>1. n \in Nat
  BY LenProperties
<1>2. Zeros(chars) \in Seq(Z \cap (1 .. n))
  <2>1. Zeros(chars) = Ascending(Z, n)
    BY DEF Zeros
  <2> HIDE DEF Z, n
  <2> QED BY <1>1, <2>1, AscendingMembers
<1>3. Zeros(chars) \in Seq(1 .. n)
  <2>1. Z \cap (1 .. n) \subseteq 1 .. n
    OBVIOUS
  <2> HIDE DEF Z, n
  <2> QED BY <1>2, <2>1, SeqMonotonic
<1> DEFINE z == Zeros(chars)
<1>4. CASE z # <<>>
  <2>1. Len(z) \in 1 .. Len(z)
    <3> HIDE DEF z
    <3>1. Len(z) \in Nat \ {0}
      BY <1>3, <1>4, EmptySeq DEF z
    <3> QED BY <3>1
  <2>2. z[Len(z)] \in 1 .. n
    <3> HIDE DEF n
    <3> QED BY <1>3, <2>1, ElementOfSeq
  <2> QED BY <1>1, <1>3, <1>4, <2>2 DEF LastZero
<1>5. CASE z = <<>>
  BY <1>1, <1>3, <1>5 DEF LastZero
<1> QED BY <1>1, <1>3, <1>4, <1>5

(* One character more *)
LEMMA ZerosStep ==
  ASSUME NEW chars \in Seq(Char), NEW c \in Char
  PROVE  Zeros(Append(chars, c)) =
           IF c = "nul" THEN Append(Zeros(chars), Len(chars) + 1) ELSE Zeros(chars)
<1> DEFINE n == Len(chars)
           more == Append(chars, c)
           Z == {k \in DOMAIN chars : chars[k] = "nul"}
           Y == {k \in DOMAIN more : more[k] = "nul"}
<1>1. /\ n \in Nat /\ more \in Seq(Char) /\ Len(more) = n + 1
      /\ \A k \in 1 .. n : more[k] = chars[k]
      /\ more[n + 1] = c
      /\ DOMAIN chars = 1 .. n /\ DOMAIN more = 1 .. n + 1
  BY AppendProperties, LenProperties
<1>2. \A k \in 1 .. n : k \in Y <=> k \in Z
  <2> HIDE DEF more, n
  <2> QED BY <1>1
<1>3. n + 1 \in Y <=> c = "nul"
  <2> HIDE DEF more, n
  <2> QED BY <1>1
<1>4. Zeros(more) = Ascending(Y, n + 1) /\ Zeros(chars) = Ascending(Z, n)
  BY <1>1 DEF Zeros
<1> HIDE DEF Y, Z, n, more
<1>5. Ascending(Y, n) = Ascending(Z, n)
  BY <1>1, <1>2, AscendingSame
<1>6. Ascending(Y, n + 1) = IF n + 1 \in Y THEN Append(Ascending(Y, n), n + 1) ELSE Ascending(Y, n)
  BY <1>1, AscendingStep
<1> QED BY <1>3, <1>4, <1>5, <1>6 DEF n, more

(* A part of a buffer does not change when the buffer grows. *)
LEMMA SubSeqOfLonger ==
  ASSUME NEW chars \in Seq(Char), NEW c \in Char,
         NEW m \in Nat \ {0}, NEW n \in 0 .. Len(chars)
  PROVE  SubSeq(Append(chars, c), m, n) = SubSeq(chars, m, n)
<1> DEFINE more == Append(chars, c)
<1>1. /\ Len(chars) \in Nat
      /\ \A k \in 1 .. Len(chars) : more[k] = chars[k] /\ chars[k] \in Char
  BY AppendProperties, LenProperties, ElementOfSeq
<1> HIDE DEF more
<1>2. \A k \in m .. n : more[k] \in Char /\ chars[k] \in Char /\ more[k] = chars[k]
  BY <1>1
<1> DEFINE a == SubSeq(more, m, n)
           b == SubSeq(chars, m, n)
           len == IF m <= n THEN n - m + 1 ELSE 0
<1>3. /\ a \in Seq(Char) /\ Len(a) = len
      /\ \A k \in 1 .. n - m + 1 : a[k] = more[m + k - 1]
  BY <1>2, SubSeqProperties
<1>4. /\ b \in Seq(Char) /\ Len(b) = len
      /\ \A k \in 1 .. n - m + 1 : b[k] = chars[m + k - 1]
  BY <1>2, SubSeqProperties
<1> HIDE DEF a, b
<1>5. \A k \in 1 .. len : a[k] = b[k]
  <2> SUFFICES ASSUME NEW k \in 1 .. len PROVE a[k] = b[k]
    OBVIOUS
  <2>1. k \in 1 .. n - m + 1 /\ m + k - 1 \in m .. n
    BY <1>1
  <2> QED BY <1>2, <1>3, <1>4, <2>1
<1>6. a = b
  <2> HIDE DEF len
  <2> QED BY <1>3, <1>4, <1>5, SeqEqual
<1> QED BY <1>6 DEF a, b, more

(* A buffer that is new holds nothing. *)
LEMMA NothingWritten ==
  TokenList(<<>>) = <<>> /\ Rest(<<>>) = <<>>
<1>1. Zeros(<<>>) = <<>>
  <2>1. Len(<<>>) = 0
    OBVIOUS
  <2> QED BY <2>1, AscendingStep DEF Zeros
<1>2. TokenList(<<>>) = <<>>
  BY <1>1 DEF TokenList, Zeros
<1>3. Rest(<<>>) = <<>>
  <2>1. LastZero(<<>>) = 0 /\ Len(<<>>) = 0
    BY <1>1 DEF LastZero
  <2>2. SubSeq(<<>>, 1, 0) = <<>>
    BY SubSeqEmpty
  <2> QED BY <2>1, <2>2 DEF Rest
<1> QED BY <1>2, <1>3

(* A character that is written lengthens the last string. *)
LEMMA LetterWritten ==
  ASSUME NEW chars \in Seq(Char), NEW c \in Char \ {"nul"}
  PROVE  /\ TokenList(Append(chars, c)) = TokenList(chars)
         /\ Rest(chars) \in Seq(Char)
         /\ Rest(Append(chars, c)) = Append(Rest(chars), c)
<1> DEFINE n == Len(chars)
           more == Append(chars, c)
           z == Zeros(chars)
<1>1. Zeros(more) = z
  BY ZerosStep
<1>2. n \in Nat /\ z \in Seq(1 .. n) /\ LastZero(chars) \in 0 .. n
  BY ZerosType
<1>3. LastZero(more) = LastZero(chars)
  BY <1>1 DEF LastZero
<1>4. /\ more \in Seq(Char) /\ Len(more) = n + 1 /\ more[n + 1] = c
      /\ \A k \in 1 .. n : more[k] = chars[k] /\ chars[k] \in Char
  BY AppendProperties, ElementOfSeq
<1>5. \A k \in DOMAIN z : z[k] \in 1 .. n /\ k \in Nat
                         /\ (k # 1 => k - 1 \in DOMAIN z /\ z[k - 1] \in 1 .. n)
  <2> HIDE DEF z, n
  <2>1. DOMAIN z = 1 .. Len(z) /\ Len(z) \in Nat
    BY <1>2, LenProperties
  <2>2. \A k \in 1 .. Len(z) : z[k] \in 1 .. n
    BY <1>2, ElementOfSeq
  <2> QED BY <2>1, <2>2
<1>6. TokenList(more) = TokenList(chars)
  <2> DEFINE from(k) == IF k = 1 THEN 1 ELSE z[k - 1] + 1
  <2>1. /\ TokenList(more) = [k \in DOMAIN z |-> SubSeq(more, from(k), z[k] - 1)]
        /\ TokenList(chars) = [k \in DOMAIN z |-> SubSeq(chars, from(k), z[k] - 1)]
    BY <1>1 DEF TokenList, Zeros
  <2>2. ASSUME NEW k \in DOMAIN z
        PROVE  SubSeq(more, from(k), z[k] - 1) = SubSeq(chars, from(k), z[k] - 1)
    <3>1. from(k) \in Nat \ {0} /\ z[k] - 1 \in 0 .. n
      <4> HIDE DEF z, n
      <4> QED BY <1>2, <1>5
    <3> HIDE DEF from, z
    <3> QED BY <3>1, SubSeqOfLonger
  <2> QED BY <2>1, <2>2
<1> DEFINE l == LastZero(chars)
           a == SubSeq(more, l + 1, n + 1)
           b == SubSeq(chars, l + 1, n)
<1>7. /\ a \in Seq(Char) /\ Len(a) = n - l + 1
      /\ \A k \in 1 .. n - l + 1 : a[k] = more[l + k]
  <2> HIDE DEF more, l, n
  <2>0. l \in 0 .. n
    BY <1>2 DEF l
  <2>1. \A k \in l + 1 .. n + 1 : more[k] \in Char
    BY <1>2, <1>4, <2>0
  <2>2. /\ a \in Seq(Char) /\ Len(a) = IF l + 1 <= n + 1 THEN n + 1 - (l + 1) + 1 ELSE 0
        /\ \A k \in 1 .. n + 1 - (l + 1) + 1 : a[k] = more[l + 1 + k - 1]
    BY <1>2, <2>0, <2>1, SubSeqProperties
  <2>3. n + 1 - (l + 1) + 1 = n - l + 1 /\ l + 1 <= n + 1
    BY <1>2, <2>0
  <2> HIDE DEF a
  <2>4. Len(a) = n - l + 1
    BY <2>2, <2>3
  <2>5. ASSUME NEW k \in 1 .. n - l + 1 PROVE a[k] = more[l + k]
    <3>1. k \in 1 .. n + 1 - (l + 1) + 1 /\ l + 1 + k - 1 = l + k
      BY <1>2, <2>0
    <3> QED BY <2>2, <3>1
  <2> QED BY <2>2, <2>4, <2>5
<1>8. /\ b \in Seq(Char) /\ Len(b) = n - l
      /\ \A k \in 1 .. n - l : b[k] = chars[l + k]
  <2> HIDE DEF l, n
  <2>0. l \in 0 .. n
    BY <1>2 DEF l
  <2>1. \A k \in l + 1 .. n : chars[k] \in Char
    BY <1>2, <1>4, <2>0
  <2>2. /\ b \in Seq(Char) /\ Len(b) = IF l + 1 <= n THEN n - (l + 1) + 1 ELSE 0
        /\ \A k \in 1 .. n - (l + 1) + 1 : b[k] = chars[l + 1 + k - 1]
    BY <1>2, <2>0, <2>1, SubSeqProperties
  <2>3. n - (l + 1) + 1 = n - l /\ (~(l + 1 <= n) => n - l = 0)
    BY <1>2, <2>0
  <2> HIDE DEF b
  <2>4. Len(b) = n - l
    BY <2>2, <2>3
  <2>5. ASSUME NEW k \in 1 .. n - l PROVE b[k] = chars[l + k]
    <3>1. k \in 1 .. n - (l + 1) + 1 /\ l + 1 + k - 1 = l + k
      BY <1>2, <2>0
    <3> QED BY <2>2, <3>1
  <2> QED BY <2>2, <2>4, <2>5
<1>9. a = Append(b, c)
  <2> HIDE DEF a, b, l, n, more
  <2>0. l \in 0 .. n
    BY <1>2 DEF l
  <2>1. /\ Append(b, c) \in Seq(Char) /\ Len(Append(b, c)) = n - l + 1
        /\ \A k \in 1 .. n - l : Append(b, c)[k] = b[k]
        /\ Append(b, c)[n - l + 1] = c
    BY <1>8, AppendProperties
  <2>2. ASSUME NEW k \in 1 .. n - l + 1 PROVE a[k] = Append(b, c)[k]
    <3>1. CASE k = n - l + 1
      <4>1. l + k = n + 1
        BY <1>2, <2>0, <3>1
      <4> QED BY <1>4, <1>7, <2>1, <3>1, <4>1
    <3>2. CASE k # n - l + 1
      <4>1. k \in 1 .. n - l /\ l + k \in 1 .. n
        BY <1>2, <2>0, <3>2
      <4> QED BY <1>4, <1>7, <1>8, <2>1, <4>1
    <3> QED BY <3>1, <3>2
  <2> QED BY <1>7, <2>1, <2>2, SeqEqual
<1>10. Rest(more) = a /\ Rest(chars) = b
  BY <1>3, <1>4 DEF Rest
<1> QED BY <1>6, <1>8, <1>9, <1>10

(* A zero that is written ends it. *)
LEMMA ZeroWritten ==
  ASSUME NEW chars \in Seq(Char)
  PROVE  /\ TokenList(Append(chars, "nul")) = Append(TokenList(chars), Rest(chars))
         /\ Rest(Append(chars, "nul")) = <<>>
<1> DEFINE n == Len(chars)
           more == Append(chars, "nul")
           z == Zeros(chars)
           y == Zeros(more)
           l == LastZero(chars)
<1>0. "nul" \in Char
  BY DEF Char
<1>1. y = Append(z, n + 1)
  BY <1>0, ZerosStep
<1>2. n \in Nat /\ z \in Seq(1 .. n) /\ l \in 0 .. n
  BY ZerosType
<1>3. Len(more) = n + 1 /\ more \in Seq(Char)
  BY <1>0, AppendProperties
<1> HIDE DEF z, y, l, n
<1>4. /\ Len(z) \in Nat /\ DOMAIN z = 1 .. Len(z) /\ DOMAIN y = 1 .. Len(z) + 1
      /\ Len(y) = Len(z) + 1
      /\ \A k \in 1 .. Len(z) : y[k] = z[k] /\ z[k] \in 1 .. n
      /\ y[Len(z) + 1] = n + 1
  <2>1. z \in Seq(1 .. n + 1)
    <3>1. 1 .. n \subseteq 1 .. n + 1
      BY <1>2
    <3> QED BY <1>2, <3>1, SeqMonotonic
  <2>2. n + 1 \in 1 .. n + 1
    BY <1>2
  <2>3. y \in Seq(1 .. n + 1) /\ Len(y) = Len(z) + 1
        /\ (\A k \in 1 .. Len(z) : y[k] = z[k]) /\ y[Len(z) + 1] = n + 1
    BY <1>1, <2>1, <2>2, AppendProperties
  <2>4. DOMAIN z = 1 .. Len(z) /\ Len(z) \in Nat /\ DOMAIN y = 1 .. Len(y)
    BY <1>2, <2>3, LenProperties
  <2>5. \A k \in 1 .. Len(z) : z[k] \in 1 .. n
    BY <1>2, ElementOfSeq
  <2> QED BY <2>3, <2>4, <2>5
<1>5. l = IF Len(z) = 0 THEN 0 ELSE z[Len(z)]
  <2>1. z = <<>> <=> Len(z) = 0
    BY <1>2, EmptySeq
  <2> QED BY <2>1 DEF l, z, LastZero
<1> DEFINE from(x, k) == IF k = 1 THEN 1 ELSE x[k - 1] + 1
           old == TokenList(chars)
           new == TokenList(more)
<1>6. /\ new = [k \in 1 .. Len(z) + 1 |-> SubSeq(more, from(y, k), y[k] - 1)]
      /\ old = [k \in 1 .. Len(z) |-> SubSeq(chars, from(z, k), z[k] - 1)]
  BY <1>4 DEF TokenList, Zeros, y, z
<1> HIDE DEF old, new
<1>7. ASSUME NEW k \in 1 .. Len(z) PROVE new[k] = old[k]
  <2>1. from(y, k) = from(z, k) /\ y[k] = z[k] /\ from(z, k) \in Nat \ {0} /\ z[k] - 1 \in 0 .. n
    <3>1. CASE k = 1
      BY <1>2, <1>4, <3>1
    <3>2. CASE k # 1
      <4>1. k - 1 \in 1 .. Len(z)
        BY <1>4, <3>2
      <4>2. /\ y[k] = z[k] /\ z[k] \in 1 .. n
            /\ y[k - 1] = z[k - 1] /\ z[k - 1] \in 1 .. n
        BY <1>4, <4>1
      <4>3. from(y, k) = from(z, k) /\ from(z, k) = z[k - 1] + 1
        BY <3>2, <4>2
      <4> QED BY <1>2, <4>2, <4>3
    <3> QED BY <3>1, <3>2
  <2>2. k \in 1 .. Len(z) + 1
    BY <1>4
  <2>3. new[k] = SubSeq(more, from(z, k), z[k] - 1) /\ old[k] = SubSeq(chars, from(z, k), z[k] - 1)
    BY <1>6, <2>1, <2>2
  <2> HIDE DEF from
  <2>4. SubSeq(more, from(z, k), z[k] - 1) = SubSeq(chars, from(z, k), z[k] - 1)
    BY <1>0, <2>1, SubSeqOfLonger DEF n
  <2> QED BY <2>3, <2>4
<1>8. new[Len(z) + 1] = Rest(chars)
  <2>1. Len(z) + 1 \in 1 .. Len(z) + 1
    BY <1>4
  <2>2. from(y, Len(z) + 1) = l + 1
    <3>1. CASE Len(z) = 0
      BY <1>5, <3>1
    <3>2. CASE Len(z) # 0
      <4>1. Len(z) \in 1 .. Len(z) /\ Len(z) + 1 # 1 /\ (Len(z) + 1) - 1 = Len(z)
        BY <1>4, <3>2
      <4> QED BY <1>4, <1>5, <3>2, <4>1
    <3> QED BY <3>1, <3>2
  <2>3. y[Len(z) + 1] - 1 = n
    BY <1>2, <1>4
  <2>4. new[Len(z) + 1] = SubSeq(more, l + 1, n)
    BY <1>6, <2>1, <2>2, <2>3
  <2>5. l + 1 \in Nat \ {0} /\ n \in 0 .. n
    BY <1>2
  <2>6. SubSeq(more, l + 1, n) = SubSeq(chars, l + 1, n)
    BY <1>0, <2>5, SubSeqOfLonger DEF n
  <2> QED BY <2>4, <2>6 DEF Rest, l, n
<1>9. new = Append(old, Rest(chars))
  <2> DEFINE w == Rest(chars)
           V == {new[k] : k \in 1 .. Len(z) + 1}
  <2>1. old \in Seq(V) /\ Len(old) = Len(z)
    <3>1. \A k \in 1 .. Len(z) : k \in 1 .. Len(z) + 1
      BY <1>4
    <3>2. \A k \in 1 .. Len(z) : old[k] \in V
      BY <1>7, <3>1
    <3>3. old = [k \in 1 .. Len(z) |-> old[k]]
      BY <1>6
    <3> HIDE DEF V
    <3>4. old \in [1 .. Len(z) -> V]
      BY <3>2, <3>3
    <3> QED BY <1>4, <3>4, LenProperties
  <2>2. new \in Seq(V) /\ Len(new) = Len(z) + 1
    <3>1. \A k \in 1 .. Len(z) + 1 : new[k] \in V
      OBVIOUS
    <3>2. new = [k \in 1 .. Len(z) + 1 |-> new[k]]
      BY <1>6
    <3> HIDE DEF V
    <3>3. new \in [1 .. Len(z) + 1 -> V]
      BY <3>1, <3>2
    <3> QED BY <1>4, <3>3, LenProperties
  <2>3. w \in V
    <3>1. Len(z) + 1 \in 1 .. Len(z) + 1
      BY <1>4
    <3> QED BY <1>8, <3>1
  <2> HIDE DEF V, w
  <2>4. /\ Append(old, w) \in Seq(V) /\ Len(Append(old, w)) = Len(z) + 1
        /\ \A k \in 1 .. Len(z) : Append(old, w)[k] = old[k]
        /\ Append(old, w)[Len(z) + 1] = w
    BY <2>1, <2>3, AppendProperties
  <2>5. ASSUME NEW k \in 1 .. Len(z) + 1 PROVE new[k] = Append(old, w)[k]
    <3>1. CASE k = Len(z) + 1
      BY <1>8, <2>4, <3>1 DEF w
    <3>2. CASE k # Len(z) + 1
      <4>1. k \in 1 .. Len(z)
        BY <1>4, <3>2
      <4> QED BY <1>7, <2>4, <4>1
    <3> QED BY <3>1, <3>2
  <2>6. new = Append(old, w)
    BY <2>2, <2>4, <2>5, SeqEqual
  <2> QED BY <2>6 DEF w
<1>10. Rest(more) = <<>>
  <2>1. LastZero(more) = n + 1
    <3>1. Len(y) # 0
      BY <1>4
    <3>2. y # <<>>
      BY <3>1
    <3> QED BY <1>4, <3>2 DEF LastZero, y
  <2>2. SubSeq(more, n + 2, n + 1) = <<>>
    BY <1>2, SubSeqEmpty
  <2> QED BY <1>2, <1>3, <2>1, <2>2 DEF Rest
<1> QED BY <1>9, <1>10 DEF new, old, more

-----------------------------------------------------------------------------
(* The grammar, one character after the other *)

(* The loop of Escaped *)
LEMMA EscapedIs ==
  ASSUME NEW line \in Seq(Char)
  PROVE  /\ Escaped(line)[0] = FALSE
         /\ \A k \in 1 .. Len(line) :
              Escaped(line)[k] <=> k > 1 /\ line[k - 1] = "backslash" /\ ~Escaped(line)[k - 1]
<1> DEFINE n == Len(line)
           Hit(x, k) == k > 1 /\ line[k - 1] = "backslash" /\ ~x
           Body(f) == [k \in 0 .. n |-> IF k = 0 THEN FALSE ELSE Hit(f[k - 1], k)]
           escaped == CHOOSE f : f = Body(f)
           h == [v \in BOOLEAN \X (1 .. n) |-> Hit(v[1], v[2])]
<1>0. n \in Nat
  BY LenProperties
<1>1. h \in Steps(BOOLEAN, n)
  <2>1. \A v \in BOOLEAN \X (1 .. n) : Hit(v[1], v[2]) \in BOOLEAN
    OBVIOUS
  <2> HIDE DEF Hit
  <2> QED BY <2>1 DEF Steps
<1>2. PICK g : Iterates(g, BOOLEAN, n, FALSE, h)
  <2> HIDE DEF h, n
  <2> QED BY <1>0, <1>1, Iterated
<1>3. g = Body(g)
  <2>1. g \in [0 .. n -> BOOLEAN] /\ g[0] = FALSE /\ \A k \in 1 .. n : g[k] = h[<<g[k - 1], k>>]
    BY <1>2 DEF Iterates
  <2>2. \A k \in 1 .. n : g[k] = Hit(g[k - 1], k)
    <3> SUFFICES ASSUME NEW k \in 1 .. n PROVE g[k] = Hit(g[k - 1], k)
      OBVIOUS
    <3>1. k - 1 \in 0 .. n
      BY <1>0
    <3>2. <<g[k - 1], k>> \in BOOLEAN \X (1 .. n)
      BY <2>1, <3>1
    <3> HIDE DEF Hit
    <3>3. h[<<g[k - 1], k>>] = Hit(g[k - 1], k)
      BY <3>2
    <3> QED BY <2>1, <3>3
  <2> HIDE DEF Hit, n
  <2>3. ASSUME NEW k \in 0 .. n PROVE g[k] = IF k = 0 THEN FALSE ELSE Hit(g[k - 1], k)
    <3>1. k = 0 \/ k \in 1 .. n
      BY <1>0
    <3> QED BY <2>1, <2>2, <3>1
  <2> QED BY <2>1, <2>3
<1>4. escaped = Body(escaped)
  BY <1>3
<1>5. Escaped(line) = escaped
  BY DEF Escaped
<1> HIDE DEF escaped
<1>6. escaped[0] = FALSE
  <2>1. Body(escaped)[0] = FALSE
    BY <1>0
  <2> QED BY <1>4, <2>1
<1>7. ASSUME NEW k \in 1 .. n PROVE escaped[k] = Hit(escaped[k - 1], k)
  <2>1. k \in 0 .. n /\ k # 0
    BY <1>0
  <2> HIDE DEF Hit
  <2>2. Body(escaped)[k] = Hit(escaped[k - 1], k)
    BY <2>1
  <2> QED BY <1>4, <2>2
<1> QED BY <1>5, <1>6, <1>7

(* The first k characters end with a backslash that keeps its meaning. *)
Open(line, k) == k > 0 /\ Live(line, k, "backslash")

(* A character keeps its meaning unless such a backslash stands before it. *)
LEMMA LiveStep ==
  ASSUME NEW line \in Seq(Char), NEW k \in 0 .. Len(line) - 1, NEW c
  PROVE  Live(line, k + 1, c) <=> line[k + 1] = c /\ ~Open(line, k)
<1>1. k + 1 \in 1 .. Len(line) /\ (k + 1) - 1 = k /\ k \in Nat
  BY LenProperties
<1>2. Escaped(line)[k + 1] <=> k + 1 > 1 /\ line[k] = "backslash" /\ ~Escaped(line)[k]
  <2> DEFINE m == k + 1
  <2>1. m \in 1 .. Len(line) /\ m - 1 = k
    BY <1>1
  <2> HIDE DEF m
  <2>2. Escaped(line)[m] <=> m > 1 /\ line[m - 1] = "backslash" /\ ~Escaped(line)[m - 1]
    BY <2>1, EscapedIs
  <2> QED BY <2>1, <2>2 DEF m
<1>3. k + 1 > 1 <=> k > 0
  BY <1>1
<1> QED BY <1>2, <1>3 DEF Live, Open

(* A quote that keeps its meaning begins or ends a quoted part. *)
LEMMA QuotingStep ==
  ASSUME NEW line \in Seq(Char)
  PROVE  /\ ~Quoting(line, 0)
         /\ \A k \in Nat : Quoting(line, k + 1) <=>
              IF Live(line, k + 1, "quote") THEN ~Quoting(line, k) ELSE Quoting(line, k)
<1> DEFINE Q(k) == {j \in 1 .. k : Live(line, j, "quote")}
<1>1. \A k \in Nat : IsFiniteSet(Q(k)) /\ Cardinality(Q(k)) \in Nat
  <2> SUFFICES ASSUME NEW k \in Nat PROVE IsFiniteSet(Q(k)) /\ Cardinality(Q(k)) \in Nat
    OBVIOUS
  <2>1. IsFiniteSet(1 .. k)
    BY FS_Interval
  <2>2. Q(k) \subseteq 1 .. k
    OBVIOUS
  <2> HIDE DEF Q
  <2> QED BY <2>1, <2>2, FS_Subset, FS_CardinalityType
<1>2. ~Quoting(line, 0)
  <2>1. Q(0) = {}
    OBVIOUS
  <2>2. Cardinality(Q(0)) = 0
    BY <2>1, FS_EmptySet
  <2> QED BY <2>2 DEF Quoting
<1>3. ASSUME NEW k \in Nat
      PROVE  Quoting(line, k + 1) <=>
               IF Live(line, k + 1, "quote") THEN ~Quoting(line, k) ELSE Quoting(line, k)
  <2> DEFINE a == Cardinality(Q(k))
             b == Cardinality(Q(k + 1))
  <2>1. a \in Nat /\ b \in Nat
    <3>1. k + 1 \in Nat
      OBVIOUS
    <3> HIDE DEF Q
    <3> QED BY <1>1, <3>1
  <2>2. k + 1 \notin Q(k) /\ Q(k + 1) \subseteq Q(k) \cup {k + 1} /\ Q(k) \subseteq Q(k + 1)
    OBVIOUS
  <2>3. k + 1 \in Q(k + 1) <=> Live(line, k + 1, "quote")
    OBVIOUS
  <2>4. (Quoting(line, k) <=> a % 2 = 1) /\ (Quoting(line, k + 1) <=> b % 2 = 1)
    BY DEF Quoting
  <2> HIDE DEF Q
  <2>5. CASE Live(line, k + 1, "quote")
    <3>1. Q(k + 1) = Q(k) \cup {k + 1}
      BY <2>2, <2>3, <2>5
    <3>2. b = a + 1
      BY <1>1, <2>2, <3>1, FS_AddElement
    <3> HIDE DEF a, b
    <3>3. b % 2 = 1 <=> ~ (a % 2 = 1)
      BY <2>1, <3>2
    <3> QED BY <2>4, <2>5, <3>3
  <2>6. CASE ~Live(line, k + 1, "quote")
    <3>1. Q(k + 1) = Q(k)
      BY <2>2, <2>3, <2>6
    <3> QED BY <2>4, <2>6, <3>1
  <2> QED BY <2>5, <2>6
<1> QED BY <1>2, <1>3

(* Mapping a sequence, ... *)
Mapped(f, s) == [j \in DOMAIN s |-> f[s[j]]]

MapsTo(f, D, R) == \A x \in D : f[x] \in R

LEMMA MapType ==
  ASSUME NEW D, NEW R, NEW f, MapsTo(f, D, R), NEW s \in Seq(D)
  PROVE  Mapped(f, s) \in Seq(R) /\ Len(Mapped(f, s)) = Len(s)
<1> DEFINE a == [j \in DOMAIN s |-> f[s[j]]]
<1>1. Len(s) \in Nat /\ DOMAIN s = 1 .. Len(s) /\ \A j \in 1 .. Len(s) : s[j] \in D
  BY LenProperties, ElementOfSeq
<1>2. a \in [1 .. Len(s) -> R]
  BY <1>1 DEF MapsTo
<1> HIDE DEF a
<1>3. a \in Seq(R) /\ Len(a) = Len(s)
  BY <1>1, <1>2
<1> QED BY <1>3 DEF a, Mapped

(* ... and one that grows *)
LEMMA MapAppend ==
  ASSUME NEW D, NEW R, NEW f, MapsTo(f, D, R), NEW s \in Seq(D), NEW x \in D
  PROVE  Mapped(f, Append(s, x)) = Append(Mapped(f, s), f[x])
<1> DEFINE n == Len(s)
           t == Append(s, x)
           a == Mapped(f, s)
           b == Mapped(f, t)
<1>1. /\ n \in Nat /\ DOMAIN s = 1 .. n
      /\ t \in Seq(D) /\ Len(t) = n + 1 /\ DOMAIN t = 1 .. n + 1
      /\ \A j \in 1 .. n : t[j] = s[j]
      /\ t[n + 1] = x
  <2>1. n \in Nat /\ DOMAIN s = 1 .. n
    BY LenProperties
  <2>2. /\ t \in Seq(D) /\ Len(t) = n + 1 /\ t[n + 1] = x
        /\ \A j \in 1 .. n : t[j] = s[j]
    BY AppendProperties
  <2>3. DOMAIN t = 1 .. n + 1
    BY <2>2, LenProperties
  <2> QED BY <2>1, <2>2, <2>3
<1> HIDE DEF t
<1>2. /\ a \in Seq(R) /\ Len(a) = n
      /\ b \in Seq(R) /\ Len(b) = n + 1
      /\ f[x] \in R
  <2>1. b \in Seq(R) /\ Len(b) = Len(t)
    BY <1>1, MapType
  <2>2. a \in Seq(R) /\ Len(a) = n
    BY MapType
  <2>3. f[x] \in R
    BY DEF MapsTo
  <2> QED BY <1>1, <2>1, <2>2, <2>3
<1>3. \A j \in 1 .. n : a[j] = f[s[j]]
  BY <1>1 DEF Mapped
<1>4. \A j \in 1 .. n + 1 : b[j] = f[t[j]]
  BY <1>1 DEF Mapped
<1> DEFINE d == Append(a, f[x])
<1> HIDE DEF a, b, n
<1>5. /\ d \in Seq(R) /\ Len(d) = n + 1 /\ d[n + 1] = f[x]
      /\ \A j \in 1 .. n : d[j] = a[j]
  BY <1>2, AppendProperties
<1>6. ASSUME NEW j \in 1 .. n + 1 PROVE b[j] = d[j]
  <2>1. CASE j = n + 1
    BY <1>1, <1>4, <1>5, <2>1
  <2>2. CASE j # n + 1
    <3>1. j \in 1 .. n
      BY <1>1, <2>2
    <3> QED BY <1>1, <1>3, <1>4, <1>5, <3>1
  <2> QED BY <2>1, <2>2
<1> HIDE DEF d
<1>7. b = d
  BY <1>2, <1>5, <1>6, SeqEqual
<1> QED BY <1>7 DEF a, b, d, n, t

(* Characters that mean themselves lengthen a word, a separator ends it. *)
Kept(line, k) == {j \in Stretch(line, k) : /\ ~Live(line, j, "quote")
                                           /\ ~Live(line, j, "backslash")}

(* What a word is made of, one character after the other *)
LEMMA MeantStep ==
  ASSUME NEW line \in Seq(Char)
  PROVE  /\ Meant(line, 0) = <<>> /\ Meant(line, Len(line) + 1) = <<>>
         /\ \A k \in 0 .. Len(line) : Meant(line, k) \in Seq(Char)
         /\ \A k \in 0 .. Len(line) - 1 :
              Meant(line, k + 1) =
                IF Separates(line, k + 1) THEN <<>>
                ELSE IF Live(line, k + 1, "quote") \/ Live(line, k + 1, "backslash")
                  THEN Meant(line, k)
                ELSE Append(Meant(line, k), line[k + 1])
<1> DEFINE n == Len(line)
           A(k) == Ascending(Kept(line, k), k)
<1>0. n \in Nat /\ \A j \in 1 .. n : line[j] \in Char
  BY LenProperties, ElementOfSeq
<1>maps. MapsTo(line, 1 .. n, Char)
  BY <1>0 DEF MapsTo
<1>1. \A k \in Nat : Meant(line, k) = Mapped(line, A(k))
  BY DEF Meant, Kept, Mapped
<1>2. ASSUME NEW k \in Nat, Kept(line, k) = {} PROVE Meant(line, k) = <<>>
  <2>1. A(k) = <<>>
    <3>1. A(k) = Ascending({}, k)
      BY <1>2
    <3>2. Ascending({}, k) \in Seq({} \cap (1 .. k))
      BY AscendingMembers
    <3>3. {} \cap (1 .. k) = {}
      OBVIOUS
    <3>4. Ascending({}, k) \in Seq({})
      BY <3>2, <3>3
    <3> HIDE DEF A
    <3>5. \A s \in Seq({}) : s = <<>>
      OBVIOUS
    <3> QED BY <3>1, <3>4, <3>5
  <2> HIDE DEF A
  <2>2. Mapped(line, <<>>) = <<>>
    BY DEF Mapped
  <2> QED BY <1>1, <2>1, <2>2
<1>3. \A k \in 0 .. n : A(k) \in Seq(1 .. n)
  <2> SUFFICES ASSUME NEW k \in 0 .. n PROVE A(k) \in Seq(1 .. n)
    OBVIOUS
  <2>1. k \in Nat /\ Kept(line, k) \cap (1 .. k) \subseteq 1 .. n
    BY <1>0
  <2>2. A(k) \in Seq(Kept(line, k) \cap (1 .. k))
    BY <2>1, AscendingMembers
  <2> HIDE DEF A, n
  <2> QED BY <2>1, <2>2, SeqMonotonic
<1>4. Meant(line, 0) = <<>>
  <2>1. Kept(line, 0) = {}
    BY DEF Kept, Stretch
  <2> QED BY <1>2, <2>1
<1>5. \A k \in 1 .. n + 1 : Separates(line, k) => Meant(line, k) = <<>>
  <2> SUFFICES ASSUME NEW k \in 1 .. n + 1, Separates(line, k) PROVE Meant(line, k) = <<>>
    OBVIOUS
  <2>1. \A j \in 1 .. k : k \in j .. k
    OBVIOUS
  <2>2. Kept(line, k) = {}
    BY <2>1 DEF Kept, Stretch
  <2> QED BY <1>2, <2>2
<1>6. \A k \in 0 .. n : Meant(line, k) \in Seq(Char)
  <2> SUFFICES ASSUME NEW k \in 0 .. n PROVE Meant(line, k) \in Seq(Char)
    OBVIOUS
  <2>1. A(k) \in Seq(1 .. n) /\ k \in Nat
    BY <1>3, <1>0
  <2>2. Meant(line, k) = Mapped(line, A(k))
    BY <1>1, <2>1
  <2> DEFINE s == A(k)
  <2>3. s \in Seq(1 .. n) /\ Meant(line, k) = Mapped(line, s)
    BY <2>1, <2>2
  <2> HIDE DEF s, n
  <2>4. Mapped(line, s) \in Seq(Char)
    BY <1>maps, <2>3, MapType
  <2> QED BY <2>3, <2>4
<1>7. ASSUME NEW k \in 0 .. n - 1, ~Separates(line, k + 1)
      PROVE  Meant(line, k + 1) =
                IF Live(line, k + 1, "quote") \/ Live(line, k + 1, "backslash")
                  THEN Meant(line, k)
                ELSE Append(Meant(line, k), line[k + 1])
  <2>1. k \in Nat /\ k + 1 \in Nat /\ k \in 0 .. n /\ k + 1 \in 1 .. n
    BY <1>0
  <2>2. k + 1 \in Stretch(line, k + 1)
    BY <1>7, <2>1 DEF Stretch
  <2>3. \A j \in 1 .. k : j \in Stretch(line, k + 1) <=> j \in Stretch(line, k)
    <3> SUFFICES ASSUME NEW j \in 1 .. k
                 PROVE  j \in Stretch(line, k + 1) <=> j \in Stretch(line, k)
      OBVIOUS
    <3>1. j \in 1 .. k + 1 /\ j .. k + 1 = (j .. k) \cup {k + 1}
      BY <2>1
    <3> QED BY <1>7, <3>1 DEF Stretch
  <2>4. \A j \in 1 .. k : j \in Kept(line, k + 1) <=> j \in Kept(line, k)
    BY <2>3 DEF Kept
  <2>5. k + 1 \in Kept(line, k + 1) <=>
          ~(Live(line, k + 1, "quote") \/ Live(line, k + 1, "backslash"))
    BY <2>2 DEF Kept
  <2>6. Ascending(Kept(line, k + 1), k) = A(k)
    BY <2>1, <2>4, AscendingSame
  <2>7. A(k + 1) = IF k + 1 \in Kept(line, k + 1) THEN Append(A(k), k + 1) ELSE A(k)
    BY <2>1, <2>6, AscendingStep
  <2>8. /\ Meant(line, k) = Mapped(line, A(k))
        /\ Meant(line, k + 1) = Mapped(line, A(k + 1))
    BY <1>1, <2>1
  <2> DEFINE s == A(k)
             t == A(k + 1)
  <2>9. s \in Seq(1 .. n)
    BY <1>3, <2>1
  <2> DEFINE D == 1 .. n
             x == k + 1
  <2>11. s \in Seq(D) /\ x \in D /\ MapsTo(line, D, Char)
    BY <1>maps, <2>1, <2>9
  <2> HIDE DEF s, t, D, x
  <2>12. Mapped(line, Append(s, x)) = Append(Mapped(line, s), line[x])
    BY <2>11, MapAppend
  <2>10. Mapped(line, Append(s, k + 1)) = Append(Mapped(line, s), line[k + 1])
    BY <2>12 DEF x
  <2> QED BY <2>5, <2>7, <2>8, <2>10 DEF s, t
<1> QED
  <2>1. n + 1 \in 1 .. n + 1 /\ Separates(line, n + 1)
    BY <1>0 DEF Separates
  <2>2. \A k \in 0 .. n - 1 : k + 1 \in 1 .. n + 1
    BY <1>0
  <2> QED BY <1>4, <1>5, <1>6, <1>7, <2>1, <2>2

(* No word is being written after the first k characters. *)
Apart(line, k) == k = 0 \/ Separates(line, k)

(* The words that have ended before the k-th character *)
Done(line, k) ==
  LET ends == Ascending(Ends(line), k - 1)
  IN  IF k = 0 THEN <<>> ELSE [m \in DOMAIN ends |-> Meant(line, ends[m])]

(* A separator behind a word ends it. *)
LEMMA DoneStep ==
  ASSUME NEW line \in Seq(Char)
  PROVE  /\ Done(line, 0) = <<>>
         /\ \A k \in 0 .. Len(line) + 1 : Done(line, k) \in Seq(Seq(Char))
         /\ \A k \in 0 .. Len(line) :
              Done(line, k + 1) = IF ~Apart(line, k) /\ Apart(line, k + 1)
                                    THEN Append(Done(line, k), Meant(line, k))
                                    ELSE Done(line, k)
<1> DEFINE n == Len(line)
           A(k) == Ascending(Ends(line), k)
           M(k) == [m \in DOMAIN A(k) |-> Meant(line, A(k)[m])]
           word == [k \in 1 .. n |-> Meant(line, k)]
<1>0. n \in Nat /\ \A k \in 1 .. n : word[k] \in Seq(Char)
  <2>1. n \in Nat
    BY LenProperties
  <2>2. \A k \in 1 .. n : k \in 0 .. n
    BY <2>1
  <2> QED BY <2>1, <2>2, MeantStep
<1>1. Done(line, 0) = <<>>
  BY DEF Done
<1>2. \A k \in 1 .. n + 1 : Done(line, k) = M(k - 1)
  BY <1>0 DEF Done
<1>3. \A k \in 0 .. n : A(k) \in Seq(1 .. n)
  <2> SUFFICES ASSUME NEW k \in 0 .. n PROVE A(k) \in Seq(1 .. n)
    OBVIOUS
  <2>1. k \in Nat /\ Ends(line) \cap (1 .. k) \subseteq 1 .. n
    BY <1>0
  <2>2. A(k) \in Seq(Ends(line) \cap (1 .. k))
    BY <2>1, AscendingMembers
  <2> HIDE DEF A, n
  <2> QED BY <2>1, <2>2, SeqMonotonic
<1>4. \A k \in 0 .. n : M(k) = Mapped(word, A(k))
  <2> SUFFICES ASSUME NEW k \in 0 .. n PROVE M(k) = Mapped(word, A(k))
    OBVIOUS
  <2> DEFINE s == A(k)
  <2>1. s \in Seq(1 .. n)
    BY <1>3
  <2>2. \A m \in DOMAIN s : s[m] \in 1 .. n
    <3> HIDE DEF s, n
    <3> QED BY <2>1, ElementOfSeq, LenProperties
  <2>3. \A m \in DOMAIN s : Meant(line, s[m]) = word[s[m]]
    BY <2>2
  <2> HIDE DEF s, word
  <2>4. [m \in DOMAIN s |-> Meant(line, s[m])] = [m \in DOMAIN s |-> word[s[m]]]
    BY <2>3
  <2> QED BY <2>4 DEF s, Mapped
<1>5. /\ A(0) = <<>>
      /\ \A k \in Nat : A(k + 1) = IF k + 1 \in Ends(line) THEN Append(A(k), k + 1) ELSE A(k)
  <2>1. 0 \in Nat
    OBVIOUS
  <2> QED BY <2>1, AscendingStep
<1>6. M(0) = <<>>
  BY <1>5
<1>7. \A k \in 0 .. n : M(k) \in Seq(Seq(Char))
  <2> SUFFICES ASSUME NEW k \in 0 .. n PROVE M(k) \in Seq(Seq(Char))
    OBVIOUS
  <2> DEFINE s == A(k)
             W == Seq(Char)
  <2>1. s \in Seq(1 .. n) /\ M(k) = Mapped(word, s)
    BY <1>3, <1>4
  <2>2. MapsTo(word, 1 .. n, W)
    BY <1>0 DEF MapsTo
  <2> HIDE DEF s, n, W, word, M
  <2>3. Mapped(word, s) \in Seq(W)
    BY <2>1, <2>2, MapType
  <2> QED BY <2>1, <2>3 DEF W
<1>8. ASSUME NEW k \in 1 .. n
      PROVE  M(k) = IF k \in Ends(line) THEN Append(M(k - 1), Meant(line, k)) ELSE M(k - 1)
  <2>1. k - 1 \in Nat /\ k - 1 \in 0 .. n /\ k \in 0 .. n /\ (k - 1) + 1 = k
    BY <1>0
  <2> DEFINE s == A(k - 1)
             t == A(k)
             W == Seq(Char)
  <2>2. t = IF k \in Ends(line) THEN Append(s, k) ELSE s
    BY <1>5, <2>1
  <2>3. s \in Seq(1 .. n)
    BY <1>3, <2>1
  <2>4. M(k) = Mapped(word, t) /\ M(k - 1) = Mapped(word, s)
    BY <1>4, <2>1
  <2>5. MapsTo(word, 1 .. n, W)
    BY <1>0 DEF MapsTo
  <2>6. word[k] = Meant(line, k)
    OBVIOUS
  <2> DEFINE D == 1 .. n
  <2>8. s \in Seq(D) /\ k \in D /\ MapsTo(word, D, W)
    BY <2>3, <2>5
  <2> HIDE DEF s, t, n, W, word, M, D
  <2>7. Mapped(word, Append(s, k)) = Append(Mapped(word, s), word[k])
    BY <2>8, MapAppend
  <2> QED BY <2>2, <2>4, <2>6, <2>7
<1>9. \A k \in 1 .. n : k \in Ends(line) <=> ~Apart(line, k) /\ Apart(line, k + 1)
  BY <1>0 DEF Ends, Apart
<1> HIDE DEF M
<1>10. ASSUME NEW k \in 0 .. n + 1 PROVE Done(line, k) \in Seq(Seq(Char))
  <2>1. CASE k = 0
    <3>1. <<>> \in Seq(Seq(Char))
      BY EmptySeq
    <3> QED BY <1>1, <2>1, <3>1
  <2>2. CASE k # 0
    <3>1. k \in 1 .. n + 1 /\ k - 1 \in 0 .. n
      BY <1>0, <2>2
    <3> QED BY <1>2, <1>7, <3>1
  <2> QED BY <2>1, <2>2
<1>11. ASSUME NEW k \in 0 .. n
       PROVE  Done(line, k + 1) = IF ~Apart(line, k) /\ Apart(line, k + 1)
                                    THEN Append(Done(line, k), Meant(line, k))
                                    ELSE Done(line, k)
  <2>1. k + 1 \in 1 .. n + 1 /\ (k + 1) - 1 = k
    BY <1>0
  <2>2. Done(line, k + 1) = M(k)
    BY <1>2, <2>1
  <2>3. CASE k = 0
    <3>1. Apart(line, k)
      BY <2>3 DEF Apart
    <3> QED BY <1>1, <1>6, <2>2, <2>3, <3>1
  <2>4. CASE k # 0
    <3>1. k \in 1 .. n /\ k \in 1 .. n + 1
      BY <1>0, <2>4
    <3>2. Done(line, k) = M(k - 1)
      BY <1>2, <3>1
    <3> QED BY <1>8, <1>9, <2>2, <3>1, <3>2
  <2> QED BY <2>3, <2>4
<1> QED BY <1>1, <1>10, <1>11

(* The grammar before the first character, ... *)
LEMMA GrammarBegins ==
  ASSUME NEW line \in Seq(Char)
  PROVE  /\ ~Open(line, 0) /\ ~Quoting(line, 0) /\ Apart(line, 0)
         /\ Meant(line, 0) = <<>> /\ Done(line, 0) = <<>>
BY QuotingStep, MeantStep, DoneStep DEF Open, Apart

(* ... from one to the next, ... *)
LEMMA GrammarStep ==
  ASSUME NEW line \in Seq(Char), NEW k \in 0 .. Len(line) - 1, NEW c, c = line[k + 1]
  PROVE  /\ Open(line, k + 1) <=> c = "backslash" /\ ~Open(line, k)
         /\ Quoting(line, k + 1) <=>
              IF c = "quote" /\ ~Open(line, k) THEN ~Quoting(line, k) ELSE Quoting(line, k)
         /\ Apart(line, k + 1) <=> c = "blank" /\ ~Open(line, k) /\ ~Quoting(line, k)
         /\ Meant(line, k + 1) =
              IF Apart(line, k + 1) THEN <<>>
              ELSE IF c \in {"quote", "backslash"} /\ ~Open(line, k) THEN Meant(line, k)
              ELSE Append(Meant(line, k), c)
         /\ Done(line, k + 1) =
              IF ~Apart(line, k) /\ Apart(line, k + 1)
                THEN Append(Done(line, k), Meant(line, k))
                ELSE Done(line, k)
<1>1. k \in Nat /\ k \in 0 .. Len(line) /\ k + 1 > 0 /\ k + 1 # Len(line) + 1 /\ k + 1 # 0
  BY LenProperties
<1>2. \A d : Live(line, k + 1, d) <=> c = d /\ ~Open(line, k)
  BY LiveStep
<1>3. Open(line, k + 1) <=> c = "backslash" /\ ~Open(line, k)
  BY <1>1, <1>2 DEF Open
<1>4. Quoting(line, k + 1) <=>
        IF c = "quote" /\ ~Open(line, k) THEN ~Quoting(line, k) ELSE Quoting(line, k)
  BY <1>1, <1>2, QuotingStep
<1>5. Apart(line, k + 1) <=> c = "blank" /\ ~Open(line, k) /\ ~Quoting(line, k)
  BY <1>1, <1>2, <1>4 DEF Apart, Separates
<1>6. Apart(line, k + 1) <=> Separates(line, k + 1)
  BY <1>1 DEF Apart
<1>7. Meant(line, k + 1) =
        IF Separates(line, k + 1) THEN <<>>
        ELSE IF Live(line, k + 1, "quote") \/ Live(line, k + 1, "backslash")
          THEN Meant(line, k)
        ELSE Append(Meant(line, k), line[k + 1])
  BY MeantStep
<1>8. Live(line, k + 1, "quote") \/ Live(line, k + 1, "backslash")
        <=> c \in {"quote", "backslash"} /\ ~Open(line, k)
  BY <1>2
<1>9. Done(line, k + 1) = IF ~Apart(line, k) /\ Apart(line, k + 1)
                            THEN Append(Done(line, k), Meant(line, k))
                            ELSE Done(line, k)
  BY <1>1, DoneStep
<1> QED BY <1>3, <1>4, <1>5, <1>6, <1>7, <1>8, <1>9

(* ... and behind the last. *)
LEMMA GrammarEnds ==
  ASSUME NEW line \in Seq(Char)
  PROVE  LET N == Len(line)
         IN  Grammar(line) = IF Quoting(line, N) \/ Open(line, N) THEN NULL
                             ELSE IF Apart(line, N) THEN Done(line, N)
                             ELSE Append(Done(line, N), Meant(line, N))
<1> DEFINE N == Len(line)
<1>1. N \in Nat /\ N + 1 # 0 /\ (N + 1) - 1 = N /\ N \in 0 .. N
  BY LenProperties
<1>2. Done(line, N + 1) = LET ends == Ascending(Ends(line), N)
                          IN  [k \in DOMAIN ends |-> Meant(line, ends[k])]
  BY <1>1 DEF Done
<1>3. Grammar(line) = IF Quoting(line, N) \/ Open(line, N) THEN NULL ELSE Done(line, N + 1)
  BY <1>2 DEF Grammar, Open
<1>4. Apart(line, N + 1)
  BY DEF Apart, Separates
<1>5. Done(line, N + 1) = IF Apart(line, N) THEN Done(line, N)
                          ELSE Append(Done(line, N), Meant(line, N))
  <2> HIDE DEF N
  <2>1. Done(line, N + 1) = IF ~Apart(line, N) /\ Apart(line, N + 1)
                            THEN Append(Done(line, N), Meant(line, N))
                            ELSE Done(line, N)
    BY <1>1, DoneStep DEF N
  <2> QED BY <1>4, <2>1
<1> QED BY <1>3, <1>5

(* Where no word is being written, nothing is open and nothing written. *)
LEMMA NothingApart ==
  ASSUME NEW line \in Seq(Char), NEW k \in 0 .. Len(line), Apart(line, k)
  PROVE  ~Open(line, k) /\ ~Quoting(line, k) /\ Meant(line, k) = <<>>
<1>1. CASE k = 0
  BY <1>1, GrammarBegins
<1>2. CASE k # 0
  <2> DEFINE m == k - 1
  <2>1. m \in 0 .. Len(line) - 1 /\ m + 1 = k
    BY <1>2, LenProperties
  <2> HIDE DEF m
  <2>2. /\ Open(line, m + 1) <=> line[m + 1] = "backslash" /\ ~Open(line, m)
        /\ Quoting(line, m + 1) <=>
             IF line[m + 1] = "quote" /\ ~Open(line, m) THEN ~Quoting(line, m) ELSE Quoting(line, m)
        /\ Apart(line, m + 1) <=> line[m + 1] = "blank" /\ ~Open(line, m) /\ ~Quoting(line, m)
        /\ Apart(line, m + 1) => Meant(line, m + 1) = <<>>
    BY <2>1, GrammarStep
  <2> QED BY <2>1, <2>2
<1> QED BY <1>1, <1>2

-----------------------------------------------------------------------------
(* The lexer *)

(* The line as the lexer sees it has no zero, and is the whole line if that  *)
(* has none.                                                                *)
LEMMA CStringIs ==
  ASSUME NEW text \in Seq(Char)
  PROVE  /\ CString(text) \in Seq(Char \ {"nul"})
         /\ "nul" \notin Range(text) => CString(text) = text
<1> DEFINE n == Len(text)
           D == Char \ {"nul"}
           I == {j \in 1 .. n : text[j] = "nul"}
<1>1. n \in Nat /\ DOMAIN text = 1 .. n /\ \A j \in 1 .. n : text[j] \in Char
  BY LenProperties, ElementOfSeq
<1>2. "nul" \in Range(text) <=> I # {}
  BY <1>1 DEF Range
<1>3. CASE I = {}
  <2>1. CString(text) = text
    BY <1>2, <1>3 DEF CString
  <2>2. \A j \in 1 .. n : text[j] \in D
    BY <1>1, <1>3
  <2>3. text \in [1 .. n -> D]
    <3>1. text \in [1 .. n -> Char]
      BY <1>1, LenProperties
    <3> HIDE DEF D, n
    <3> QED BY <2>2, <3>1
  <2>4. text \in Seq(D)
    <3> HIDE DEF D, n
    <3> QED BY <1>1, <2>3
  <2> QED BY <2>1, <2>4
<1>4. CASE I # {}
  <2> DEFINE m == Min(I)
  <2>1. CString(text) = SubSeq(text, 1, m - 1)
    BY <1>2, <1>4 DEF CString, SelectInSeq
  <2>2. m \in I /\ \A j \in I : m <= j
    <3>1. \E x \in I : \A y \in I : x <= y
      <4>1. I \subseteq Nat
        OBVIOUS
      <4> HIDE DEF I
      <4> QED BY <1>4, <4>1, LeastNatural
    <3> QED BY <3>1 DEF Min
  <2> HIDE DEF m
  <2>3. m \in 1 .. n
    BY <2>2
  <2>4. \A j \in 1 .. m - 1 : text[j] \in D
    <3> SUFFICES ASSUME NEW j \in 1 .. m - 1 PROVE text[j] \in D
      OBVIOUS
    <3>1. j \in 1 .. n /\ ~(m <= j)
      BY <1>1, <2>3
    <3> QED BY <1>1, <2>2, <3>1
  <2>5. SubSeq(text, 1, m - 1) \in Seq(D)
    <3>1. 1 \in Int /\ m - 1 \in Int
      BY <2>3
    <3> HIDE DEF D
    <3> QED BY <2>4, <3>1, SubSeqProperties
  <2> QED BY <1>2, <1>4, <2>1, <2>5
<1> QED BY <1>3, <1>4

LEMMA SrcIs ==
  ASSUME buffer.text \in Seq(Char)
  PROVE  Src \in Seq(Char \ {"nul"}) /\ Src \in Seq(Char) /\ Len(Src) \in Nat
<1>1. Src \in Seq(Char \ {"nul"}) /\ Char \ {"nul"} \subseteq Char
  BY CStringIs DEF Src
<1>2. Src \in Seq(Char)
  BY <1>1, SeqMonotonic
<1> QED BY <1>1, <1>2, LenProperties

(* The buffer of tokens holds what the grammar makes of the first k         *)
(* characters.                                                              *)
Holds(line, k, text) == TokenList(text) = Done(line, k) /\ Rest(text) = Meant(line, k)

(* What is put into the buffer for a character keeps the buffer with the   *)
(* grammar.                                                                 *)
LEMMA HoldsStep ==
  ASSUME NEW line \in Seq(Char), NEW k \in 0 .. Len(line) - 1, NEW text \in Seq(Char),
         Holds(line, k, text), line[k + 1] # "nul"
  PROVE  LET c == line[k + 1]
             idle == c \in {"quote", "backslash"} /\ ~Open(line, k)
         IN  /\ idle \/ (Apart(line, k) /\ Apart(line, k + 1)) => Holds(line, k + 1, text)
             /\ ~idle /\ ~Apart(line, k + 1) => Holds(line, k + 1, Append(text, c))
             /\ ~Apart(line, k) /\ Apart(line, k + 1) =>
                  Holds(line, k + 1, Append(text, "nul"))
<1> DEFINE c == line[k + 1]
           idle == c \in {"quote", "backslash"} /\ ~Open(line, k)
<1>0. k \in 0 .. Len(line) /\ c \in Char \ {"nul"}
  <2>1. k + 1 \in 1 .. Len(line) /\ k \in 0 .. Len(line)
    BY LenProperties
  <2> QED BY <2>1, ElementOfSeq
<1>1. /\ Meant(line, k + 1) = IF Apart(line, k + 1) THEN <<>>
                              ELSE IF idle THEN Meant(line, k)
                              ELSE Append(Meant(line, k), c)
      /\ Done(line, k + 1) = IF ~Apart(line, k) /\ Apart(line, k + 1)
                               THEN Append(Done(line, k), Meant(line, k))
                               ELSE Done(line, k)
      /\ Apart(line, k + 1) => c = "blank"
  BY GrammarStep
<1>2. Apart(line, k) => Meant(line, k) = <<>>
  BY <1>0, NothingApart
<1>3. /\ TokenList(Append(text, c)) = TokenList(text)
      /\ Rest(Append(text, c)) = Append(Rest(text), c)
  <2> HIDE DEF c
  <2> QED BY <1>0, LetterWritten
<1>4. /\ TokenList(Append(text, "nul")) = Append(TokenList(text), Rest(text))
      /\ Rest(Append(text, "nul")) = <<>>
  BY ZeroWritten
<1> HIDE DEF c
<1>5. TokenList(text) = Done(line, k) /\ Rest(text) = Meant(line, k)
  BY DEF Holds
<1>6. ASSUME idle \/ (Apart(line, k) /\ Apart(line, k + 1)) PROVE Holds(line, k + 1, text)
  BY <1>1, <1>2, <1>5, <1>6 DEF Holds
<1>7. ASSUME ~idle, ~Apart(line, k + 1) PROVE Holds(line, k + 1, Append(text, c))
  BY <1>1, <1>3, <1>5, <1>7 DEF Holds
<1>8. ASSUME ~Apart(line, k), Apart(line, k + 1) PROVE Holds(line, k + 1, Append(text, "nul"))
  BY <1>1, <1>4, <1>5, <1>8 DEF Holds
<1> QED BY <1>6, <1>7, <1>8 DEF c

(* The state that the lexer is in after k characters *)
StateAt(line, k) ==
  IF Open(line, k)
    THEN IF Quoting(line, k) THEN "ST_QUOTE_ESCAPE" ELSE "ST_ESCAPE"
  ELSE IF Quoting(line, k) THEN "ST_QUOTE"
  ELSE IF Apart(line, k) THEN "ST_WHITESPACE" ELSE "ST_WORD"

(* What is in the lexer's hands when the next character is the i-th: the    *)
(* grammar's place in the line, or, behind the last, the result.            *)
AtPlace ==
  /\ state = StateAt(Src, i - 1)
  /\ Holds(Src, i - 1, tokens.text)

Through ==
  IF state = "ST_ERROR" THEN Grammar(Src) = NULL ELSE TokenList(tokens.text) = Grammar(Src)

LexInv ==
  /\ pc \in {"read", "lex", "listed"}
  /\ buffer.text \in Seq(Char) /\ tokens.text \in Seq(Char)
  /\ pc = "read" => state = "ST_WHITESPACE" /\ i = 1 /\ tokens.text = <<>>
  /\ pc = "lex" => /\ i \in 1 .. Len(Src) + 2
                   /\ IF i <= Len(Src) + 1 THEN AtPlace ELSE Through
  /\ pc = "listed" => list = Grammar(Src)

(* What a character of the line means where the lexer is *)
LEMMA AtCharacter ==
  ASSUME LexInv, pc = "lex", i <= Len(Src)
  PROVE  /\ Current \in Char \ {"nul"}
         /\ ~(Open(Src, i - 1) /\ Apart(Src, i - 1)) /\ ~(Quoting(Src, i - 1) /\ Apart(Src, i - 1))
         /\ Open(Src, i) <=> Current = "backslash" /\ ~Open(Src, i - 1)
         /\ Quoting(Src, i) <=>
              IF Current = "quote" /\ ~Open(Src, i - 1) THEN ~Quoting(Src, i - 1)
                                                        ELSE Quoting(Src, i - 1)
         /\ Apart(Src, i) <=> Current = "blank" /\ ~Open(Src, i - 1) /\ ~Quoting(Src, i - 1)
         /\ LET idle == Current \in {"quote", "backslash"} /\ ~Open(Src, i - 1)
            IN  /\ idle \/ (Apart(Src, i - 1) /\ Apart(Src, i)) => Holds(Src, i, tokens.text)
                /\ ~idle /\ ~Apart(Src, i) => Holds(Src, i, Append(tokens.text, Current))
                /\ ~Apart(Src, i - 1) /\ Apart(Src, i) =>
                     Holds(Src, i, Append(tokens.text, "nul"))
<1> DEFINE line == Src
           k == i - 1
           n == Len(line)
<1>1. line \in Seq(Char \ {"nul"}) /\ n \in Nat /\ i \in 1 .. n /\ line \in Seq(Char)
  <2>1. line \in Seq(Char \ {"nul"}) /\ n \in Nat /\ line \in Seq(Char)
    BY SrcIs DEF LexInv
  <2> HIDE DEF n
  <2>2. i \in 1 .. n
    BY <2>1 DEF LexInv, n
  <2> QED BY <2>1, <2>2
<1>2. Current = line[i]
  <2> HIDE DEF line
  <2>1. "nul" \in Char
    BY DEF Char
  <2>2. Append(line, "nul")[i] = line[i]
    BY <1>1, <2>1, AppendProperties
  <2> QED BY <2>2 DEF Current, line
<1>3. line[i] \in Char \ {"nul"}
  <2> DEFINE D == Char \ {"nul"}
  <2>1. line \in Seq(D) /\ i \in 1 .. Len(line)
    BY <1>1
  <2> HIDE DEF line, D
  <2>2. line[i] \in D
    BY <2>1, ElementOfSeq
  <2> QED BY <2>2 DEF D
<1>4. k \in 0 .. n - 1 /\ k + 1 = i /\ k \in 0 .. n
  <2> HIDE DEF n
  <2> QED BY <1>1
<1>5. Holds(line, k, tokens.text) /\ tokens.text \in Seq(Char)
  <2>1. i <= Len(Src) + 1
    BY <1>1
  <2> QED BY <2>1 DEF LexInv, AtPlace
<1> DEFINE c == Current
<1>6. c = line[k + 1] /\ c # "nul"
  BY <1>2, <1>3, <1>4
<1> HIDE DEF line, k, n, c
<1>7. ~(Open(line, k) /\ Apart(line, k)) /\ ~(Quoting(line, k) /\ Apart(line, k))
  BY <1>1, <1>4, NothingApart DEF n
<1>8. /\ Open(line, k + 1) <=> c = "backslash" /\ ~Open(line, k)
      /\ Quoting(line, k + 1) <=>
           IF c = "quote" /\ ~Open(line, k) THEN ~Quoting(line, k) ELSE Quoting(line, k)
      /\ Apart(line, k + 1) <=> c = "blank" /\ ~Open(line, k) /\ ~Quoting(line, k)
  BY <1>1, <1>4, <1>6, GrammarStep DEF n
<1>9. LET idle == c \in {"quote", "backslash"} /\ ~Open(line, k)
      IN  /\ idle \/ (Apart(line, k) /\ Apart(line, k + 1)) => Holds(line, k + 1, tokens.text)
          /\ ~idle /\ ~Apart(line, k + 1) => Holds(line, k + 1, Append(tokens.text, c))
          /\ ~Apart(line, k) /\ Apart(line, k + 1) =>
               Holds(line, k + 1, Append(tokens.text, "nul"))
  <2>1. line[k + 1] # "nul" /\ k \in 0 .. Len(line) - 1
    BY <1>4, <1>6 DEF n
  <2> QED BY <1>1, <1>5, <1>6, <2>1, HoldsStep
<1>10. k + 1 = i /\ c \in Char \ {"nul"}
  BY <1>2, <1>3, <1>4 DEF c
<1> QED BY <1>7, <1>8, <1>9, <1>10 DEF c, line, k

(* And at the end of the line *)
LEMMA AtTheEnd ==
  ASSUME LexInv, pc = "lex", i = Len(Src) + 1
  PROVE  /\ Current = "nul" /\ tokens.text \in Seq(Char)
         /\ ~(Open(Src, i - 1) /\ Apart(Src, i - 1)) /\ ~(Quoting(Src, i - 1) /\ Apart(Src, i - 1))
         /\ Quoting(Src, i - 1) \/ Open(Src, i - 1) => Grammar(Src) = NULL
         /\ ~(Quoting(Src, i - 1) \/ Open(Src, i - 1)) =>
              IF Apart(Src, i - 1) THEN TokenList(tokens.text) = Grammar(Src)
              ELSE TokenList(Append(tokens.text, "nul")) = Grammar(Src)
<1> DEFINE line == Src
           n == Len(line)
<1>1. line \in Seq(Char) /\ n \in Nat
  BY SrcIs DEF LexInv
<1>2. Current = "nul"
  <2> HIDE DEF line
  <2>1. "nul" \in Char
    BY DEF Char
  <2>2. Append(line, "nul")[n + 1] = "nul"
    BY <1>1, <2>1, AppendProperties
  <2> QED BY <2>2 DEF Current, line
<1>3. i - 1 = n /\ i <= Len(Src) + 1 /\ n \in 0 .. n
  <2> HIDE DEF line
  <2> QED BY <1>1 DEF line
<1>4. Holds(line, n, tokens.text) /\ tokens.text \in Seq(Char)
  BY <1>3 DEF LexInv, AtPlace
<1>5. Grammar(line) = IF Quoting(line, n) \/ Open(line, n) THEN NULL
                      ELSE IF Apart(line, n) THEN Done(line, n)
                      ELSE Append(Done(line, n), Meant(line, n))
  <2> HIDE DEF line
  <2> QED BY <1>1, GrammarEnds
<1>6. TokenList(Append(tokens.text, "nul")) = Append(TokenList(tokens.text), Rest(tokens.text))
  BY <1>4, ZeroWritten
<1> HIDE DEF line
<1>7. ~(Open(line, n) /\ Apart(line, n)) /\ ~(Quoting(line, n) /\ Apart(line, n))
  BY <1>1, <1>3, NothingApart
<1> HIDE DEF n
<1>8. /\ Quoting(line, n) \/ Open(line, n) => Grammar(line) = NULL
      /\ ~(Quoting(line, n) \/ Open(line, n)) =>
            IF Apart(line, n) THEN TokenList(tokens.text) = Grammar(line)
            ELSE TokenList(Append(tokens.text, "nul")) = Grammar(line)
  BY <1>4, <1>5, <1>6 DEF Holds
<1> QED BY <1>2, <1>3, <1>4, <1>7, <1>8 DEF line

(* What a step of the five states has to make of the next character *)
Stepped ==
  /\ (tokens').text \in Seq(Char)
  /\ i <= Len(Src) => state' = StateAt(Src, i) /\ Holds(Src, i, (tokens').text)
  /\ i > Len(Src) => IF state' = "ST_ERROR" THEN Grammar(Src) = NULL
                     ELSE TokenList((tokens').text) = Grammar(Src)

(* The characters are told apart. *)
LEMMA Characters ==
  /\ \A c \in Plain : c \in Char \ {"blank", "quote", "backslash", "nul"}
  /\ {"blank", "quote", "backslash", "nul"} \subseteq Char
BY PlainAssumption DEF Char

(* The two ways to go on *)
LEMMA Going ==
  ASSUME LexInv
  PROVE  /\ \A s : Goto(s) => /\ state' = s /\ (tokens').text = tokens.text
                              /\ (tokens').text \in Seq(Char)
         /\ \A s, c : c \in Char /\ PutGoto(c, s) =>
              /\ state' = s /\ (tokens').text = Append(tokens.text, c)
              /\ (tokens').text \in Seq(Char)
<1>1. tokens.text \in Seq(Char)
  BY DEF LexInv
<1>2. \A c \in Char : Append(tokens.text, c) \in Seq(Char)
  BY <1>1, AppendProperties
<1> QED BY <1>1, <1>2 DEF Goto, PutGoto, PutChar

(* Where the lexer is, for each state *)
LEMMA Where ==
  ASSUME LexInv, NEW s, At(s)
  PROVE  /\ pc = "lex" /\ state = s /\ i \in Nat /\ Len(Src) \in Nat
         /\ i <= Len(Src) \/ i = Len(Src) + 1
         /\ s = StateAt(Src, i - 1)
<1>1. Len(Src) \in Nat
  BY SrcIs DEF LexInv
<1>2. pc = "lex" /\ state = s /\ i \in 1 .. Len(Src) + 2 /\ i <= Len(Src) + 1 /\ AtPlace
  BY DEF LexInv, At
<1> HIDE DEF LexInv
<1> QED BY <1>1, <1>2 DEF AtPlace

(* What is to be shown of a step inside the line *)
LEMMA Gone ==
  ASSUME LexInv, i \in Nat, Len(Src) \in Nat, i <= Len(Src), NEW s, s = StateAt(Src, i),
         \/ Goto(s) /\ Holds(Src, i, tokens.text)
         \/ \E c \in Char : PutGoto(c, s) /\ Holds(Src, i, Append(tokens.text, c))
  PROVE  Stepped
<1>1. state' = s /\ (tokens').text \in Seq(Char) /\ Holds(Src, i, (tokens').text)
  <2>1. CASE Goto(s) /\ Holds(Src, i, tokens.text)
    BY <2>1, Going
  <2>2. ASSUME NEW c \in Char, PutGoto(c, s), Holds(Src, i, Append(tokens.text, c))
        PROVE  state' = s /\ (tokens').text \in Seq(Char) /\ Holds(Src, i, (tokens').text)
    BY <2>2, Going
  <2> QED BY <2>1, <2>2
<1> QED BY <1>1 DEF Stepped

(* The five states *)
LEMMA WhitespaceStep ==
  ASSUME LexInv, Whitespace
  PROVE  Stepped
<1>1. /\ pc = "lex" /\ i \in Nat /\ Len(Src) \in Nat
      /\ i <= Len(Src) \/ i = Len(Src) + 1
      /\ ~Open(Src, i - 1) /\ ~Quoting(Src, i - 1) /\ Apart(Src, i - 1)
  <2>1. At("ST_WHITESPACE")
    BY DEF Whitespace
  <2> QED BY <2>1, Where DEF StateAt
<1>2. \/ Current = "quote" /\ Goto("ST_QUOTE")
      \/ Current = "backslash" /\ Goto("ST_ESCAPE")
      \/ Current \in Plain /\ PutGoto(Current, "ST_WORD")
      \/ Current \in {"blank", "nul"} /\ Goto("ST_WHITESPACE")
  BY DEF Whitespace
<1>3. CASE i <= Len(Src)
  <2>1. /\ Current \in Char \ {"nul"}
        /\ Open(Src, i) <=> Current = "backslash"
        /\ Quoting(Src, i) <=> Current = "quote"
        /\ Apart(Src, i) <=> Current = "blank"
        /\ Current \in {"quote", "backslash"} \/ Apart(Src, i) => Holds(Src, i, tokens.text)
        /\ ~(Current \in {"quote", "backslash"}) /\ ~Apart(Src, i) =>
             Holds(Src, i, Append(tokens.text, Current))
    BY <1>1, <1>3, AtCharacter
  <2>2. Current \in Plain \/ Current \in {"blank", "quote", "backslash"}
    BY <2>1 DEF Char
  <2>3. CASE Current = "quote"
    <3>1. Goto("ST_QUOTE")
      BY <1>2, <2>1, <2>3, Characters
    <3>2. Holds(Src, i, tokens.text)
      BY <2>1, <2>3, Characters
    <3>3. StateAt(Src, i) = "ST_QUOTE"
      BY <2>1, <2>3, Characters DEF StateAt
    <3> QED BY <1>1, <1>3, <2>1, <3>1, <3>2, <3>3, Characters, Gone
  <2>4. CASE Current = "backslash"
    <3>1. Goto("ST_ESCAPE")
      BY <1>2, <2>1, <2>4, Characters
    <3>2. Holds(Src, i, tokens.text)
      BY <2>1, <2>4, Characters
    <3>3. StateAt(Src, i) = "ST_ESCAPE"
      BY <2>1, <2>4, Characters DEF StateAt
    <3> QED BY <1>1, <1>3, <2>1, <3>1, <3>2, <3>3, Characters, Gone
  <2>5. CASE Current \in Plain
    <3>1. PutGoto(Current, "ST_WORD")
      BY <1>2, <2>1, <2>5, Characters
    <3>2. Holds(Src, i, Append(tokens.text, Current))
      BY <2>1, <2>5, Characters
    <3>3. StateAt(Src, i) = "ST_WORD"
      BY <2>1, <2>5, Characters DEF StateAt
    <3> QED BY <1>1, <1>3, <2>1, <3>1, <3>2, <3>3, Characters, Gone
  <2>6. CASE Current = "blank"
    <3>1. Goto("ST_WHITESPACE")
      BY <1>2, <2>1, <2>6, Characters
    <3>2. Holds(Src, i, tokens.text)
      BY <2>1, <2>6, Characters
    <3>3. StateAt(Src, i) = "ST_WHITESPACE"
      BY <2>1, <2>6, Characters DEF StateAt
    <3> QED BY <1>1, <1>3, <2>1, <3>1, <3>2, <3>3, Characters, Gone
  <2> QED BY <2>2, <2>3, <2>4, <2>5, <2>6
<1>4. CASE i = Len(Src) + 1
  BY <1>1, <1>2, <1>4, AtTheEnd, Characters, Going DEF Stepped
<1> QED BY <1>1, <1>3, <1>4

LEMMA QuoteStep ==
  ASSUME LexInv, Quote
  PROVE  Stepped
<1>1. /\ pc = "lex" /\ i \in Nat /\ Len(Src) \in Nat
      /\ i <= Len(Src) \/ i = Len(Src) + 1
      /\ ~Open(Src, i - 1) /\ Quoting(Src, i - 1)
  <2>1. At("ST_QUOTE")
    BY DEF Quote
  <2> QED BY <2>1, Where DEF StateAt
<1>2. \/ Current = "quote" /\ Goto("ST_WORD")
      \/ Current = "backslash" /\ Goto("ST_QUOTE_ESCAPE")
      \/ Current \in Plain \cup {"blank"} /\ PutGoto(Current, "ST_QUOTE")
      \/ Current = "nul" /\ Goto("ST_ERROR")
  BY DEF Quote
<1>3. CASE i <= Len(Src)
  <2>1. /\ Current \in Char \ {"nul"}
        /\ Open(Src, i) <=> Current = "backslash"
        /\ Quoting(Src, i) <=> Current # "quote"
        /\ ~Apart(Src, i)
        /\ Current \in {"quote", "backslash"} => Holds(Src, i, tokens.text)
        /\ ~(Current \in {"quote", "backslash"}) => Holds(Src, i, Append(tokens.text, Current))
    BY <1>1, <1>3, AtCharacter
  <2>2. Current \in Plain \/ Current \in {"blank", "quote", "backslash"}
    BY <2>1 DEF Char
  <2>3. CASE Current = "quote"
    <3>1. Goto("ST_WORD")
      BY <1>2, <2>1, <2>3, Characters
    <3>2. Holds(Src, i, tokens.text)
      BY <2>1, <2>3, Characters
    <3>3. StateAt(Src, i) = "ST_WORD"
      BY <2>1, <2>3, Characters DEF StateAt
    <3> QED BY <1>1, <1>3, <2>1, <3>1, <3>2, <3>3, Characters, Gone
  <2>4. CASE Current = "backslash"
    <3>1. Goto("ST_QUOTE_ESCAPE")
      BY <1>2, <2>1, <2>4, Characters
    <3>2. Holds(Src, i, tokens.text)
      BY <2>1, <2>4, Characters
    <3>3. StateAt(Src, i) = "ST_QUOTE_ESCAPE"
      BY <2>1, <2>4, Characters DEF StateAt
    <3> QED BY <1>1, <1>3, <2>1, <3>1, <3>2, <3>3, Characters, Gone
  <2>5. CASE Current \in Plain \cup {"blank"}
    <3>1. PutGoto(Current, "ST_QUOTE")
      BY <1>2, <2>1, <2>5, Characters
    <3>2. Holds(Src, i, Append(tokens.text, Current))
      BY <2>1, <2>5, Characters
    <3>3. StateAt(Src, i) = "ST_QUOTE"
      BY <2>1, <2>5, Characters DEF StateAt
    <3> QED BY <1>1, <1>3, <2>1, <3>1, <3>2, <3>3, Characters, Gone
  <2> QED BY <2>2, <2>3, <2>4, <2>5
<1>4. CASE i = Len(Src) + 1
  BY <1>1, <1>2, <1>4, AtTheEnd, Characters, Going DEF Stepped
<1> QED BY <1>1, <1>3, <1>4

LEMMA WordStep ==
  ASSUME LexInv, Word
  PROVE  Stepped
<1>1. /\ pc = "lex" /\ i \in Nat /\ Len(Src) \in Nat
      /\ i <= Len(Src) \/ i = Len(Src) + 1
      /\ ~Open(Src, i - 1) /\ ~Quoting(Src, i - 1) /\ ~Apart(Src, i - 1)
  <2>1. At("ST_WORD")
    BY DEF Word
  <2> QED BY <2>1, Where DEF StateAt
<1>2. \/ Current \in {"blank", "nul"} /\ PutGoto("nul", "ST_WHITESPACE")
      \/ Current = "quote" /\ Goto("ST_QUOTE")
      \/ Current = "backslash" /\ Goto("ST_ESCAPE")
      \/ Current \in Plain /\ PutGoto(Current, "ST_WORD")
  BY DEF Word
<1>3. CASE i <= Len(Src)
  <2>1. /\ Current \in Char \ {"nul"}
        /\ Open(Src, i) <=> Current = "backslash"
        /\ Quoting(Src, i) <=> Current = "quote"
        /\ Apart(Src, i) <=> Current = "blank"
        /\ Current \in {"quote", "backslash"} => Holds(Src, i, tokens.text)
        /\ ~(Current \in {"quote", "backslash"}) /\ ~Apart(Src, i) =>
             Holds(Src, i, Append(tokens.text, Current))
        /\ Apart(Src, i) => Holds(Src, i, Append(tokens.text, "nul"))
    BY <1>1, <1>3, AtCharacter
  <2>2. Current \in Plain \/ Current \in {"blank", "quote", "backslash"}
    BY <2>1 DEF Char
  <2>3. CASE Current = "quote"
    <3>1. Goto("ST_QUOTE")
      BY <1>2, <2>1, <2>3, Characters
    <3>2. Holds(Src, i, tokens.text)
      BY <2>1, <2>3, Characters
    <3>3. StateAt(Src, i) = "ST_QUOTE"
      BY <2>1, <2>3, Characters DEF StateAt
    <3> QED BY <1>1, <1>3, <2>1, <3>1, <3>2, <3>3, Characters, Gone
  <2>4. CASE Current = "backslash"
    <3>1. Goto("ST_ESCAPE")
      BY <1>2, <2>1, <2>4, Characters
    <3>2. Holds(Src, i, tokens.text)
      BY <2>1, <2>4, Characters
    <3>3. StateAt(Src, i) = "ST_ESCAPE"
      BY <2>1, <2>4, Characters DEF StateAt
    <3> QED BY <1>1, <1>3, <2>1, <3>1, <3>2, <3>3, Characters, Gone
  <2>5. CASE Current \in Plain
    <3>1. PutGoto(Current, "ST_WORD")
      BY <1>2, <2>1, <2>5, Characters
    <3>2. Holds(Src, i, Append(tokens.text, Current))
      BY <2>1, <2>5, Characters
    <3>3. StateAt(Src, i) = "ST_WORD"
      BY <2>1, <2>5, Characters DEF StateAt
    <3> QED BY <1>1, <1>3, <2>1, <3>1, <3>2, <3>3, Characters, Gone
  <2>6. CASE Current = "blank"
    <3>1. PutGoto("nul", "ST_WHITESPACE")
      BY <1>2, <2>1, <2>6, Characters
    <3>2. Holds(Src, i, Append(tokens.text, "nul"))
      BY <2>1, <2>6, Characters
    <3>3. StateAt(Src, i) = "ST_WHITESPACE"
      BY <2>1, <2>6, Characters DEF StateAt
    <3> QED BY <1>1, <1>3, <2>1, <3>1, <3>2, <3>3, Characters, Gone
  <2> QED BY <2>2, <2>3, <2>4, <2>5, <2>6
<1>4. CASE i = Len(Src) + 1
  <2>1. /\ Current = "nul"
        /\ TokenList(Append(tokens.text, "nul")) = Grammar(Src)
    BY <1>1, <1>4, AtTheEnd
  <2>2. PutGoto("nul", "ST_WHITESPACE")
    BY <1>2, <2>1, Characters
  <2>3. /\ state' = "ST_WHITESPACE" /\ (tokens').text = Append(tokens.text, "nul")
        /\ (tokens').text \in Seq(Char)
    BY <2>2, Characters, Going
  <2> QED BY <1>1, <1>4, <2>1, <2>3 DEF Stepped
<1> QED BY <1>1, <1>3, <1>4

LEMMA EscapeStep ==
  ASSUME LexInv, Escape \/ QuoteEscape
  PROVE  Stepped
<1>1. /\ pc = "lex" /\ i \in Nat /\ Len(Src) \in Nat
      /\ i <= Len(Src) \/ i = Len(Src) + 1
      /\ Open(Src, i - 1)
      /\ IF Current = "nul" THEN Goto("ST_ERROR")
         ELSE PutGoto(Current, IF Quoting(Src, i - 1) THEN "ST_QUOTE" ELSE "ST_WORD")
  <2>1. CASE Escape
    <3>1. At("ST_ESCAPE")
      BY <2>1 DEF Escape
    <3> QED BY <2>1, <3>1, Where DEF StateAt, Escape
  <2>2. CASE QuoteEscape
    <3>1. At("ST_QUOTE_ESCAPE")
      BY <2>2 DEF QuoteEscape
    <3> QED BY <2>2, <3>1, Where DEF StateAt, QuoteEscape
  <2> QED BY <2>1, <2>2
<1>3. CASE i <= Len(Src)
  <2> DEFINE s == IF Quoting(Src, i - 1) THEN "ST_QUOTE" ELSE "ST_WORD"
  <2>1. /\ Current \in Char \ {"nul"} /\ PutGoto(Current, s)
        /\ s = StateAt(Src, i)
        /\ Holds(Src, i, Append(tokens.text, Current))
    BY <1>1, <1>3, AtCharacter DEF StateAt
  <2> HIDE DEF s
  <2>2. /\ state' = s /\ (tokens').text = Append(tokens.text, Current)
        /\ (tokens').text \in Seq(Char)
    BY <2>1, Going
  <2> QED BY <1>1, <1>3, <2>1, <2>2 DEF Stepped
<1>4. CASE i = Len(Src) + 1
  BY <1>1, <1>4, AtTheEnd, Going DEF Stepped
<1> QED BY <1>1, <1>3, <1>4

(* The states of the lexer together *)
Turn == Whitespace \/ Quote \/ Word \/ Escape \/ QuoteEscape

LEMMA TurnStep ==
  ASSUME LexInv, Turn
  PROVE  LexInv'
<1>1. Stepped
  BY WhitespaceStep, QuoteStep, WordStep, EscapeStep DEF Turn
<1>2. PICK s : At(s)
  BY DEF Turn, Whitespace, Quote, Word, Escape, QuoteEscape
<1>3. pc = "lex" /\ i \in Nat /\ Len(Src) \in Nat /\ (i <= Len(Src) \/ i = Len(Src) + 1)
  BY <1>2, Where
<1>4. pc' = "lex" /\ buffer' = buffer /\ i' = i + 1
  BY <1>2, <1>3 DEF At
<1>5. Src' = Src
  BY <1>4 DEF Src
<1>6. buffer.text \in Seq(Char) /\ i' \in 1 .. Len(Src) + 2 /\ i' - 1 = i
  BY <1>3, <1>4 DEF LexInv
<1>7. CASE i <= Len(Src)
  <2>1. AtPlace'
    BY <1>1, <1>5, <1>6, <1>7 DEF Stepped, AtPlace
  <2>2. i' <= Len(Src) + 1
    BY <1>3, <1>4, <1>7
  <2> QED BY <1>1, <1>4, <1>5, <1>6, <2>1, <2>2 DEF LexInv, Stepped
<1>8. CASE i = Len(Src) + 1
  <2>1. Through'
    BY <1>1, <1>3, <1>5, <1>8 DEF Stepped, Through
  <2>2. ~ (i' <= Len(Src) + 1)
    BY <1>3, <1>4, <1>8
  <2> QED BY <1>1, <1>4, <1>5, <1>6, <2>1, <2>2 DEF LexInv, Stepped
<1> QED BY <1>3, <1>7, <1>8

(* The list is the grammar's. *)
LEMMA ReturnStep ==
  ASSUME LexInv, Return
  PROVE  LexInv'
<1>1. pc = "lex" /\ i \in 1 .. Len(Src) + 2 /\ (state = "ST_ERROR" \/ i > Len(Src) + 1)
  BY DEF LexInv, Return
<1>2. pc' = "listed" /\ buffer' = buffer /\ tokens' = tokens
      /\ list' = IF state = "ST_ERROR" THEN NULL ELSE TokenList(tokens.text)
  BY DEF Return
<1>3. Src' = Src
  BY <1>2 DEF Src
<1>4. Through
  <2>1. CASE i <= Len(Src) + 1
    <3>1. state = StateAt(Src, i - 1)
      BY <1>1, <2>1 DEF LexInv, AtPlace
    <3>2. state = "ST_ERROR"
      <4>1. Len(Src) \in Nat
        BY SrcIs DEF LexInv
      <4> QED BY <1>1, <2>1, <4>1
    <3> QED BY <3>1, <3>2 DEF StateAt
  <2>2. CASE ~ (i <= Len(Src) + 1)
    BY <1>1, <2>2 DEF LexInv
  <2> QED BY <2>1, <2>2
<1>5. list' = Grammar(Src)
  BY <1>2, <1>4 DEF Through
<1> QED BY <1>2, <1>3, <1>5 DEF LexInv

-----------------------------------------------------------------------------
(* Memory *)

(* Doubling a size comes to an end, at one that is enough. *)
LEMMA EnoughIsEnough ==
  ASSUME NEW current \in Nat \ {0}, NEW required \in Nat
  PROVE  SizeEnough(current, required) \in Nat /\ SizeEnough(current, required) >= required
<1> DEFINE D(m) == {x \in Nat \ {0} : x >= required - m}
           Grows(g, X) == \A x \in X : g[x] = IF x < required THEN g[2 * x] ELSE x
           Body(f) == [x \in Nat \ {0} |-> IF x < required THEN f[2 * x] ELSE x]
           grown == CHOOSE f : f = Body(f)
           T == {m \in 0 .. required : \E g \in [D(m) -> Nat] : Grows(g, D(m))}
<1>1. 0 \in T
  <2> DEFINE g == [x \in D(0) |-> x]
  <2>1. g \in [D(0) -> Nat] /\ Grows(g, D(0))
    OBVIOUS
  <2>2. 0 \in 0 .. required
    OBVIOUS
  <2> HIDE DEF g, D, Grows
  <2> QED BY <2>1, <2>2
<1>2. ASSUME NEW m \in 1 .. required, m - 1 \in T PROVE m \in T
  <2>1. PICK f \in [D(m - 1) -> Nat] : Grows(f, D(m - 1))
    <3> HIDE DEF D, Grows
    <3> QED BY <1>2
  <2> DEFINE g == [x \in D(m) |-> IF x \in D(m - 1) THEN f[x] ELSE f[2 * x]]
  <2>2. \A x \in D(m) : 2 * x \in D(m - 1) /\ 2 * x \in D(m) /\ (x \notin D(m - 1) => x < required)
    OBVIOUS
  <2>3. g \in [D(m) -> Nat]
    <3> HIDE DEF D
    <3> QED BY <2>2
  <2>4. Grows(g, D(m))
    <3> SUFFICES ASSUME NEW x \in D(m) PROVE g[x] = IF x < required THEN g[2 * x] ELSE x
      OBVIOUS
    <3>1. g[2 * x] = f[2 * x]
      <4> HIDE DEF D
      <4> QED BY <2>2
    <3>2. CASE x \in D(m - 1)
      <4>1. f[x] = IF x < required THEN f[2 * x] ELSE x
        <5> HIDE DEF D
        <5> QED BY <2>1, <3>2
      <4>2. g[x] = f[x]
        <5> HIDE DEF D
        <5> QED BY <3>2
      <4> HIDE DEF g, D
      <4> QED BY <3>1, <4>1, <4>2
    <3>3. CASE x \notin D(m - 1)
      <4>1. g[x] = f[2 * x]
        <5> HIDE DEF D
        <5> QED BY <3>3
      <4>2. x < required
        <5> HIDE DEF D
        <5> QED BY <2>2, <3>3
      <4> HIDE DEF g, D
      <4> QED BY <3>1, <4>1, <4>2
    <3> QED BY <3>2, <3>3
  <2>5. m \in 0 .. required
    OBVIOUS
  <2> HIDE DEF g, D, Grows
  <2> QED BY <2>3, <2>4, <2>5
<1>3. required \in T
  <2> HIDE DEF T
  <2>1. 0 .. required \subseteq T
    BY <1>1, <1>2, UpTo
  <2> QED BY <2>1
<1>4. D(required) = Nat \ {0}
  OBVIOUS
<1>5. PICK g \in [Nat \ {0} -> Nat] : Grows(g, Nat \ {0})
  <2>1. \E g \in [D(required) -> Nat] : Grows(g, D(required))
    <3> HIDE DEF D, Grows
    <3> QED BY <1>3
  <2> HIDE DEF D, Grows
  <2> QED BY <1>4, <2>1
<1>6. g = Body(g)
  <2>1. \A x \in Nat \ {0} : g[x] = Body(g)[x]
    BY <1>5
  <2> HIDE DEF T, D
  <2> QED BY <1>5, <2>1
<1>7. grown = Body(grown)
  <2> HIDE DEF Body
  <2> QED BY <1>6
<1>8. SizeEnough(current, required) = grown[current]
  BY DEF SizeEnough
<1> HIDE DEF grown, T, D
<1>9. \A x \in Nat \ {0} : grown[x] = IF x < required THEN grown[2 * x] ELSE x
  <2>1. \A x \in Nat \ {0} : Body(grown)[x] = IF x < required THEN grown[2 * x] ELSE x
    OBVIOUS
  <2> HIDE DEF Body
  <2> QED BY <1>7, <2>1
<1> DEFINE U == {m \in 0 .. required : \A x \in Nat \ {0} :
                   x >= required - m => grown[x] \in Nat /\ grown[x] >= required}
<1>10. 0 \in U
  BY <1>9
<1>11. ASSUME NEW m \in 1 .. required, m - 1 \in U PROVE m \in U
  <2> SUFFICES ASSUME NEW x \in Nat \ {0}, x >= required - m
               PROVE  grown[x] \in Nat /\ grown[x] >= required
    OBVIOUS
  <2>1. CASE x < required
    <3>1. 2 * x \in Nat \ {0} /\ 2 * x >= required - (m - 1)
      OBVIOUS
    <3>2. grown[2 * x] \in Nat /\ grown[2 * x] >= required
      BY <1>11, <3>1
    <3> QED BY <1>9, <2>1, <3>2
  <2>2. CASE ~ (x < required)
    BY <1>9, <2>2
  <2> QED BY <2>1, <2>2
<1>12. 0 .. required \subseteq U
  <2> HIDE DEF U
  <2> QED BY <1>10, <1>11, UpTo
<1>13. grown[current] \in Nat /\ grown[current] >= required
  <2>1. required \in U /\ current >= required - required
    BY <1>12
  <2> QED BY <2>1
<1> QED BY <1>8, <1>13

(* What a buffer is, and that its text and the terminating zero fit into    *)
(* its memory                                                               *)
Buffer == [text : Seq(Char), memsize : Nat \ {0}]

Fits(buf) == Len(buf.text) + 1 <= buf.memsize

LEMMA PutCharFits ==
  ASSUME NEW buf \in Buffer, NEW c \in Char
  PROVE  /\ PutChar(buf, c) \in Buffer /\ Fits(PutChar(buf, c))
         /\ PutChar(buf, c).text = Append(buf.text, c)
<1> DEFINE n == Len(buf.text)
<1>1. buf.text \in Seq(Char) /\ n \in Nat /\ buf.memsize \in Nat \ {0}
  BY LenProperties DEF Buffer
<1>2. Append(buf.text, c) \in Seq(Char) /\ Len(Append(buf.text, c)) = n + 1
  BY <1>1, AppendProperties
<1> DEFINE m == EnsureSize(buf.memsize, n + 1)
<1>3. m \in Nat /\ m >= n + 1 + 1
  <2> HIDE DEF n
  <2>1. n + 1 + 1 \in Nat
    BY <1>1
  <2> DEFINE e == SizeEnough(buf.memsize, n + 1 + 1)
  <2>2. e \in Nat /\ e >= n + 1 + 1
    BY <1>1, <2>1, EnoughIsEnough
  <2> HIDE DEF e
  <2>3. m = IF buf.memsize >= n + 1 + 1 THEN buf.memsize ELSE e
    BY DEF EnsureSize, e
  <2> QED BY <1>1, <2>2, <2>3
<1> HIDE DEF m, n
<1>4. PutChar(buf, c) = [text |-> Append(buf.text, c), memsize |-> m]
  BY DEF PutChar, m, n
<1> QED BY <1>1, <1>2, <1>3, <1>4 DEF Buffer, Fits

(* A sequence is built from its beginnings. *)
LEMMA SubSeqStep ==
  ASSUME NEW S, NEW s \in Seq(S)
  PROVE  /\ SubSeq(s, 1, 0) = <<>> /\ SubSeq(s, 1, Len(s)) = s
         /\ \A k \in 1 .. Len(s) : /\ SubSeq(s, 1, k - 1) \in Seq(S)
                                   /\ SubSeq(s, 1, k) = Append(SubSeq(s, 1, k - 1), s[k])
<1>1. Len(s) \in Nat /\ \A k \in 1 .. Len(s) : s[k] \in S
  BY LenProperties, ElementOfSeq
<1> DEFINE b(k) == SubSeq(s, 1, k)
<1>2. ASSUME NEW k \in 0 .. Len(s)
      PROVE  b(k) \in Seq(S) /\ Len(b(k)) = k /\ \A j \in 1 .. k : b(k)[j] = s[j]
  <2>1. \A j \in 1 .. k : s[j] \in S
    BY <1>1
  <2>2. /\ b(k) \in Seq(S) /\ Len(b(k)) = IF 1 <= k THEN k - 1 + 1 ELSE 0
        /\ \A j \in 1 .. k - 1 + 1 : b(k)[j] = s[1 + j - 1]
    BY <1>1, <2>1, SubSeqProperties
  <2>3. k - 1 + 1 = k /\ (~(1 <= k) => k = 0)
    BY <1>1
  <2> HIDE DEF b
  <2>4. Len(b(k)) = k
    BY <2>2, <2>3
  <2>5. ASSUME NEW j \in 1 .. k PROVE b(k)[j] = s[j]
    <3>1. j \in 1 .. k - 1 + 1 /\ 1 + j - 1 = j
      BY <1>1
    <3> QED BY <2>2, <3>1
  <2> QED BY <2>2, <2>4, <2>5
<1> HIDE DEF b
<1>3. b(0) = <<>>
  <2>1. 0 \in 0 .. Len(s)
    BY <1>1
  <2>2. b(0) \in Seq(S) /\ Len(b(0)) = 0
    BY <1>2, <2>1
  <2> QED BY <2>2, EmptySeq
<1>4. b(Len(s)) = s
  <2>1. Len(s) \in 0 .. Len(s)
    BY <1>1
  <2>2. b(Len(s)) \in Seq(S) /\ Len(b(Len(s))) = Len(s)
        /\ \A j \in 1 .. Len(s) : b(Len(s))[j] = s[j]
    BY <1>2, <2>1
  <2> QED BY <2>2, SeqEqual
<1>5. ASSUME NEW k \in 1 .. Len(s)
      PROVE  b(k - 1) \in Seq(S) /\ b(k) = Append(b(k - 1), s[k])
  <2>1. k \in 0 .. Len(s) /\ k - 1 \in 0 .. Len(s)
    BY <1>1
  <2> DEFINE x == b(k - 1)
             y == b(k)
             z == Append(x, s[k])
  <2>2. x \in Seq(S) /\ Len(x) = k - 1 /\ \A j \in 1 .. k - 1 : x[j] = s[j]
    BY <1>2, <2>1
  <2>3. y \in Seq(S) /\ Len(y) = k /\ \A j \in 1 .. k : y[j] = s[j]
    BY <1>2, <2>1
  <2> HIDE DEF x, y
  <2>4. /\ z \in Seq(S) /\ Len(z) = k - 1 + 1 /\ z[k - 1 + 1] = s[k]
        /\ \A j \in 1 .. k - 1 : z[j] = x[j]
    <3>1. s[k] \in S
      BY <1>1
    <3> QED BY <2>2, <3>1, AppendProperties
  <2> HIDE DEF z
  <2>5. k - 1 + 1 = k
    OBVIOUS
  <2>6. ASSUME NEW j \in 1 .. k PROVE y[j] = z[j]
    <3>1. CASE j = k
      BY <2>3, <2>4, <2>5, <3>1
    <3>2. CASE j # k
      <4>1. j \in 1 .. k - 1
        BY <3>2
      <4> QED BY <2>2, <2>3, <2>4, <4>1
    <3> QED BY <3>1, <3>2
  <2>7. y = z
    BY <2>3, <2>4, <2>5, <2>6, SeqEqual
  <2> QED BY <2>2, <2>7 DEF x, y, z
<1> QED BY <1>3, <1>4, <1>5 DEF b

(* Writing a line into an empty buffer leaves the line in it. *)
LEMMA PutAllFits ==
  ASSUME NEW buf \in Buffer, Fits(buf), buf.text = <<>>, NEW chars \in Seq(Char)
  PROVE  /\ PutAll(buf, chars) \in Buffer /\ Fits(PutAll(buf, chars))
         /\ PutAll(buf, chars).text = chars
<1> DEFINE n == Len(chars)
           Body(f) == [k \in 0 .. n |-> IF k = 0 THEN buf ELSE PutChar(f[k - 1], chars[k])]
           put == CHOOSE f : f = Body(f)
           h == [v \in Buffer \X (1 .. n) |-> PutChar(v[1], chars[v[2]])]
<1>0. n \in Nat /\ \A k \in 1 .. n : chars[k] \in Char
  BY LenProperties, ElementOfSeq
<1>1. h \in Steps(Buffer, n)
  <2>1. \A v \in Buffer \X (1 .. n) : v[1] \in Buffer /\ chars[v[2]] \in Char
    BY <1>0
  <2>2. \A v \in Buffer \X (1 .. n) : PutChar(v[1], chars[v[2]]) \in Buffer
    <3> HIDE DEF n
    <3> QED BY <2>1, PutCharFits
  <2> HIDE DEF n
  <2> QED BY <2>2 DEF Steps
<1>2. PICK g : Iterates(g, Buffer, n, buf, h)
  <2> HIDE DEF h, n
  <2> QED BY <1>0, <1>1, Iterated
<1>3. /\ g \in [0 .. n -> Buffer] /\ g[0] = buf
      /\ \A k \in 1 .. n : g[k] = PutChar(g[k - 1], chars[k])
  <2>1. g \in [0 .. n -> Buffer] /\ g[0] = buf /\ \A k \in 1 .. n : g[k] = h[<<g[k - 1], k>>]
    BY <1>2 DEF Iterates
  <2>2. ASSUME NEW k \in 1 .. n PROVE g[k] = PutChar(g[k - 1], chars[k])
    <3> HIDE DEF n
    <3>1. k - 1 \in 0 .. n
      BY <1>0
    <3>2. <<g[k - 1], k>> \in Buffer \X (1 .. n)
      BY <2>1, <3>1
    <3>3. h[<<g[k - 1], k>>] = PutChar(g[k - 1], chars[k])
      BY <3>2
    <3> HIDE DEF h
    <3> QED BY <2>1, <3>3
  <2> QED BY <2>1, <2>2
<1>4. g = Body(g)
  <2> HIDE DEF n
  <2>1. ASSUME NEW k \in 0 .. n PROVE g[k] = IF k = 0 THEN buf ELSE PutChar(g[k - 1], chars[k])
    <3>1. k = 0 \/ k \in 1 .. n
      BY <1>0
    <3> QED BY <1>3, <3>1
  <2> QED BY <1>3, <2>1
<1>5. put = Body(put)
  BY <1>4
<1>6. PutAll(buf, chars) = put[n]
  BY DEF PutAll
<1> HIDE DEF put, n
<1>7. put[0] = buf /\ \A k \in 1 .. n : put[k] = PutChar(put[k - 1], chars[k])
  <2>1. ASSUME NEW k \in 0 .. n
        PROVE  put[k] = IF k = 0 THEN buf ELSE PutChar(put[k - 1], chars[k])
    <3>1. Body(put)[k] = IF k = 0 THEN buf ELSE PutChar(put[k - 1], chars[k])
      OBVIOUS
    <3> HIDE DEF Body
    <3> QED BY <1>5, <3>1
  <2>2. 0 \in 0 .. n
    BY <1>0
  <2>3. \A k \in 1 .. n : k \in 0 .. n /\ k # 0
    BY <1>0
  <2> QED BY <2>1, <2>2, <2>3
<1> DEFINE T == {k \in 0 .. n : /\ put[k] \in Buffer /\ Fits(put[k])
                                /\ put[k].text = SubSeq(chars, 1, k)}
<1>8. 0 \in T
  <2>1. SubSeq(chars, 1, 0) = <<>>
    BY SubSeqStep
  <2>2. put[0] \in Buffer /\ Fits(put[0]) /\ put[0].text = SubSeq(chars, 1, 0)
    BY <1>7, <2>1
  <2>3. 0 \in 0 .. n
    BY <1>0
  <2> QED BY <2>2, <2>3
<1>9. ASSUME NEW k \in 1 .. n, k - 1 \in T PROVE k \in T
  <2>1. put[k - 1] \in Buffer /\ put[k - 1].text = SubSeq(chars, 1, k - 1)
    BY <1>9
  <2>2. /\ put[k] \in Buffer /\ Fits(put[k])
        /\ put[k].text = Append(SubSeq(chars, 1, k - 1), chars[k])
    BY <1>0, <1>7, <2>1, PutCharFits
  <2>3. SubSeq(chars, 1, k) = Append(SubSeq(chars, 1, k - 1), chars[k])
    BY SubSeqStep DEF n
  <2> QED BY <1>0, <2>2, <2>3
<1>10. n \in T
  <2> HIDE DEF T
  <2>1. 0 .. n \subseteq T
    BY <1>0, <1>8, <1>9, UpTo
  <2> QED BY <1>0, <2>1
<1>11. SubSeq(chars, 1, n) = chars
  BY SubSeqStep DEF n
<1> QED BY <1>6, <1>10, <1>11

-----------------------------------------------------------------------------
(* The client's parser *)

Parser == [state : {"Whitespace", "Quote", "Word", "thrown"},
           word : Seq(Char), words : Seq(Seq(Char))]

Start == [state |-> "Whitespace", word |-> <<>>, words |-> <<>>]

(* One character, by the state in which it is met *)
LEMMA ParseCharIs ==
  ASSUME NEW p \in Parser, NEW c \in Char
  PROVE  /\ ParseChar(p, c) \in Parser
         /\ p.state # "thrown" /\ c = "quote" =>
              ParseChar(p, c) = [p EXCEPT !.state = IF p.state = "Quote" THEN "Word" ELSE "Quote"]
         /\ p.state = "Quote" /\ c = "nul" => ParseChar(p, c).state = "thrown"
         /\ p.state = "Quote" /\ c \notin {"quote", "nul"} =>
              ParseChar(p, c) = [p EXCEPT !.word = Append(p.word, c)]
         /\ p.state = "Whitespace" /\ c \in {"blank", "nul"} => ParseChar(p, c) = p
         /\ p.state = "Word" /\ c \in {"blank", "nul"} =>
              ParseChar(p, c) = [state |-> "Whitespace", word |-> <<>>,
                                 words |-> Append(p.words, p.word)]
         /\ p.state \in {"Whitespace", "Word"} /\ c \notin {"quote", "blank", "nul"} =>
              ParseChar(p, c) = [p EXCEPT !.state = "Word", !.word = Append(p.word, c)]
<1>1. /\ p.state \in {"Whitespace", "Quote", "Word", "thrown"}
      /\ Append(p.word, c) \in Seq(Char) /\ Append(p.words, p.word) \in Seq(Seq(Char))
      /\ <<>> \in Seq(Char)
  <2>1. p.word \in Seq(Char) /\ p.words \in Seq(Seq(Char))
    BY DEF Parser
  <2> DEFINE W == Seq(Char)
             x == p.word
  <2>2. x \in W /\ p.words \in Seq(W)
    BY <2>1
  <2> HIDE DEF W, x
  <2>3. Append(p.words, x) \in Seq(W)
    BY <2>2, AppendProperties
  <2>4. p.state \in {"Whitespace", "Quote", "Word", "thrown"}
    BY DEF Parser
  <2> QED BY <2>1, <2>3, <2>4, AppendProperties, EmptySeq DEF W, x
<1> DEFINE Blank == c \in {"blank", "nul"}
           q == ParseChar(p, c)
<1>2. CASE p.state = "thrown"
  <2>1. q = p
    BY <1>2 DEF ParseChar
  <2> QED BY <1>2, <2>1
<1>3. CASE p.state # "thrown" /\ c = "quote"
  <2>1. q = [p EXCEPT !.state = IF p.state = "Quote" THEN "Word" ELSE "Quote"]
    BY <1>3 DEF ParseChar
  <2>2. q \in Parser
    BY <2>1 DEF Parser
  <2> QED BY <1>3, <2>1, <2>2
<1>4. CASE p.state = "Quote" /\ c = "nul"
  <2>1. q = [p EXCEPT !.state = "thrown"]
    BY <1>4 DEF ParseChar
  <2>2. q \in Parser /\ q.state = "thrown"
    BY <2>1 DEF Parser
  <2> QED BY <1>4, <2>1, <2>2
<1>5. CASE p.state = "Word" /\ Blank
  <2>1. q = [state |-> "Whitespace", word |-> <<>>, words |-> Append(p.words, p.word)]
    BY <1>5 DEF ParseChar
  <2>2. q \in Parser
    BY <1>1, <2>1 DEF Parser
  <2> QED BY <1>5, <2>1, <2>2
<1>6. CASE p.state = "Quote" /\ c \notin {"quote", "nul"}
  <2>1. q = [p EXCEPT !.word = Append(p.word, c)]
    BY <1>6 DEF ParseChar
  <2>2. q \in Parser
    BY <1>1, <2>1 DEF Parser
  <2> QED BY <1>6, <2>1, <2>2
<1>7. CASE p.state \in {"Whitespace", "Word"} /\ c # "quote" /\ ~Blank
  <2>1. q = [p EXCEPT !.state = "Word", !.word = Append(p.word, c)]
    BY <1>7 DEF ParseChar
  <2>2. q \in Parser
    BY <1>1, <2>1 DEF Parser
  <2> QED BY <1>7, <2>1, <2>2
<1>8. CASE p.state = "Whitespace" /\ Blank
  <2>1. q = p
    BY <1>8 DEF ParseChar
  <2> QED BY <1>8, <2>1
<1> QED BY <1>1, <1>2, <1>3, <1>4, <1>5, <1>6, <1>7, <1>8

(* The parser's loop *)
LEMMA ParsedIs ==
  ASSUME NEW line \in Seq(Char)
  PROVE  \E g \in [0 .. Len(line) -> Parser] :
           /\ g[0] = Start
           /\ \A k \in 1 .. Len(line) : g[k] = ParseChar(g[k - 1], line[k])
           /\ Parsed(line) = g[Len(line)]
<1> DEFINE n == Len(line)
           Body(f) == [k \in 0 .. n |-> IF k = 0 THEN Start ELSE ParseChar(f[k - 1], line[k])]
           parsed == CHOOSE f : f = Body(f)
           h == [v \in Parser \X (1 .. n) |-> ParseChar(v[1], line[v[2]])]
<1>0. n \in Nat /\ (\A k \in 1 .. n : line[k] \in Char) /\ Start \in Parser
  <2>1. <<>> \in Seq(Char) /\ <<>> \in Seq(Seq(Char))
    BY EmptySeq
  <2>2. Start \in Parser
    BY <2>1 DEF Start, Parser
  <2> QED BY <2>2, LenProperties, ElementOfSeq
<1>1. h \in Steps(Parser, n)
  <2>1. \A v \in Parser \X (1 .. n) : v[1] \in Parser /\ line[v[2]] \in Char
    BY <1>0
  <2>2. \A v \in Parser \X (1 .. n) : ParseChar(v[1], line[v[2]]) \in Parser
    <3> HIDE DEF n
    <3> QED BY <2>1, ParseCharIs
  <2> HIDE DEF n
  <2> QED BY <2>2 DEF Steps
<1>2. PICK g : Iterates(g, Parser, n, Start, h)
  <2> HIDE DEF h, n
  <2> QED BY <1>0, <1>1, Iterated
<1>3. /\ g \in [0 .. n -> Parser] /\ g[0] = Start
      /\ \A k \in 1 .. n : g[k] = ParseChar(g[k - 1], line[k])
  <2>1. g \in [0 .. n -> Parser] /\ g[0] = Start /\ \A k \in 1 .. n : g[k] = h[<<g[k - 1], k>>]
    BY <1>2 DEF Iterates
  <2>2. ASSUME NEW k \in 1 .. n PROVE g[k] = ParseChar(g[k - 1], line[k])
    <3> HIDE DEF n
    <3>1. k - 1 \in 0 .. n
      BY <1>0
    <3>2. <<g[k - 1], k>> \in Parser \X (1 .. n)
      BY <2>1, <3>1
    <3>3. h[<<g[k - 1], k>>] = ParseChar(g[k - 1], line[k])
      BY <3>2
    <3> HIDE DEF h
    <3> QED BY <2>1, <3>3
  <2> QED BY <2>1, <2>2
<1>4. g = Body(g)
  <2> HIDE DEF n
  <2>1. ASSUME NEW k \in 0 .. n PROVE g[k] = IF k = 0 THEN Start ELSE ParseChar(g[k - 1], line[k])
    <3>1. k = 0 \/ k \in 1 .. n
      BY <1>0
    <3> QED BY <1>3, <3>1
  <2> QED BY <1>3, <2>1
<1>5. parsed = Body(parsed)
  BY <1>4
<1>6. Parsed(line) = parsed[n]
  BY DEF Parsed, Start
<1> HIDE DEF parsed, n, h
<1> DEFINE T == {k \in 0 .. n : parsed[k] = g[k]}
<1>7. parsed[0] = Start /\ \A k \in 1 .. n : parsed[k] = ParseChar(parsed[k - 1], line[k])
  <2>1. ASSUME NEW k \in 0 .. n
        PROVE  parsed[k] = IF k = 0 THEN Start ELSE ParseChar(parsed[k - 1], line[k])
    <3>1. Body(parsed)[k] = IF k = 0 THEN Start ELSE ParseChar(parsed[k - 1], line[k])
      OBVIOUS
    <3> HIDE DEF Body
    <3> QED BY <1>5, <3>1
  <2>2. 0 \in 0 .. n /\ \A k \in 1 .. n : k \in 0 .. n /\ k # 0
    BY <1>0
  <2> QED BY <2>1, <2>2
<1>8. n \in T
  <2>1. 0 \in T
    BY <1>0, <1>3, <1>7
  <2>2. ASSUME NEW k \in 1 .. n, k - 1 \in T PROVE k \in T
    <3>1. k \in 0 .. n /\ parsed[k - 1] = g[k - 1]
      BY <1>0, <2>2
    <3> QED BY <1>3, <1>7, <3>1
  <2> HIDE DEF T
  <2>3. 0 .. n \subseteq T
    BY <1>0, <2>1, <2>2, UpTo
  <2> QED BY <1>0, <2>3
<1> QED BY <1>3, <1>6, <1>8 DEF n

(* Without backslashes and zeros the parser reads a line by the grammar. *)
LEMMA ParsesByGrammar ==
  ASSUME NEW line \in Seq(Char \ {"backslash", "nul"})
  PROVE  Parse(line) = Grammar(line)
<1> DEFINE n == Len(line)
           more == Append(line, "nul")
<1>0. /\ line \in Seq(Char) /\ n \in Nat
      /\ \A k \in 1 .. n : line[k] \in Char \ {"backslash", "nul"}
  <2> DEFINE D == Char \ {"backslash", "nul"}
  <2>1. line \in Seq(D) /\ D \subseteq Char
    OBVIOUS
  <2> HIDE DEF D
  <2>2. line \in Seq(Char) /\ \A k \in 1 .. n : line[k] \in D
    BY <2>1, SeqMonotonic, ElementOfSeq
  <2> QED BY <2>2, LenProperties DEF D
<1>1. /\ more \in Seq(Char) /\ Len(more) = n + 1 /\ more[n + 1] = "nul"
      /\ \A k \in 1 .. n : more[k] = line[k]
  BY <1>0, Characters, AppendProperties
<1>2. PICK g \in [0 .. n + 1 -> Parser] :
        /\ g[0] = Start
        /\ \A k \in 1 .. n + 1 : g[k] = ParseChar(g[k - 1], more[k])
        /\ Parsed(more) = g[n + 1]
  <2> HIDE DEF more
  <2> QED BY <1>1, ParsedIs
<1> HIDE DEF n, more
<1> DEFINE At_(k) == /\ ~Open(line, k)
                     /\ g[k].state = (IF Quoting(line, k) THEN "Quote"
                                      ELSE IF Apart(line, k) THEN "Whitespace" ELSE "Word")
                     /\ g[k].word = Meant(line, k)
                     /\ g[k].words = Done(line, k)
           T == {k \in 0 .. n : At_(k)}
<1>3. 0 \in T
  BY <1>0, <1>2, GrammarBegins DEF Start
<1>4. ASSUME NEW m \in 1 .. n, m - 1 \in T PROVE m \in T
  <2> DEFINE k == m - 1
             p == g[k]
             c == line[m]
  <2>1. /\ k \in 0 .. n - 1 /\ k + 1 = m /\ k \in 0 .. n /\ m \in 1 .. n + 1 /\ k \in 0 .. n + 1
        /\ m \in 0 .. n
    BY <1>0
  <2>2. c \in Char \ {"backslash", "nul"} /\ c = line[k + 1]
    BY <1>0, <2>1
  <2>3. p \in Parser /\ g[m] = ParseChar(p, c)
    BY <1>1, <1>2, <2>1
  <2>4. /\ ~Open(line, k)
        /\ p.state = (IF Quoting(line, k) THEN "Quote"
                      ELSE IF Apart(line, k) THEN "Whitespace" ELSE "Word")
        /\ p.word = Meant(line, k) /\ p.words = Done(line, k)
    BY <1>4
  <2> HIDE DEF c, p, T, k
  <2>5. /\ ~Open(line, m)
        /\ Quoting(line, m) <=> IF c = "quote" THEN ~Quoting(line, k) ELSE Quoting(line, k)
        /\ Apart(line, m) <=> c = "blank" /\ ~Quoting(line, k)
        /\ Meant(line, m) =
             IF Apart(line, m) THEN <<>>
             ELSE IF c = "quote" THEN Meant(line, k) ELSE Append(Meant(line, k), c)
        /\ Done(line, m) = IF ~Apart(line, k) /\ Apart(line, m)
                             THEN Append(Done(line, k), Meant(line, k)) ELSE Done(line, k)
    <3>1. /\ Open(line, k + 1) <=> c = "backslash" /\ ~Open(line, k)
          /\ Quoting(line, k + 1) <=>
               IF c = "quote" /\ ~Open(line, k) THEN ~Quoting(line, k) ELSE Quoting(line, k)
          /\ Apart(line, k + 1) <=> c = "blank" /\ ~Open(line, k) /\ ~Quoting(line, k)
          /\ Meant(line, k + 1) =
               IF Apart(line, k + 1) THEN <<>>
               ELSE IF c \in {"quote", "backslash"} /\ ~Open(line, k) THEN Meant(line, k)
               ELSE Append(Meant(line, k), c)
          /\ Done(line, k + 1) =
               IF ~Apart(line, k) /\ Apart(line, k + 1)
                 THEN Append(Done(line, k), Meant(line, k))
                 ELSE Done(line, k)
      BY <1>0, <2>1, <2>2, GrammarStep DEF n
    <3>2. c # "backslash" /\ (c \in {"quote", "backslash"} <=> c = "quote")
      BY <2>2
    <3> QED BY <2>1, <2>4, <3>1, <3>2
  <2>6. Apart(line, k) => ~Quoting(line, k) /\ Meant(line, k) = <<>>
    BY <1>0, <2>1, NothingApart DEF n
  <2> DEFINE q == ParseChar(p, c)
  <2>7. /\ p.state # "thrown" /\ c = "quote" =>
             q = [p EXCEPT !.state = IF p.state = "Quote" THEN "Word" ELSE "Quote"]
        /\ p.state = "Quote" /\ c # "quote" => q = [p EXCEPT !.word = Append(p.word, c)]
        /\ p.state = "Whitespace" /\ c = "blank" => q = p
        /\ p.state = "Word" /\ c = "blank" =>
             q = [state |-> "Whitespace", word |-> <<>>, words |-> Append(p.words, p.word)]
        /\ p.state \in {"Whitespace", "Word"} /\ c \notin {"quote", "blank"} =>
             q = [p EXCEPT !.state = "Word", !.word = Append(p.word, c)]
    BY <2>2, <2>3, ParseCharIs
  <2> HIDE DEF q
  <2>8. At_(m)
    <3>1. g[m] = q
      BY <2>3 DEF q
    <3>2. CASE c = "quote"
      <4>1. /\ q.state = (IF p.state = "Quote" THEN "Word" ELSE "Quote")
            /\ q.word = p.word /\ q.words = p.words
        BY <2>3, <2>4, <2>7, <3>2 DEF Parser
      <4> QED BY <2>4, <2>5, <2>6, <3>1, <3>2, <4>1
    <3>3. CASE c # "quote" /\ Quoting(line, k)
      <4>1. q.state = "Quote" /\ q.word = Append(p.word, c) /\ q.words = p.words
        BY <2>3, <2>4, <2>7, <3>3 DEF Parser
      <4> QED BY <2>4, <2>5, <2>6, <3>1, <3>3, <4>1
    <3>4. CASE c = "blank" /\ ~Quoting(line, k)
      <4>1. CASE Apart(line, k)
        <5>1. q = p
          BY <2>4, <2>7, <3>4, <4>1
        <5> QED BY <2>4, <2>5, <2>6, <3>1, <3>4, <4>1, <5>1
      <4>2. CASE ~Apart(line, k)
        <5>1. q.state = "Whitespace" /\ q.word = <<>> /\ q.words = Append(p.words, p.word)
          BY <2>4, <2>7, <3>4, <4>2
        <5> QED BY <2>4, <2>5, <2>6, <3>1, <3>4, <4>2, <5>1
      <4> QED BY <4>1, <4>2
    <3>5. CASE c \notin {"quote", "blank"} /\ ~Quoting(line, k)
      <4>1. q.state = "Word" /\ q.word = Append(p.word, c) /\ q.words = p.words
        BY <2>3, <2>4, <2>7, <3>5 DEF Parser
      <4> QED BY <2>4, <2>5, <2>6, <3>1, <3>5, <4>1
    <3> QED BY <3>2, <3>3, <3>4, <3>5
  <2> QED BY <2>1, <2>8 DEF T
<1>5. At_(n)
  <2> HIDE DEF T
  <2>1. 0 .. n \subseteq T
    BY <1>0, <1>3, <1>4, UpTo
  <2> QED BY <1>0, <2>1 DEF T
<1>6. g[n + 1] = ParseChar(g[n], "nul") /\ g[n] \in Parser /\ "nul" \in Char
  <2>1. n + 1 \in 1 .. n + 1 /\ (n + 1) - 1 = n /\ n \in 0 .. n + 1
    BY <1>0
  <2> QED BY <1>1, <1>2, <2>1, Characters
<1>7. Grammar(line) = IF Quoting(line, n) THEN NULL
                      ELSE IF Apart(line, n) THEN Done(line, n)
                      ELSE Append(Done(line, n), Meant(line, n))
  BY <1>0, <1>5, GrammarEnds DEF n
<1>8. Parse(line) = IF g[n + 1].state = "thrown" THEN NULL ELSE g[n + 1].words
  BY <1>2 DEF Parse, more
<1> DEFINE p == g[n]
           q == ParseChar(p, "nul")
<1>9. p \in Parser /\ g[n + 1] = q
  BY <1>6
<1>10. /\ p.state = (IF Quoting(line, n) THEN "Quote"
                     ELSE IF Apart(line, n) THEN "Whitespace" ELSE "Word")
       /\ p.word = Meant(line, n) /\ p.words = Done(line, n)
  BY <1>5
<1> HIDE DEF p, At_, T
<1>11. /\ p.state = "Quote" => q.state = "thrown"
       /\ p.state = "Whitespace" => q = p
       /\ p.state = "Word" =>
            q = [state |-> "Whitespace", word |-> <<>>, words |-> Append(p.words, p.word)]
  BY <1>6, <1>9, ParseCharIs
<1> HIDE DEF q
<1>12. CASE Quoting(line, n)
  BY <1>7, <1>8, <1>9, <1>10, <1>11, <1>12
<1>13. CASE ~Quoting(line, n) /\ Apart(line, n)
  BY <1>7, <1>8, <1>9, <1>10, <1>11, <1>13
<1>14. CASE ~Quoting(line, n) /\ ~Apart(line, n)
  <2>1. q.state = "Whitespace" /\ q.words = Append(Done(line, n), Meant(line, n))
    BY <1>10, <1>11, <1>14
  <2> QED BY <1>7, <1>8, <1>9, <1>14, <2>1
<1> QED BY <1>12, <1>13, <1>14

-----------------------------------------------------------------------------
(* The client's lines *)

Letter == Plain \cup {"blank"}

Enclosed(w) == <<"quote">> \o w \o <<"quote", "blank">>

(* A word with what stands around it *)
LEMMA EnclosedIs ==
  ASSUME NEW w \in Seq(Letter)
  PROVE  LET n == Len(w)
             e == Enclosed(w)
         IN  /\ e \in Seq(Char \ {"backslash", "nul"}) /\ e \in Seq(Char) /\ Len(e) = n + 3
             /\ e[1] = "quote" /\ (\A j \in 1 .. n : e[j + 1] = w[j] /\ w[j] \in Letter)
             /\ e[n + 2] = "quote" /\ e[n + 3] = "blank"
<1> DEFINE n == Len(w)
           D == Char \ {"backslash", "nul"}
           a == <<"quote">>
           z == <<"quote", "blank">>
           b == a \o w
           e == b \o z
<1>1. Letter \subseteq D /\ {"quote", "blank"} \subseteq D /\ D \subseteq Char
  BY PlainAssumption DEF Letter, Char
<1> HIDE DEF D
<1>2. /\ a \in Seq(D) /\ Len(a) = 1 /\ a[1] = "quote"
      /\ z \in Seq(D) /\ Len(z) = 2 /\ z[1] = "quote" /\ z[2] = "blank"
  BY <1>1
<1>3. w \in Seq(D) /\ n \in Nat /\ \A j \in 1 .. n : w[j] \in Letter
  <2>1. w \in Seq(D)
    BY <1>1, SeqMonotonic
  <2> QED BY <2>1, LenProperties, ElementOfSeq
<1> HIDE DEF a, z, n
<1>4. /\ b \in Seq(D) /\ Len(b) = 1 + n /\ b[1] = "quote"
      /\ \A j \in 1 .. n : b[j + 1] = w[j]
  <2>4. /\ b \in Seq(D) /\ Len(b) = Len(a) + Len(w)
        /\ \A j \in 1 .. Len(a) + Len(w) : b[j] = IF j <= Len(a) THEN a[j] ELSE w[j - Len(a)]
    BY <1>2, <1>3, ConcatProperties
  <2> HIDE DEF b
  <2>1. /\ b \in Seq(D) /\ Len(b) = 1 + n
        /\ \A j \in 1 .. 1 + n : b[j] = IF j <= 1 THEN a[j] ELSE w[j - 1]
    BY <1>2, <2>4 DEF n
  <2>2. ASSUME NEW j \in 1 .. n PROVE b[j + 1] = w[j]
    <3>1. j + 1 \in 1 .. 1 + n /\ ~ (j + 1 <= 1) /\ (j + 1) - 1 = j
      BY <1>3
    <3> QED BY <2>1, <3>1
  <2>3. 1 \in 1 .. 1 + n
    BY <1>3
  <2> QED BY <1>2, <2>1, <2>2, <2>3
<1> HIDE DEF b
<1>5. /\ e \in Seq(D) /\ Len(e) = n + 3
      /\ \A j \in 1 .. n + 3 : e[j] = IF j <= 1 + n THEN b[j] ELSE z[j - (1 + n)]
  <2>1. /\ e \in Seq(D) /\ Len(e) = Len(b) + Len(z)
        /\ \A j \in 1 .. Len(b) + Len(z) : e[j] = IF j <= Len(b) THEN b[j] ELSE z[j - Len(b)]
    BY <1>2, <1>4, ConcatProperties
  <2>2. Len(b) = 1 + n /\ Len(b) + Len(z) = n + 3
    BY <1>2, <1>3, <1>4
  <2> HIDE DEF e
  <2> QED BY <2>1, <2>2
<1> HIDE DEF e
<1>6. e[1] = "quote"
  <2>1. 1 \in 1 .. n + 3 /\ 1 <= 1 + n
    BY <1>3
  <2> QED BY <1>4, <1>5, <2>1
<1>7. ASSUME NEW j \in 1 .. n PROVE e[j + 1] = w[j]
  <2>1. j + 1 \in 1 .. n + 3 /\ j + 1 <= 1 + n
    BY <1>3
  <2> QED BY <1>4, <1>5, <2>1
<1>8. e[n + 2] = "quote" /\ e[n + 3] = "blank"
  <2>1. /\ n + 2 \in 1 .. n + 3 /\ ~ (n + 2 <= 1 + n) /\ (n + 2) - (1 + n) = 1
        /\ n + 3 \in 1 .. n + 3 /\ ~ (n + 3 <= 1 + n) /\ (n + 3) - (1 + n) = 2
    BY <1>3
  <2> QED BY <1>2, <1>5, <2>1
<1>9. e \in Seq(Char)
  BY <1>1, <1>5, SeqMonotonic
<1>10. e = Enclosed(w)
  BY DEF e, b, a, z, Enclosed
<1> QED BY <1>3, <1>5, <1>6, <1>7, <1>8, <1>9, <1>10 DEF n, D

(* t begins with s. *)
Begins(s, t) == Len(s) <= Len(t) /\ \A j \in 1 .. Len(s) : t[j] = s[j]

(* Where each word of a line begins, and that it stands there *)
Stands(line, at, words) ==
  /\ at \in [0 .. Len(words) -> 0 .. Len(line)]
  /\ at[0] = 0 /\ at[Len(words)] = Len(line)
  /\ \A m \in 1 .. Len(words) :
       LET a == at[m - 1]
           w == words[m]
           n == Len(w)
       IN  /\ at[m] = a + n + 3
           /\ line[a + 1] = "quote"
           /\ \A j \in 1 .. n : line[a + 1 + j] = w[j]
           /\ line[a + n + 2] = "quote" /\ line[a + n + 3] = "blank"

(* Every word stands in the line in its quotes, with a blank behind. *)
LEMMA LineOfIs ==
  ASSUME NEW words \in Seq(Seq(Letter))
  PROVE  /\ LineOf(words) \in Seq(Char \ {"backslash", "nul"})
         /\ \E at : Stands(LineOf(words), at, words)
<1> DEFINE n == Len(words)
           line == LineOf(words)
           D == Char \ {"backslash", "nul"}
           parts == [k \in DOMAIN words |-> Enclosed(words[k])]
<1>0. n \in Nat /\ DOMAIN words = 1 .. n /\ \A k \in 1 .. n : words[k] \in Seq(Letter)
  <2> DEFINE W == Seq(Letter)
  <2> HIDE DEF W
  <2>1. words \in Seq(W)
    BY DEF W
  <2>2. n \in Nat /\ DOMAIN words = 1 .. n /\ \A k \in 1 .. n : words[k] \in W
    BY <2>1, LenProperties, ElementOfSeq
  <2> QED BY <2>2 DEF W
<1>1. parts \in Seq(Seq(D)) /\ Len(parts) = n /\ \A k \in 1 .. n : parts[k] = Enclosed(words[k])
  <2>1. \A k \in 1 .. n : Enclosed(words[k]) \in Seq(D)
    <3> HIDE DEF n
    <3> QED BY <1>0, EnclosedIs
  <2> DEFINE W == Seq(D)
  <2>2. parts \in [1 .. n -> W]
    BY <1>0, <2>1
  <2>3. \A k \in 1 .. n : parts[k] = Enclosed(words[k])
    BY <1>0
  <2> HIDE DEF W, parts, n
  <2>4. parts \in Seq(W) /\ Len(parts) = n
    BY <1>0, <2>2
  <2> QED BY <2>3, <2>4 DEF W
<1>2. line = FlattenSeq(parts)
  BY DEF LineOf, Enclosed
<1> HIDE DEF D, parts, line
<1>3. PICK g \in [0 .. n -> Seq(D)] :
        /\ g[0] = <<>> /\ line = g[n]
        /\ \A k \in 1 .. n : g[k] = Joined(g[k - 1], parts[k])
  <2>1. \E g \in [0 .. Len(parts) -> Seq(D)] : Joins(g, parts) /\ FlattenSeq(parts) = g[Len(parts)]
    BY <1>1, FlattenIsDefined
  <2> HIDE DEF n
  <2> QED BY <1>1, <1>2, <2>1 DEF Joins
<1> HIDE DEF n
<1>4. ASSUME NEW k \in 0 .. n PROVE g[k] \in Seq(D) /\ Len(g[k]) \in Nat
  <2>1. g[k] \in Seq(D)
    OBVIOUS
  <2> QED BY <2>1, LenProperties
<1>5. ASSUME NEW k \in 1 .. n
      PROVE  LET p == g[k - 1]
                 e == parts[k]
                 q == g[k]
             IN  /\ Len(q) = Len(p) + Len(e) /\ Begins(p, q)
                 /\ \A j \in 1 .. Len(e) : q[Len(p) + j] = e[j]
                 /\ Len(e) \in Nat
  <2> DEFINE p == g[k - 1]
             e == parts[k]
             q == g[k]
  <2>1. p \in Seq(D) /\ e \in Seq(D) /\ q = p \o e
    <3>1. k - 1 \in 0 .. n
      BY <1>0
    <3>2. e \in Seq(D)
      <4> DEFINE W == Seq(D)
      <4>1. parts \in Seq(W) /\ k \in 1 .. Len(parts)
        BY <1>1
      <4> HIDE DEF W
      <4>2. parts[k] \in W
        BY <4>1, ElementOfSeq
      <4> QED BY <4>2 DEF W
    <3> QED BY <1>3, <3>1, <3>2 DEF Joined
  <2> HIDE DEF p, e, q
  <2>2. Len(p) \in Nat /\ Len(e) \in Nat
    BY <2>1, LenProperties
  <2>3. /\ Len(q) = Len(p) + Len(e)
        /\ \A j \in 1 .. Len(p) + Len(e) : q[j] = IF j <= Len(p) THEN p[j] ELSE e[j - Len(p)]
    BY <2>1, ConcatProperties
  <2>4. Begins(p, q)
    <3>1. \A j \in 1 .. Len(p) : j \in 1 .. Len(p) + Len(e) /\ j <= Len(p)
      BY <2>2
    <3> QED BY <2>2, <2>3, <3>1 DEF Begins
  <2>5. ASSUME NEW j \in 1 .. Len(e) PROVE q[Len(p) + j] = e[j]
    <3>1. /\ Len(p) + j \in 1 .. Len(p) + Len(e) /\ ~ (Len(p) + j <= Len(p))
          /\ (Len(p) + j) - Len(p) = j
      BY <2>2
    <3> QED BY <2>3, <3>1
  <2> QED BY <2>2, <2>3, <2>4, <2>5 DEF p, e, q
<1> DEFINE T == {k \in 0 .. n : \A m \in 0 .. k : Begins(g[m], g[k])}
<1>6. n \in T
  <2>1. 0 \in T
    <3>1. Begins(g[0], g[0])
      BY <1>0, <1>4 DEF Begins
    <3> QED BY <1>0, <3>1
  <2>2. ASSUME NEW k \in 1 .. n, k - 1 \in T PROVE k \in T
    <3>1. Begins(g[k - 1], g[k])
      BY <1>5
    <3>2. k - 1 \in 0 .. n /\ k \in 0 .. n /\ \A m \in 0 .. k : m \in 0 .. n
      BY <1>0
    <3>3. ASSUME NEW m \in 0 .. k PROVE Begins(g[m], g[k])
      <4>1. CASE m = k
        BY <1>4, <3>2, <4>1 DEF Begins
      <4>2. CASE m # k
        <5>1. m \in 0 .. k - 1
          BY <4>2
        <5>2. Begins(g[m], g[k - 1])
          BY <2>2, <5>1
        <5>3. Len(g[m]) \in Nat /\ Len(g[k - 1]) \in Nat /\ Len(g[k]) \in Nat
          BY <1>4, <3>2
        <5>4. \A j \in 1 .. Len(g[m]) : j \in 1 .. Len(g[k - 1])
          BY <5>2, <5>3 DEF Begins
        <5> QED BY <3>1, <5>2, <5>3, <5>4 DEF Begins
      <4> QED BY <4>1, <4>2
    <3> QED BY <3>2, <3>3
  <2> HIDE DEF T
  <2>3. 0 .. n \subseteq T
    BY <1>0, <2>1, <2>2, UpTo
  <2> QED BY <1>0, <2>3
<1>7. \A m \in 0 .. n : Begins(g[m], line)
  BY <1>3, <1>6
<1> HIDE DEF T
<1> DEFINE at == [m \in 0 .. n |-> Len(g[m])]
<1>8. /\ at \in [0 .. n -> 0 .. Len(line)] /\ at[0] = 0 /\ at[n] = Len(line)
  <2>1. 0 \in 0 .. n /\ n \in 0 .. n
    BY <1>0
  <2>2. \A m \in 0 .. n : Len(g[m]) \in 0 .. Len(line)
    <3> SUFFICES ASSUME NEW m \in 0 .. n PROVE Len(g[m]) \in 0 .. Len(line)
      OBVIOUS
    <3>1. Len(g[m]) \in Nat /\ Len(line) \in Nat
      BY <1>3, <1>4, <2>1
    <3>2. Len(g[m]) <= Len(line)
      BY <1>7 DEF Begins
    <3> QED BY <3>1, <3>2
  <2>3. Len(g[0]) = 0
    BY <1>3
  <2> QED BY <1>3, <2>1, <2>2, <2>3
<1>9. ASSUME NEW m \in 1 .. n
      PROVE  LET a == at[m - 1]
                 w == words[m]
                 l == Len(w)
             IN  /\ at[m] = a + l + 3
                 /\ line[a + 1] = "quote"
                 /\ \A j \in 1 .. l : line[a + 1 + j] = w[j]
                 /\ line[a + l + 2] = "quote" /\ line[a + l + 3] = "blank"
  <2> DEFINE a == at[m - 1]
             w == words[m]
             l == Len(w)
             e == parts[m]
             q == g[m]
  <2>0. m - 1 \in 0 .. n /\ m \in 0 .. n
    BY <1>0
  <2>1. a = Len(g[m - 1]) /\ at[m] = Len(q) /\ a \in Nat
    BY <1>4, <2>0
  <2>2. e = Enclosed(w) /\ w \in Seq(Letter)
    BY <1>0, <1>1
  <2>3. /\ Len(q) = a + Len(e)
        /\ \A j \in 1 .. Len(e) : q[a + j] = e[j]
    BY <1>5, <2>1
  <2>4. Len(q) <= Len(line) /\ \A j \in 1 .. Len(q) : line[j] = q[j]
    BY <1>7, <2>0 DEF Begins
  <2> HIDE DEF a, w, e, q, at
  <2>5. /\ l \in Nat /\ Len(e) = l + 3
        /\ e[1] = "quote" /\ (\A j \in 1 .. l : e[j + 1] = w[j])
        /\ e[l + 2] = "quote" /\ e[l + 3] = "blank"
    BY <2>2, EnclosedIs, LenProperties
  <2> HIDE DEF l
  <2>11. a \in Nat /\ l \in Nat
    BY <2>1, <2>5
  <2>6. \A j \in 1 .. l + 3 : line[a + j] = e[j]
    <3> SUFFICES ASSUME NEW j \in 1 .. l + 3 PROVE line[a + j] = e[j]
      OBVIOUS
    <3>1. a + j \in 1 .. a + (l + 3)
      BY <2>11
    <3> QED BY <2>3, <2>4, <2>5, <3>1
  <2>7. 1 \in 1 .. l + 3 /\ l + 2 \in 1 .. l + 3 /\ l + 3 \in 1 .. l + 3
        /\ a + (l + 2) = a + l + 2 /\ a + (l + 3) = a + l + 3
    BY <2>11
  <2>8. ASSUME NEW j \in 1 .. l PROVE line[a + 1 + j] = w[j]
    <3>1. j + 1 \in 1 .. l + 3 /\ a + (j + 1) = a + 1 + j
      BY <2>11
    <3> QED BY <2>5, <2>6, <3>1
  <2>9. at[m] = a + l + 3
    BY <2>1, <2>3, <2>5, <2>7
  <2>10. line[a + 1] = "quote" /\ line[a + l + 2] = "quote" /\ line[a + l + 3] = "blank"
    BY <2>5, <2>6, <2>7
  <2> QED BY <2>8, <2>9, <2>10 DEF a, w, l
<1>10. Stands(line, at, words)
  <2> HIDE DEF at
  <2> QED BY <1>8, <1>9 DEF Stands, n
<1>11. line \in Seq(D)
  <2>1. n \in 0 .. n
    BY <1>0
  <2> QED BY <1>3, <1>4, <2>1
<1> QED BY <1>10, <1>11 DEF line, D

(* One word of a line: what the grammar makes of it *)
LEMMA WordIsRead ==
  ASSUME NEW line \in Seq(Char), NEW w \in Seq(Letter), NEW a \in Nat,
         a + Len(w) + 3 <= Len(line), Apart(line, a),
         line[a + 1] = "quote",
         \A j \in 1 .. Len(w) : line[a + 1 + j] = w[j],
         line[a + Len(w) + 2] = "quote", line[a + Len(w) + 3] = "blank"
  PROVE  /\ Apart(line, a + Len(w) + 3)
         /\ Done(line, a + Len(w) + 3) = Append(Done(line, a), w)
<1> DEFINE n == Len(w)
           N == Len(line)
           (* Inside the quotes, with the first j letters *)
           In(j) == /\ Quoting(line, a + 1 + j) /\ ~Open(line, a + 1 + j)
                    /\ ~Apart(line, a + 1 + j)
                    /\ Meant(line, a + 1 + j) = SubSeq(w, 1, j)
                    /\ Done(line, a + 1 + j) = Done(line, a)
           T == {j \in 0 .. n : In(j)}
<1>0. n \in Nat /\ N \in Nat
  BY LenProperties
<1>letters. \A j \in 1 .. n : w[j] \in Letter /\ w[j] \notin {"quote", "backslash"}
  <2>1. \A j \in 1 .. n : w[j] \in Letter
    BY ElementOfSeq
  <2> QED BY <2>1, PlainAssumption DEF Letter
<1> HIDE DEF n, N
<1>1. ~Open(line, a) /\ ~Quoting(line, a) /\ Meant(line, a) = <<>>
  <2>1. a \in 0 .. N
    BY <1>0 DEF N, n
  <2> QED BY <2>1, NothingApart DEF N
<1>2. 0 \in T
  <2>1. a \in 0 .. N - 1 /\ a + 1 + 0 = a + 1
    BY <1>0 DEF N, n
  <2>2. /\ Open(line, a + 1) <=> FALSE
        /\ Quoting(line, a + 1)
        /\ ~Apart(line, a + 1)
        /\ Meant(line, a + 1) = Meant(line, a)
        /\ Done(line, a + 1) = Done(line, a)
    BY <1>1, <2>1, GrammarStep DEF N
  <2>3. SubSeq(w, 1, 0) = <<>>
    BY SubSeqStep
  <2>4. 0 \in 0 .. n
    BY <1>0
  <2> QED BY <1>1, <2>1, <2>2, <2>3, <2>4
<1>3. ASSUME NEW m \in 1 .. n, m - 1 \in T PROVE m \in T
  <2> DEFINE j == m - 1
             k == a + 1 + j
  <2>1. k \in 0 .. N - 1 /\ k + 1 = a + 1 + m /\ m \in 0 .. n
    BY <1>0 DEF N, n
  <2>2. In(j)
    BY <1>3
  <2>3. line[k + 1] = w[m]
    BY <2>1 DEF n
  <2>4. w[m] \notin {"quote", "backslash"}
    BY <1>letters
  <2>5. /\ Quoting(line, k) /\ ~Open(line, k) /\ ~Apart(line, k)
        /\ Meant(line, k) = SubSeq(w, 1, m - 1) /\ Done(line, k) = Done(line, a)
    BY <2>2
  <2> HIDE DEF k, T
  <2>6. /\ Quoting(line, k + 1) /\ ~Open(line, k + 1) /\ ~Apart(line, k + 1)
        /\ Meant(line, k + 1) = Append(Meant(line, k), w[m])
        /\ Done(line, k + 1) = Done(line, k)
    <3> DEFINE c == w[m]
    <3>1. c = line[k + 1] /\ c \notin {"quote", "backslash"}
      BY <2>3, <2>4
    <3> HIDE DEF c
    <3>2. /\ Open(line, k + 1) <=> c = "backslash" /\ ~Open(line, k)
          /\ Quoting(line, k + 1) <=>
               IF c = "quote" /\ ~Open(line, k) THEN ~Quoting(line, k) ELSE Quoting(line, k)
          /\ Apart(line, k + 1) <=> c = "blank" /\ ~Open(line, k) /\ ~Quoting(line, k)
          /\ Meant(line, k + 1) =
               IF Apart(line, k + 1) THEN <<>>
               ELSE IF c \in {"quote", "backslash"} /\ ~Open(line, k) THEN Meant(line, k)
               ELSE Append(Meant(line, k), c)
          /\ Done(line, k + 1) =
               IF ~Apart(line, k) /\ Apart(line, k + 1)
                 THEN Append(Done(line, k), Meant(line, k))
                 ELSE Done(line, k)
      BY <2>1, <3>1, GrammarStep DEF N
    <3> QED BY <2>5, <3>1, <3>2 DEF c
  <2>7. SubSeq(w, 1, m) = Append(SubSeq(w, 1, m - 1), w[m])
    BY SubSeqStep DEF n
  <2>8. In(m)
    BY <2>1, <2>5, <2>6, <2>7
  <2> QED BY <2>1, <2>8 DEF T
<1>4. In(n)
  <2>1. 0 .. n \subseteq T
    <3> HIDE DEF T
    <3> QED BY <1>0, <1>2, <1>3, UpTo
  <2>2. n \in 0 .. n
    BY <1>0
  <2> QED BY <2>1, <2>2
<1> DEFINE k == a + 1 + n
           l == a + n + 2
<1>5. /\ k \in 0 .. N - 1 /\ k + 1 = l /\ l \in 0 .. N - 1 /\ l + 1 = a + n + 3
      /\ line[k + 1] = "quote" /\ line[l + 1] = "blank"
  <2>1. k \in 0 .. N - 1 /\ k + 1 = l /\ l \in 0 .. N - 1 /\ l + 1 = a + n + 3
    BY <1>0 DEF N, n
  <2> QED BY <2>1 DEF n
<1>6. /\ Quoting(line, k) /\ ~Open(line, k) /\ ~Apart(line, k)
      /\ Meant(line, k) = w /\ Done(line, k) = Done(line, a)
  <2>1. SubSeq(w, 1, n) = w
    BY SubSeqStep DEF n
  <2> QED BY <1>4, <2>1
<1> HIDE DEF k, l, T
<1>7. /\ ~Quoting(line, l) /\ ~Open(line, l) /\ ~Apart(line, l)
      /\ Meant(line, l) = w /\ Done(line, l) = Done(line, a)
  <2>1. /\ Open(line, k + 1) <=> FALSE
        /\ ~Quoting(line, k + 1)
        /\ ~Apart(line, k + 1)
        /\ Meant(line, k + 1) = Meant(line, k)
        /\ Done(line, k + 1) = Done(line, k)
    BY <1>5, <1>6, GrammarStep DEF N
  <2> QED BY <1>5, <1>6, <2>1
<1>8. Apart(line, l + 1) /\ Done(line, l + 1) = Append(Done(line, l), Meant(line, l))
  BY <1>5, <1>7, GrammarStep DEF N
<1> QED BY <1>5, <1>7, <1>8 DEF n

(* The lexer reads from a client's line the words that the client wrote. *)
LEMMA LineIsRead ==
  ASSUME NEW words \in Seq(Seq(Letter))
  PROVE  Grammar(LineOf(words)) = words
<1> DEFINE n == Len(words)
           line == LineOf(words)
           N == Len(line)
           W == Seq(Letter)
<1>1. PICK at : Stands(line, at, words)
  <2> HIDE DEF line
  <2> QED BY LineOfIs DEF line
<1>2. line \in Seq(Char)
  <2>1. Char \ {"backslash", "nul"} \subseteq Char
    OBVIOUS
  <2> HIDE DEF line
  <2> QED BY <2>1, LineOfIs, SeqMonotonic DEF line
<1> HIDE DEF line, W
<1>3. words \in Seq(W) /\ n \in Nat /\ N \in Nat /\ \A m \in 1 .. n : words[m] \in W
  <2>1. words \in Seq(W)
    BY DEF W
  <2>2. n \in Nat /\ \A m \in 1 .. n : words[m] \in W
    BY <2>1, LenProperties, ElementOfSeq
  <2> QED BY <1>2, <2>1, <2>2, LenProperties
<1> HIDE DEF n, N
<1>4. at \in [0 .. n -> 0 .. N] /\ at[0] = 0 /\ at[n] = N
  BY <1>1 DEF Stands, n, N
<1> DEFINE T == {m \in 0 .. n : /\ Apart(line, at[m])
                                /\ Done(line, at[m]) = SubSeq(words, 1, m)}
<1>5. 0 \in T
  <2>1. SubSeq(words, 1, 0) = <<>>
    BY <1>3, SubSeqStep
  <2>2. Apart(line, 0) /\ Done(line, 0) = <<>>
    BY <1>2, GrammarBegins
  <2>3. 0 \in 0 .. n
    BY <1>3
  <2> QED BY <1>4, <2>1, <2>2, <2>3
<1>6. ASSUME NEW m \in 1 .. n, m - 1 \in T PROVE m \in T
  <2> DEFINE a == at[m - 1]
             w == words[m]
  <2>1. m - 1 \in 0 .. n /\ m \in 0 .. n
    BY <1>3
  <2>2. a \in Nat /\ at[m] <= N /\ w \in Seq(Letter)
    <3>1. at[m] \in 0 .. N /\ a \in 0 .. N
      BY <1>4, <2>1
    <3> QED BY <1>3, <3>1 DEF W
  <2>3. /\ at[m] = a + Len(w) + 3
        /\ line[a + 1] = "quote"
        /\ \A j \in 1 .. Len(w) : line[a + 1 + j] = w[j]
        /\ line[a + Len(w) + 2] = "quote" /\ line[a + Len(w) + 3] = "blank"
    BY <1>1 DEF Stands, n
  <2>4. Apart(line, a) /\ Done(line, a) = SubSeq(words, 1, m - 1)
    BY <1>6
  <2> HIDE DEF a, w, T
  <2>5. /\ Apart(line, a + Len(w) + 3)
        /\ Done(line, a + Len(w) + 3) = Append(Done(line, a), w)
    <3>1. a + Len(w) + 3 <= Len(line)
      BY <2>2, <2>3 DEF N
    <3> QED BY <1>2, <2>2, <2>3, <2>4, <3>1, WordIsRead
  <2>6. SubSeq(words, 1, m) = Append(SubSeq(words, 1, m - 1), w)
    BY <1>3, SubSeqStep DEF n, w
  <2> QED BY <2>1, <2>3, <2>4, <2>5, <2>6 DEF T
<1>7. n \in T
  <2> HIDE DEF T
  <2>1. 0 .. n \subseteq T
    BY <1>3, <1>5, <1>6, UpTo
  <2> QED BY <1>3, <2>1
<1>8. Apart(line, N) /\ Done(line, N) = words
  <2>1. SubSeq(words, 1, n) = words
    BY <1>3, SubSeqStep DEF n
  <2> QED BY <1>4, <1>7, <2>1
<1>9. ~Open(line, N) /\ ~Quoting(line, N)
  <2>1. N \in 0 .. N
    BY <1>3
  <2> QED BY <1>2, <1>8, <2>1, NothingApart DEF N
<1>10. Grammar(line) = Done(line, N)
  BY <1>2, <1>8, <1>9, GrammarEnds DEF N
<1> QED BY <1>8, <1>10 DEF line

-----------------------------------------------------------------------------
(* The invariant *)

(* A line of a client that has been collected is what its words ask for. *)
SaidInv == said # NULL => said \in Words /\ buffer.text = LineOf(said)

MemoryInv == buffer \in Buffer /\ tokens \in Buffer /\ Fits(buffer) /\ Fits(tokens)

IInv == LexInv /\ MemoryInv /\ SaidInv

(* A buffer that is new or cleared holds nothing and has its memory. *)
LEMMA EmptyBuffers ==
  /\ NewBuffer \in Buffer /\ Fits(NewBuffer) /\ NewBuffer.text = <<>>
  /\ \A b \in Buffer : Cleared(b) \in Buffer /\ Fits(Cleared(b)) /\ Cleared(b).text = <<>>
<1>1. <<>> \in Seq(Char) /\ Len(<<>>) = 0
  BY EmptySeq
<1>2. NewBuffer \in Buffer /\ Fits(NewBuffer) /\ NewBuffer.text = <<>>
  BY <1>1, BaseAssumption DEF NewBuffer, Buffer, Fits
<1>3. ASSUME NEW b \in Buffer
      PROVE  Cleared(b) \in Buffer /\ Fits(Cleared(b)) /\ Cleared(b).text = <<>>
  <2>1. Cleared(b) = [text |-> <<>>, memsize |-> b.memsize] /\ b.memsize \in Nat \ {0}
    BY DEF Cleared, Buffer
  <2> HIDE DEF Cleared
  <2> QED BY <1>1, <2>1 DEF Buffer, Fits
<1> QED BY <1>2, <1>3

(* The steps *)
LEMMA InitOK ==
  ASSUME Init
  PROVE  IInv
<1>1. buffer \in Buffer /\ Fits(buffer) /\ tokens \in Buffer /\ Fits(tokens)
      /\ tokens.text = <<>> /\ buffer.text \in Seq(Char) /\ tokens.text \in Seq(Char)
  BY EmptyBuffers DEF Init, Buffer
<1>2. LexInv
  BY <1>1 DEF Init, LexInv
<1> QED BY <1>1, <1>2 DEF IInv, MemoryInv, SaidInv, Init

LEMMA ReadStanzaStep ==
  ASSUME IInv, NEW words \in Words, ReadStanza(words)
  PROVE  IInv'
<1>1. /\ pc = "read" /\ pc' = pc /\ state' = state /\ i' = i /\ tokens' = tokens /\ list' = list
      /\ said' = words /\ buffer' = PutAll(buffer, LineOf(words))
      /\ buffer.text = <<>>
  BY DEF ReadStanza, lexer
<1>2. words \in Seq(Seq(Letter))
  BY WordsAssumption DEF Letter
<1>3. LineOf(words) \in Seq(Char)
  <2>1. LineOf(words) \in Seq(Char \ {"backslash", "nul"})
         /\ Char \ {"backslash", "nul"} \subseteq Char
    BY <1>2, LineOfIs
  <2> QED BY <2>1, SeqMonotonic
<1>4. buffer' \in Buffer /\ Fits(buffer') /\ (buffer').text = LineOf(words)
  BY <1>1, <1>3, PutAllFits DEF IInv, MemoryInv
<1>5. LexInv'
  BY <1>1, <1>3, <1>4 DEF IInv, LexInv
<1>6. MemoryInv'
  BY <1>1, <1>4 DEF IInv, MemoryInv, Fits
<1>7. SaidInv'
  BY <1>1, <1>4 DEF SaidInv
<1> QED BY <1>5, <1>6, <1>7 DEF IInv

LEMMA ReadCharStep ==
  ASSUME IInv, NEW c \in Char, ReadChar(c)
  PROVE  IInv'
<1>1. /\ pc = "read" /\ pc' = pc /\ state' = state /\ i' = i /\ tokens' = tokens /\ list' = list
      /\ said = NULL /\ said' = said /\ buffer' = PutChar(buffer, c)
  BY DEF ReadChar, lexer
<1>2. buffer' \in Buffer /\ Fits(buffer')
  BY <1>1, PutCharFits DEF IInv, MemoryInv
<1>3. (buffer').text \in Seq(Char)
  BY <1>2 DEF Buffer
<1>4. LexInv'
  BY <1>1, <1>3 DEF IInv, LexInv
<1>5. MemoryInv'
  BY <1>1, <1>2 DEF IInv, MemoryInv, Fits
<1> QED BY <1>1, <1>4, <1>5 DEF IInv, SaidInv

LEMMA ReadNewlineStep ==
  ASSUME IInv, ReadNewline
  PROVE  IInv'
<1>1. /\ pc = "read" /\ pc' = "lex" /\ state' = state /\ i' = i /\ tokens' = tokens
      /\ list' = list /\ said' = said /\ buffer' = buffer
  BY DEF ReadNewline, lexer
<1>2. Src' = Src
  BY <1>1 DEF Src
<1>3. /\ state = "ST_WHITESPACE" /\ i = 1 /\ tokens.text = <<>>
      /\ buffer.text \in Seq(Char) /\ tokens.text \in Seq(Char)
  BY <1>1 DEF IInv, LexInv
<1>4. Src \in Seq(Char) /\ Len(Src) \in Nat
  BY <1>3, SrcIs
<1>5. AtPlace
  <2>1. i - 1 = 0
    BY <1>3
  <2>2. Holds(Src, 0, <<>>)
    BY <1>4, NothingWritten, GrammarBegins DEF Holds
  <2>3. StateAt(Src, 0) = "ST_WHITESPACE"
    BY <1>4, GrammarBegins DEF StateAt
  <2> QED BY <1>3, <2>1, <2>2, <2>3 DEF AtPlace
<1>6. AtPlace'
  BY <1>1, <1>2, <1>5 DEF AtPlace
<1>7. i' \in 1 .. Len(Src) + 2 /\ i' <= Len(Src) + 1
  BY <1>1, <1>3, <1>4
<1>8. LexInv'
  BY <1>1, <1>2, <1>3, <1>6, <1>7 DEF LexInv
<1> QED BY <1>1, <1>8 DEF IInv, MemoryInv, SaidInv, Fits

LEMMA ClearStep ==
  ASSUME IInv, Clear
  PROVE  IInv'
<1>1. /\ pc' = "read" /\ buffer' = Cleared(buffer) /\ said' = NULL
      /\ state' = "ST_WHITESPACE" /\ i' = 1 /\ tokens' = NewBuffer
  BY DEF Clear
<1>2. buffer' \in Buffer /\ Fits(buffer') /\ tokens' \in Buffer /\ Fits(tokens')
      /\ (tokens').text = <<>>
  BY <1>1, EmptyBuffers DEF IInv, MemoryInv
<1>3. (buffer').text \in Seq(Char) /\ (tokens').text \in Seq(Char)
  BY <1>2 DEF Buffer
<1>4. LexInv'
  BY <1>1, <1>2, <1>3 DEF LexInv
<1> QED BY <1>1, <1>2, <1>4 DEF IInv, MemoryInv, SaidInv, Fits

LEMMA SplitStep ==
  ASSUME IInv, Split
  PROVE  IInv'
<1>1. CASE Turn
  <2>1. LexInv'
    BY <1>1, TurnStep DEF IInv
  <2>2. PICK s : At(s)
    BY <1>1 DEF Turn, Whitespace, Quote, Word, Escape, QuoteEscape
  <2>3. pc = "lex" /\ (i <= Len(Src) \/ i = Len(Src) + 1)
    BY <2>2, Where DEF IInv
  <2>4. Current \in Char
    BY <2>3, AtCharacter, AtTheEnd, Characters DEF IInv
  <2>5. \/ tokens' = tokens
        \/ \E c \in Char : tokens' = PutChar(tokens, c)
    BY <1>1, <2>4, Characters
    DEF Turn, Whitespace, Quote, Word, Escape, QuoteEscape, Goto, PutGoto
  <2>6. tokens' \in Buffer /\ Fits(tokens')
    BY <2>5, PutCharFits DEF IInv, MemoryInv
  <2>7. buffer' = buffer /\ said' = said
    BY <2>2 DEF At
  <2> QED BY <2>1, <2>6, <2>7 DEF IInv, MemoryInv, SaidInv, Fits
<1>2. CASE Return
  <2>1. LexInv'
    BY <1>2, ReturnStep DEF IInv
  <2>2. tokens' = tokens /\ buffer' = buffer /\ said' = said
    BY <1>2 DEF Return
  <2> QED BY <2>1, <2>2 DEF IInv, MemoryInv, SaidInv, Fits
<1> QED BY <1>1, <1>2 DEF Split, Turn

LEMMA StepOK == IInv /\ [Next]_vars => IInv'
<1> SUFFICES ASSUME IInv, [Next]_vars PROVE IInv'
  OBVIOUS
<1>1. CASE UNCHANGED vars
  <2>1. pc' = pc /\ buffer' = buffer /\ said' = said /\ state' = state /\ i' = i
        /\ tokens' = tokens /\ list' = list
    BY <1>1 DEF vars, lexer
  <2>2. Src' = Src
    BY <2>1 DEF Src
  <2>3. LexInv'
    BY <2>1, <2>2 DEF IInv, LexInv, AtPlace, Through
  <2> QED BY <2>1, <2>3 DEF IInv, MemoryInv, SaidInv, Fits
<1>2. ASSUME NEW words \in Words, ReadStanza(words) PROVE IInv'
  BY <1>2, ReadStanzaStep
<1>3. ASSUME NEW c \in Char, ReadChar(c) PROVE IInv'
  BY <1>3, ReadCharStep
<1>4. CASE ReadNewline
  BY <1>4, ReadNewlineStep
<1>5. CASE Split
  BY <1>5, SplitStep
<1>6. CASE Clear
  BY <1>6, ClearStep
<1> QED BY <1>1, <1>2, <1>3, <1>4, <1>5, <1>6 DEF Next

LEMMA Invariant == Spec => []IInv
BY InitOK, StepOK, PTL DEF Spec

-----------------------------------------------------------------------------
(* What follows *)

(* For lines of any characters and any length, the state machine, its       *)
(* buffer of strings and the second pass over it give the words of the      *)
(* grammar, and an error where the grammar has none.                        *)
THEOREM TokensAlwaysByGrammar == Spec => []TokensByGrammar
<1>1. IInv => TokensByGrammar
  BY DEF IInv, LexInv, TokensByGrammar
<1> QED BY <1>1, Invariant, PTL

(* For any size at which buffers begin, no buffer is written past its       *)
(* memory.                                                                  *)
THEOREM AlwaysWithinMemory == Spec => []WithinMemory
<1>1. IInv => WithinMemory
  BY DEF IInv, MemoryInv, Fits, WithinMemory
<1> QED BY <1>1, Invariant, PTL

(* Whatever words without quotes and backslashes a client sends, any number *)
(* of them and of any length, are the words that the server reads.          *)
THEOREM WordsAlwaysArrive == Spec => []WordsArrive
<1>1. IInv => WordsArrive
  <2> SUFFICES ASSUME IInv, pc = "listed", said # NULL PROVE list = said
    BY DEF WordsArrive
  <2>1. said \in Words /\ buffer.text = LineOf(said) /\ list = Grammar(Src)
    BY DEF IInv, SaidInv, LexInv
  <2>2. said \in Seq(Seq(Letter))
    BY <2>1, WordsAssumption DEF Letter
  <2> DEFINE line == LineOf(said)
             D == Char \ {"backslash", "nul"}
  <2>3. line \in Seq(D) /\ D \subseteq Char
    BY <2>2, LineOfIs
  <2>4. "nul" \notin D
    OBVIOUS
  <2>5. line = buffer.text
    BY <2>1
  <2> HIDE DEF line, D
  <2>6. "nul" \notin Range(line)
    <3>1. DOMAIN line = 1 .. Len(line) /\ \A j \in 1 .. Len(line) : line[j] \in D
      BY <2>3, LenProperties, ElementOfSeq
    <3> QED BY <2>4, <3>1 DEF Range
  <2>7. CString(line) = line
    <3>1. line \in Seq(Char)
      BY <2>3, SeqMonotonic
    <3> QED BY <2>6, <3>1, CStringIs
  <2>8. Src = line
    BY <2>5, <2>7 DEF Src
  <2> QED BY <2>1, <2>2, <2>8, LineIsRead DEF line
<1> QED BY <1>1, Invariant, PTL

(* On every line without backslashes and zeros the client's parser and the  *)
(* server's lexer agree, on its words and on whether it is a line at all.   *)
THEOREM ParsersAlwaysAgree == Spec => []ParsersAgree
<1>1. IInv => ParsersAgree
  <2> DEFINE line == buffer.text
             D == Char \ {"backslash", "nul"}
  <2> SUFFICES ASSUME IInv, pc = "listed", Range(line) \cap {"backslash", "nul"} = {}
               PROVE  Parse(line) = list
    BY DEF ParsersAgree
  <2>1. line \in Seq(Char) /\ list = Grammar(Src) /\ Src = CString(line)
    BY DEF IInv, LexInv, Src
  <2> HIDE DEF line
  <2>2. line \in Seq(D)
    <3>1. DOMAIN line = 1 .. Len(line) /\ Len(line) \in Nat /\ line \in [1 .. Len(line) -> Char]
      BY <2>1, LenProperties
    <3>2. \A j \in 1 .. Len(line) : line[j] \in Range(line) /\ line[j] \in Char
      BY <3>1 DEF Range
    <3>3. \A j \in 1 .. Len(line) : line[j] \in D
      BY <3>2
    <3> HIDE DEF D
    <3>4. line \in [1 .. Len(line) -> D]
      BY <3>1, <3>3
    <3> QED BY <3>1, <3>4
  <2>3. "nul" \notin Range(line)
    OBVIOUS
  <2>4. CString(line) = line
    BY <2>1, <2>3, CStringIs
  <2> QED BY <2>1, <2>2, <2>4, ParsesByGrammar
<1> QED BY <1>1, Invariant, PTL
=============================================================================
