--------------------- MODULE SocketMessageQueue_proofs ----------------------
(***************************************************************************)
(* Proofs about SocketMessageQueue, for messages of any sizes, a kernel    *)
(* with room for any number of bytes, and any number of messages.          *)
(***************************************************************************)
EXTENDS SocketMessageQueue, Iteration, SequenceTheorems, TLAPS

(* What is first comes out first. *)
LEMMA FlattenTail ==
  ASSUME NEW B, NEW seqs \in Seq(Seq(B)), seqs # <<>>
  PROVE  FlattenSeq(seqs) = Joined(Head(seqs), FlattenSeq(Tail(seqs)))
<1> DEFINE n == Len(seqs) - 1
           first == Head(seqs)
           rest == Tail(seqs)
<1>0. /\ n \in Nat /\ rest \in Seq(Seq(B)) /\ Len(rest) = n /\ Len(seqs) = n + 1
      /\ \A i \in 1 .. n : rest[i] = seqs[i + 1] /\ rest[i] \in Seq(B)
      /\ first = seqs[1] /\ first \in Seq(B)
  <2> DEFINE S == Seq(B)
  <2> HIDE DEF S
  <2>1. /\ Len(seqs) \in Nat /\ Len(seqs) >= 1 /\ seqs \in Seq(S)
        /\ Head(seqs) \in S /\ Head(seqs) = seqs[1]
        /\ Tail(seqs) \in Seq(S) /\ Len(Tail(seqs)) = Len(seqs) - 1
        /\ \A i \in 1 .. Len(Tail(seqs)) : Tail(seqs)[i] = seqs[i + 1]
    <3>1. seqs \in Seq(S)
      BY DEF S
    <3> QED BY <3>1, HeadTailProperties, LenProperties, EmptySeq
  <2>2. \A i \in 1 .. Len(Tail(seqs)) : Tail(seqs)[i] \in S
    BY <2>1, ElementOfSeq
  <2> QED BY <2>1, <2>2 DEF S
<1>1. PICK g \in [0 .. Len(seqs) -> Seq(B)] :
        Joins(g, seqs) /\ FlattenSeq(seqs) = g[Len(seqs)]
  BY FlattenIsDefined
<1> HIDE DEF first, rest
<1>2. PICK f \in [0 .. n -> Seq(B)] : Joins(f, rest) /\ FlattenSeq(rest) = f[n]
  <2>1. rest \in Seq(Seq(B)) /\ Len(rest) = n
    BY <1>0
  <2> HIDE DEF n
  <2>2. \E f \in [0 .. Len(rest) -> Seq(B)] : Joins(f, rest) /\ FlattenSeq(rest) = f[Len(rest)]
    BY <2>1, FlattenIsDefined
  <2> QED BY <2>1, <2>2
<1>3. /\ g[0] = <<>> /\ f[0] = <<>>
      /\ \A i \in 1 .. n + 1 : g[i] = Joined(g[i - 1], seqs[i])
      /\ \A i \in 1 .. n : f[i] = Joined(f[i - 1], rest[i])
  BY <1>0, <1>1, <1>2 DEF Joins
<1>4. FlattenSeq(seqs) = g[n + 1]
  BY <1>0, <1>1
<1> HIDE DEF n
<1> DEFINE T == {i \in 0 .. n : g[i + 1] = Joined(first, f[i])}
<1>5. 0 .. n \subseteq T
  <2>1. 0 \in T
    <3>1. g[1] = Joined(<<>>, first)
      BY <1>0, <1>3
    <3>2. Joined(<<>>, first) = first /\ Joined(first, <<>>) = first
      BY <1>0, JoinedType
    <3> QED BY <1>0, <1>3, <3>1, <3>2
  <2>2. ASSUME NEW i \in 1 .. n, i - 1 \in T PROVE i \in T
    <3>0. i \in 0 .. n /\ i - 1 \in 0 .. n /\ i + 1 \in 1 .. n + 1
      BY <1>0
    <3>1. g[i + 1] = Joined(g[i], rest[i])
      <4>1. (i + 1) - 1 = i
        BY <1>0
      <4>2. g[i + 1] = Joined(g[(i + 1) - 1], seqs[i + 1])
        BY <1>3, <3>0
      <4>3. rest[i] = seqs[i + 1]
        BY <1>0
      <4> QED BY <4>1, <4>2, <4>3
    <3>2. g[i] = Joined(first, f[i - 1])
      BY <1>0, <2>2
    <3>3. Joined(Joined(first, f[i - 1]), rest[i]) = Joined(first, Joined(f[i - 1], rest[i]))
      <4>1. f[i - 1] \in Seq(B) /\ rest[i] \in Seq(B)
        BY <1>0, <1>2, <3>0
      <4>2. first \in Seq(B)
        BY <1>0
      <4> QED BY <4>1, <4>2, JoinedAssociative
    <3>4. f[i] = Joined(f[i - 1], rest[i])
      BY <1>3
    <3>5. g[i + 1] = Joined(first, f[i])
      BY <3>1, <3>2, <3>3, <3>4
    <3> QED BY <3>0, <3>5
  <2> HIDE DEF T
  <2> QED BY <1>0, <2>1, <2>2, UpTo
<1>6. g[n + 1] = Joined(first, f[n])
  BY <1>0, <1>5
<1> QED BY <1>2, <1>4, <1>6 DEF first, rest

-----------------------------------------------------------------------------
(* Cutting sequences *)

(* What is taken from the front of s \o t, up to the end of s, is taken      *)
(* from s.                                                                  *)
LEMMA CutJoined ==
  ASSUME NEW B, NEW s \in Seq(B), NEW t \in Seq(B), NEW k \in 1 .. Len(s)
  PROVE  LET st == Joined(s, t)
         IN  /\ Len(st) = Len(s) + Len(t)
             /\ SubSeq(st, 1, k) = SubSeq(s, 1, k)
             /\ SubSeq(st, k + 1, Len(st)) = Joined(SubSeq(s, k + 1, Len(s)), t)
<1> DEFINE st == Joined(s, t)
           a == SubSeq(st, k + 1, Len(st))
           c == SubSeq(s, k + 1, Len(s))
           b == Joined(c, t)
<1>1. /\ st \in Seq(B) /\ Len(st) = Len(s) + Len(t)
      /\ \A i \in 1 .. Len(st) : st[i] = IF i <= Len(s) THEN s[i] ELSE t[i - Len(s)]
      /\ Len(s) \in Nat /\ Len(t) \in Nat
  BY ConcatProperties, LenProperties DEF Joined
<1>2. SubSeq(st, 1, k) = SubSeq(s, 1, k)
  BY SubSeqOfConcat1 DEF Joined
<1>3. \A i \in 1 .. Len(s) : s[i] \in B
  BY ElementOfSeq
<1>4. \A i \in 1 .. Len(st) : st[i] \in B
  BY <1>1, ElementOfSeq
<1> HIDE DEF st
<1>5. /\ a \in Seq(B) /\ Len(a) = Len(st) - k
      /\ \A i \in 1 .. Len(st) - k : a[i] = st[k + i]
  <2>1. \A i \in k + 1 .. Len(st) : st[i] \in B
    BY <1>1, <1>4
  <2>2. k + 1 \in Int /\ Len(st) \in Int /\ k \in Int
    BY <1>1
  <2> HIDE DEF a
  <2>3. /\ a \in Seq(B)
        /\ Len(a) = IF k + 1 <= Len(st) THEN Len(st) - (k + 1) + 1 ELSE 0
        /\ \A i \in 1 .. Len(st) - (k + 1) + 1 : a[i] = st[(k + 1) + i - 1]
    BY <2>1, <2>2, SubSeqProperties DEF a
  <2>4. ASSUME NEW i \in 1 .. Len(st) - k PROVE a[i] = st[k + i]
    <3>1. i \in 1 .. Len(st) - (k + 1) + 1 /\ (k + 1) + i - 1 = k + i
      BY <2>2
    <3> QED BY <2>3, <3>1
  <2> QED BY <1>1, <2>2, <2>3, <2>4
<1>6. /\ c \in Seq(B) /\ Len(c) = Len(s) - k
      /\ \A i \in 1 .. Len(s) - k : c[i] = s[k + i]
  <2>1. \A i \in k + 1 .. Len(s) : s[i] \in B
    BY <1>1, <1>3
  <2>2. k + 1 \in Int /\ Len(s) \in Int /\ k \in Int
    BY <1>1
  <2> HIDE DEF c
  <2>3. /\ c \in Seq(B)
        /\ Len(c) = IF k + 1 <= Len(s) THEN Len(s) - (k + 1) + 1 ELSE 0
        /\ \A i \in 1 .. Len(s) - (k + 1) + 1 : c[i] = s[(k + 1) + i - 1]
    BY <2>1, <2>2, SubSeqProperties DEF c
  <2>4. ASSUME NEW i \in 1 .. Len(s) - k PROVE c[i] = s[k + i]
    <3>1. i \in 1 .. Len(s) - (k + 1) + 1 /\ (k + 1) + i - 1 = k + i
      BY <2>2
    <3> QED BY <2>3, <3>1
  <2> QED BY <1>1, <2>2, <2>3, <2>4
<1> HIDE DEF c
<1>7. /\ b \in Seq(B) /\ Len(b) = Len(c) + Len(t)
      /\ \A i \in 1 .. Len(c) + Len(t) : b[i] = IF i <= Len(c) THEN c[i] ELSE t[i - Len(c)]
  BY <1>6, ConcatProperties DEF Joined
<1> HIDE DEF a, b
<1>8. ASSUME NEW i \in 1 .. Len(a) PROVE a[i] = b[i]
  <2>1. i \in 1 .. Len(st) - k /\ k + i \in 1 .. Len(st) /\ i \in 1 .. Len(c) + Len(t)
    BY <1>1, <1>5, <1>6
  <2>2. CASE i <= Len(c)
    <3>1. i \in 1 .. Len(s) - k /\ k + i <= Len(s)
      BY <1>1, <1>6, <2>1, <2>2
    <3> QED BY <1>1, <1>5, <1>6, <1>7, <2>1, <2>2, <3>1
  <2>3. CASE ~(i <= Len(c))
    <3>1. ~(k + i <= Len(s)) /\ (k + i) - Len(s) = i - Len(c)
      BY <1>1, <1>6, <2>1, <2>3
    <3> QED BY <1>1, <1>5, <1>7, <2>1, <2>3, <3>1
  <2> QED BY <2>2, <2>3
<1>9. a = b
  BY <1>1, <1>5, <1>6, <1>7, <1>8, SeqEqual
<1> QED BY <1>1, <1>2, <1>9 DEF a, b, c, st

(* The same of a sequence from which p elements have been taken before *)
LEMMA CutAgain ==
  ASSUME NEW B, NEW s \in Seq(B), NEW p \in 0 .. Len(s), NEW k \in 1 .. Len(s) - p
  PROVE  LET r == SubSeq(s, p + 1, Len(s))
         IN  /\ r \in Seq(B) /\ Len(r) = Len(s) - p
             /\ SubSeq(r, 1, k) = SubSeq(s, p + 1, p + k)
             /\ SubSeq(r, k + 1, Len(r)) = SubSeq(s, p + k + 1, Len(s))
<1> DEFINE r == SubSeq(s, p + 1, Len(s))
<1>0. Len(s) \in Nat /\ p \in Nat /\ k \in Nat
  BY LenProperties
<1>1. r \in Seq(B) /\ Len(r) = Len(s) - p
  <2>1. \A i \in p + 1 .. Len(s) : s[i] \in B
    BY <1>0, ElementOfSeq
  <2>2. /\ r \in Seq(B)
        /\ Len(r) = IF p + 1 <= Len(s) THEN Len(s) - (p + 1) + 1 ELSE 0
    BY <1>0, <2>1, SubSeqProperties
  <2> QED BY <1>0, <2>2
<1>2. SubSeq(r, 1, k) = SubSeq(s, p + 1, p + k)
  <2>1. /\ p + 1 \in 1 .. Len(s) /\ Len(s) \in 1 .. Len(s)
        /\ 1 \in 1 .. Len(s) - (p + 1) + 1 /\ k \in 1 .. Len(s) - (p + 1) + 1
    BY <1>0
  <2>2. SubSeq(r, 1, k) = SubSeq(s, (p + 1) + 1 - 1, (p + 1) + k - 1)
    BY <2>1, SubSeqOfSubSeq
  <2>3. (p + 1) + 1 - 1 = p + 1 /\ (p + 1) + k - 1 = p + k
    BY <1>0
  <2> QED BY <2>2, <2>3
<1>3. SubSeq(r, k + 1, Len(r)) = SubSeq(s, p + k + 1, Len(s))
  <2>1. CASE k = Len(s) - p
    <3>1. /\ k + 1 \in Int /\ Len(r) \in Int /\ Len(r) < k + 1
          /\ p + k + 1 \in Int /\ Len(s) \in Int /\ Len(s) < p + k + 1
      BY <1>0, <1>1, <2>1
    <3> HIDE DEF r
    <3>2. SubSeq(r, k + 1, Len(r)) = <<>>
      BY <3>1, SubSeqEmpty
    <3>3. SubSeq(s, p + k + 1, Len(s)) = <<>>
      BY <3>1, SubSeqEmpty
    <3> QED BY <3>2, <3>3
  <2>2. CASE k # Len(s) - p
    <3>1. /\ p + 1 \in 1 .. Len(s) /\ Len(s) \in 1 .. Len(s)
          /\ k + 1 \in 1 .. Len(s) - (p + 1) + 1 /\ Len(s) - p \in 1 .. Len(s) - (p + 1) + 1
      BY <1>0, <2>2
    <3>2. SubSeq(r, k + 1, Len(s) - p)
            = SubSeq(s, (p + 1) + (k + 1) - 1, (p + 1) + (Len(s) - p) - 1)
      BY <3>1, SubSeqOfSubSeq
    <3>3. (p + 1) + (k + 1) - 1 = p + k + 1 /\ (p + 1) + (Len(s) - p) - 1 = Len(s)
      BY <1>0
    <3> QED BY <1>1, <3>2, <3>3
  <2> QED BY <2>1, <2>2
<1> QED BY <1>1, <1>2, <1>3

-----------------------------------------------------------------------------
(* What is to be sent *)

Byte == (1 .. MaxMessages) \X Nat

(* A message has as many bytes as its size says, one at least. *)
LEMMA BytesType ==
  ASSUME NEW m \in Message
  PROVE  /\ Bytes(m) \in Seq(Byte) /\ Len(Bytes(m)) = m.size
         /\ m.size \in Nat /\ m.size > 0
<1>1. m.size \in Nat /\ m.size > 0 /\ m.id \in 1 .. MaxMessages
  <2>1. m.size \in Size /\ m.id \in 1 .. MaxMessages
    BY DEF Message
  <2>2. m.size \in Nat \ {0}
    BY <2>1, SizeAssumption
  <2> QED BY <2>1, <2>2
<1>2. ASSUME NEW i \in 1 .. m.size PROVE <<m.id, i>> \in Byte
  BY <1>1 DEF Byte
<1>3. [i \in 1 .. m.size |-> <<m.id, i>>] \in Seq(Byte)
  <2> HIDE DEF Byte
  <2> QED BY <1>1, <1>2
<1>4. Len(Bytes(m)) = m.size
  BY <1>1 DEF Bytes
<1> QED BY <1>1, <1>3, <1>4 DEF Bytes

(* The messages that wait, as bytes *)
Parts(q) == [i \in DOMAIN q |-> Bytes(q[i])]
Waiting(q) == FlattenSeq(Parts(q))

(* The queue's messages, each as its bytes, are a sequence of sequences. *)
LEMMA PartsType ==
  ASSUME NEW q \in Seq(Message)
  PROVE  Parts(q) \in Seq(Seq(Byte)) /\ Len(Parts(q)) = Len(q)
<1>1. \A i \in 1 .. Len(q) : Bytes(q[i]) \in Seq(Byte)
  BY ElementOfSeq, BytesType
<1>2. Len(q) \in Nat /\ DOMAIN q = 1 .. Len(q)
  BY LenProperties
<1> HIDE DEF Byte
<1>3. Parts(q) = [i \in 1 .. Len(q) |-> Bytes(q[i])]
  BY <1>2 DEF Parts
<1> QED BY <1>1, <1>2, <1>3

(* What waits is a sequence of bytes. *)
LEMMA WaitingType ==
  ASSUME NEW q \in Seq(Message)
  PROVE  Waiting(q) \in Seq(Byte)
BY PartsType, FlattenType DEF Waiting

(* Without messages nothing waits. *)
LEMMA WaitingEmpty == Waiting(<<>>) = <<>>
<1>1. Parts(<<>>) = <<>>
  BY DEF Parts
<1> QED BY <1>1, FlattenEmpty DEF Waiting

(* A message that is enqueued waits behind the others. *)
LEMMA WaitingAppend ==
  ASSUME NEW q \in Seq(Message), NEW m \in Message
  PROVE  Waiting(Append(q, m)) = Joined(Waiting(q), Bytes(m))
<1> DEFINE more == Append(q, m)
<1>1. /\ more \in Seq(Message) /\ Len(more) = Len(q) + 1 /\ Len(q) \in Nat
      /\ \A i \in 1 .. Len(q) : more[i] = q[i]
      /\ more[Len(q) + 1] = m
  BY AppendProperties, LenProperties
<1> HIDE DEF more
<1>2. /\ Parts(q) \in Seq(Seq(Byte)) /\ Len(Parts(q)) = Len(q)
      /\ Parts(more) \in Seq(Seq(Byte)) /\ Len(Parts(more)) = Len(q) + 1
      /\ Bytes(m) \in Seq(Byte)
  BY <1>1, PartsType, BytesType
<1> DEFINE ext == Append(Parts(q), Bytes(m))
<1>3. /\ ext \in Seq(Seq(Byte)) /\ Len(ext) = Len(q) + 1
      /\ \A i \in 1 .. Len(q) : ext[i] = Parts(q)[i]
      /\ ext[Len(q) + 1] = Bytes(m)
  BY <1>2, AppendProperties
<1> HIDE DEF ext
<1>4. ASSUME NEW i \in 1 .. Len(q) + 1 PROVE Parts(more)[i] = ext[i]
  <2>1. Parts(more)[i] = Bytes(more[i])
    BY <1>1, LenProperties DEF Parts
  <2>2. CASE i \in 1 .. Len(q)
    <3>1. Parts(q)[i] = Bytes(q[i])
      BY <2>2, LenProperties DEF Parts
    <3> QED BY <1>1, <1>3, <2>1, <2>2, <3>1
  <2>3. CASE i = Len(q) + 1
    BY <1>1, <1>3, <2>1, <2>3
  <2> QED BY <1>1, <2>2, <2>3
<1>5. Parts(more) = ext
  BY <1>1, <1>2, <1>3, <1>4, SeqEqual
<1>6. FlattenSeq(ext) = Joined(FlattenSeq(Parts(q)), Bytes(m))
  BY <1>2, FlattenAppend DEF ext
<1> QED BY <1>5, <1>6 DEF Waiting, more

(* The message that is taken first had waited in front. *)
LEMMA WaitingTail ==
  ASSUME NEW q \in Seq(Message), q # <<>>
  PROVE  /\ Head(q) \in Message /\ Tail(q) \in Seq(Message)
         /\ Waiting(q) = Joined(Bytes(Head(q)), Waiting(Tail(q)))
<1> DEFINE less == Tail(q)
<1>1. /\ Head(q) \in Message /\ Head(q) = q[1] /\ Len(q) \in Nat /\ Len(q) >= 1
      /\ less \in Seq(Message) /\ Len(less) = Len(q) - 1
      /\ \A i \in 1 .. Len(less) : less[i] = q[i + 1]
  BY HeadTailProperties, LenProperties
<1> HIDE DEF less
<1>2. /\ Parts(q) \in Seq(Seq(Byte)) /\ Len(Parts(q)) = Len(q)
      /\ Parts(less) \in Seq(Seq(Byte)) /\ Len(Parts(less)) = Len(q) - 1
  BY <1>1, PartsType
<1>3. /\ Parts(q) # <<>> /\ Head(Parts(q)) = Parts(q)[1]
      /\ Tail(Parts(q)) \in Seq(Seq(Byte)) /\ Len(Tail(Parts(q))) = Len(q) - 1
      /\ \A i \in 1 .. Len(q) - 1 : Tail(Parts(q))[i] = Parts(q)[i + 1]
  BY <1>1, <1>2, HeadTailProperties
<1>4. \A i \in 1 .. Len(q) : Parts(q)[i] = Bytes(q[i])
  BY LenProperties DEF Parts
<1>5. \A i \in 1 .. Len(less) : Parts(less)[i] = Bytes(less[i])
  BY <1>1, LenProperties DEF Parts
<1>6. ASSUME NEW i \in 1 .. Len(q) - 1 PROVE Tail(Parts(q))[i] = Parts(less)[i]
  <2>1. i + 1 \in 1 .. Len(q) /\ i \in 1 .. Len(less)
    BY <1>1
  <2> QED BY <1>1, <1>3, <1>4, <1>5, <2>1
<1>7. Tail(Parts(q)) = Parts(less)
  BY <1>1, <1>2, <1>3, <1>6, SeqEqual
<1>8. FlattenSeq(Parts(q)) = Joined(Head(Parts(q)), FlattenSeq(Tail(Parts(q))))
  BY <1>2, <1>3, FlattenTail
<1>9. Head(Parts(q)) = Bytes(Head(q))
  BY <1>1, <1>3, <1>4
<1> QED BY <1>1, <1>7, <1>8, <1>9 DEF Waiting, less

(* What is unsent is the rest of the current message and what waits. *)
LEMMA UnsentIs == Unsent = Joined(Rest, Waiting(queued))
BY DEF Unsent, Joined, Waiting, Parts

(* The rest of the current message is what its position leaves of it. *)
LEMMA RestType ==
  ASSUME TypeOK
  PROVE  /\ Rest \in Seq(Byte)
         /\ current = NULL => Rest = <<>>
         /\ current # NULL => Len(Rest) = current.size - current_pos
<1>1. CASE current = NULL
  <2>1. <<>> \in Seq(Byte)
    BY EmptySeq
  <2> QED BY <1>1, <2>1 DEF Rest
<1>2. CASE current # NULL
  <2>1. /\ current \in Message /\ current_pos \in Nat /\ current_pos <= current.size
    BY <1>2 DEF TypeOK
  <2>2. /\ Bytes(current) \in Seq(Byte) /\ Len(Bytes(current)) = current.size
        /\ current.size \in Nat
    BY <2>1, BytesType
  <2>3. \A i \in current_pos + 1 .. current.size : Bytes(current)[i] \in Byte
    BY <2>1, <2>2, ElementOfSeq
  <2>4. /\ SubSeq(Bytes(current), current_pos + 1, current.size) \in Seq(Byte)
        /\ Len(SubSeq(Bytes(current), current_pos + 1, current.size))
             = IF current_pos + 1 <= current.size THEN current.size - (current_pos + 1) + 1 ELSE 0
    BY <2>1, <2>2, <2>3, SubSeqProperties
  <2> QED BY <1>2, <2>1, <2>2, <2>4 DEF Rest
<1> QED BY <1>1, <1>2

-----------------------------------------------------------------------------
(* Type correctness *)

(* What send() takes of the current message *)
Taken(delta) == SubSeq(Bytes(current), current_pos + 1, current_pos + delta)

(* send() takes bytes that are there. *)
LEMMA TakenType ==
  ASSUME TypeOK, NEW delta \in 1 .. Room, SendSome(delta)
  PROVE  /\ current \in Message /\ Taken(delta) \in Seq(Byte)
         /\ current_pos \in Nat /\ delta \in Nat /\ delta > 0
         /\ current.size \in Nat /\ current_pos + delta <= current.size
<1>1. /\ current \in Message /\ current_pos \in Nat /\ current_pos < current.size
      /\ delta \in Nat /\ delta > 0 /\ delta <= current.size - current_pos
  BY RoomAssumption DEF TypeOK, SendSome, UnderWay
<1>2. /\ Bytes(current) \in Seq(Byte) /\ Len(Bytes(current)) = current.size
      /\ current.size \in Nat
  BY <1>1, BytesType
<1>3. \A i \in current_pos + 1 .. current_pos + delta : Bytes(current)[i] \in Byte
  BY <1>1, <1>2, ElementOfSeq
<1>4. Taken(delta) \in Seq(Byte)
  BY <1>1, <1>3, SubSeqProperties DEF Taken
<1> QED BY <1>1, <1>2, <1>4

(* Every variable keeps its type, and the position stays in its message. *)
THEOREM TypeCorrect == Spec => []TypeOK
<1>1. Init => TypeOK
  <2> SUFFICES ASSUME Init PROVE TypeOK
    OBVIOUS
  <2>1. <<>> \in Seq(Message) /\ <<>> \in Seq((1 .. MaxMessages) \X Nat)
    BY EmptySeq
  <2>2. Room \in 0 .. Room /\ 0 \in 0 .. MaxMessages
    BY RoomAssumption, BoundAssumption
  <2> QED BY <2>1, <2>2 DEF Init, TypeOK
<1>2. TypeOK /\ [Next]_vars => TypeOK'
  <2> SUFFICES ASSUME TypeOK, [Next]_vars PROVE TypeOK'
    OBVIOUS
  <2>1. ASSUME NEW size \in Size, Enqueue(size) PROVE TypeOK'
    <3> DEFINE m == [id |-> enqueued', size |-> size]
    <3>1. enqueued' \in 1 .. MaxMessages
      BY <2>1, BoundAssumption DEF Enqueue, TypeOK
    <3>2. m \in Message
      BY <3>1 DEF Message
    <3>3. queued' = Append(queued, m)
      BY <2>1 DEF Enqueue
    <3> HIDE DEF m
    <3>4. queued' \in Seq(Message)
      BY <3>2, <3>3, AppendProperties DEF TypeOK
    <3>5. enqueued' \in 0 .. MaxMessages
      BY <3>1
    <3> QED BY <2>1, <3>4, <3>5 DEF TypeOK, Enqueue
  <2>2. CASE Resume
    BY <2>2 DEF TypeOK, Resume, smq
  <2>3. ASSUME NEW delta \in 1 .. Room, SendSome(delta) PROVE TypeOK'
    <3>1. /\ current_pos' = current_pos + delta /\ room' = room - delta /\ delta <= room
          /\ stream' = stream \o Taken(delta)
          /\ UNCHANGED <<current, queued, pc, enqueued, broken>>
      BY <2>3 DEF SendSome, Taken
    <3>2. stream' \in Seq((1 .. MaxMessages) \X Nat)
      <4>1. stream \in Seq(Byte) /\ Taken(delta) \in Seq(Byte)
        BY <2>3, TakenType DEF TypeOK, Byte
      <4>2. stream' \in Seq(Byte)
        BY <3>1, <4>1, ConcatProperties
      <4> QED BY <4>2 DEF Byte
    <3>3. current_pos' \in Nat /\ current_pos' <= current.size
      BY <2>3, <3>1, TakenType
    <3>4. room' \in 0 .. Room
      BY <2>3, <3>1, RoomAssumption DEF TypeOK
    <3> QED BY <3>1, <3>2, <3>3, <3>4 DEF TypeOK
  <2>4. CASE SendFails \/ AllSent
    BY <2>4 DEF TypeOK, SendFails, AllSent, smq
  <2>5. CASE Advance
    <3>1. CASE queued # <<>>
      <4>1. /\ current' \in Message /\ queued' \in Seq(Message) /\ current_pos' = 0
        BY <2>5, <3>1, HeadTailProperties DEF Advance, TypeOK
      <4>2. current_pos' <= current'.size
        BY <4>1, BytesType
      <4> QED BY <2>5, <4>1, <4>2 DEF TypeOK, Advance
    <3>2. CASE queued = <<>>
      BY <2>5, <3>2 DEF TypeOK, Advance
    <3> QED BY <3>1, <3>2
  <2>6. CASE Delete
    BY <2>6, EmptySeq DEF TypeOK, Delete
  <2>7. CASE Drain
    <3>1. room' \in 0 .. Room
      BY <2>7, RoomAssumption DEF TypeOK, Drain
    <3> QED BY <2>7, <3>1 DEF TypeOK, Drain, smq
  <2>8. CASE Break
    BY <2>8 DEF TypeOK, Break, smq
  <2>9. CASE UNCHANGED vars
    BY <2>9 DEF TypeOK, vars, smq
  <2> QED BY <2>1, <2>2, <2>3, <2>4, <2>5, <2>6, <2>7, <2>8, <2>9 DEF Next, TrySend
<1> QED BY <1>1, <1>2, PTL DEF Spec

-----------------------------------------------------------------------------
(* "Empty" *)

(* Between two calls a message is under way, or nothing is in the queue. *)
AtRest ==
  pc = "idle" => IF current = NULL THEN queued = <<>> ELSE current_pos < current.size

(* A queue says "empty" exactly when its last byte has been handed over.    *)
THEOREM EmptyIsAlwaysSent == Spec => []EmptyIsSent
<1>1. Init => AtRest
  BY DEF Init, AtRest
<1>2. AtRest /\ [Next]_vars => AtRest'
  <2> SUFFICES ASSUME AtRest, [Next]_vars PROVE AtRest'
    OBVIOUS
  <2>1. CASE pc' # "idle"
    BY <2>1 DEF AtRest
  <2>2. CASE SendFails
    BY <2>2 DEF SendFails, AtRest, UnderWay, smq
  <2>3. CASE AllSent
    BY <2>3 DEF AllSent, AtRest, IsEmpty, smq
  <2>4. CASE Drain \/ Break \/ UNCHANGED vars
    BY <2>4 DEF Drain, Break, AtRest, vars, smq
  <2>5. (\E size \in Size : Enqueue(size)) \/ Resume \/ Delete => pc' # "idle"
    BY DEF Enqueue, Resume, Delete
  <2>6. (\E delta \in 1 .. Room : SendSome(delta)) \/ Advance => pc' # "idle"
    BY DEF SendSome, Advance
  <2> QED BY <2>1, <2>2, <2>3, <2>4, <2>5, <2>6 DEF Next, TrySend
<1>3. TypeOK /\ AtRest => EmptyIsSent
  <2> SUFFICES ASSUME TypeOK, AtRest, pc = "idle" PROVE IsEmpty <=> Unsent = <<>>
    BY DEF EmptyIsSent
  <2>1. Rest \in Seq(Byte) /\ Waiting(queued) \in Seq(Byte)
    BY RestType, WaitingType DEF TypeOK
  <2>2. CASE current = NULL
    <3>1. IsEmpty /\ Rest = <<>> /\ Waiting(queued) = <<>>
      BY <2>2, RestType, WaitingEmpty DEF AtRest, IsEmpty
    <3>2. Unsent = <<>>
      BY <2>1, <3>1, UnsentIs, JoinedType
    <3> QED BY <3>1, <3>2
  <2>3. CASE current # NULL
    <3>1. ~IsEmpty /\ current_pos < current.size /\ current_pos \in Nat /\ current \in Message
      BY <2>3 DEF AtRest, IsEmpty, TypeOK
    <3>2. current.size \in Nat
      BY <3>1, BytesType
    <3>3. Len(Rest) > 0
      BY <2>3, <3>1, <3>2, RestType
    <3>4. Rest # <<>>
      BY <3>3, EmptySeq
    <3>5. Unsent # <<>>
      BY <2>1, <3>4, UnsentIs, ConcatEqualIffEmpty DEF Joined
    <3> QED BY <3>1, <3>5
  <2> QED BY <2>2, <2>3
<1> QED BY <1>1, <1>2, <1>3, TypeCorrect, PTL DEF Spec

-----------------------------------------------------------------------------
(* The pipe of bytes *)

(* A sequence is a strict prefix of itself with more behind it.             *)
LEMMA JoinedExtends ==
  ASSUME NEW B, NEW s \in Seq(B), NEW t \in Seq(B), t # <<>>
  PROVE  IsStrictPrefix(s, Joined(s, t))
<1>1. /\ Len(s) \in Nat /\ Len(t) \in Nat /\ Len(t) > 0
      /\ Joined(s, t) \in Seq(B) /\ Len(Joined(s, t)) = Len(s) + Len(t)
  BY ConcatProperties, EmptySeq, LenProperties DEF Joined
<1>2. SubSeq(s, 1, Len(s)) = SubSeq(Joined(s, t), 1, Len(s))
  <2>1. CASE Len(s) = 0
    <3>1. SubSeq(s, 1, 0) = <<>> /\ SubSeq(Joined(s, t), 1, 0) = <<>>
      BY SubSeqEmpty
    <3> QED BY <2>1, <3>1
  <2>2. CASE Len(s) # 0
    <3>1. Len(s) \in 1 .. Len(s)
      BY <1>1, <2>2
    <3> QED BY <3>1, SubSeqOfConcat1 DEF Joined
  <2> QED BY <2>1, <2>2
<1>3. Len(s) <= Len(Joined(s, t)) /\ s # Joined(s, t)
  BY <1>1
<1> QED BY <1>2, <1>3 DEF IsStrictPrefix, IsPrefix

(* A new message lengthens what is to be sent.                              *)
LEMMA EnqueuePuts ==
  ASSUME TypeOK, NEW size \in Size, Enqueue(size)
  PROVE  Pipe!Put
<1> DEFINE m == [id |-> enqueued + 1, size |-> size]
<1>1. m \in Message
  BY BoundAssumption DEF Enqueue, TypeOK, Message
<1>2. /\ queued' = Append(queued, m) /\ pc = "idle" /\ pc' = "try"
      /\ UNCHANGED <<current_pos, current, stream>>
  BY DEF Enqueue
<1> HIDE DEF m
<1>3. Rest' = Rest
  BY <1>2 DEF Rest
<1>4. /\ Rest \in Seq(Byte) /\ Waiting(queued) \in Seq(Byte) /\ Bytes(m) \in Seq(Byte)
      /\ Bytes(m) # <<>>
  <2>1. Len(Bytes(m)) > 0 /\ Bytes(m) \in Seq(Byte)
    BY <1>1, BytesType
  <2> QED BY <2>1, EmptySeq, RestType, WaitingType DEF TypeOK
<1>5. Unsent' = Joined(Rest, Waiting(Append(queued, m)))
  <2>1. Unsent' = Joined(Rest', Waiting(queued'))
    BY DEF Unsent, Joined, Waiting, Parts
  <2> QED BY <2>1, <1>2, <1>3
<1>6. Unsent' = Joined(Rest, Joined(Waiting(queued), Bytes(m)))
  BY <1>1, <1>5, WaitingAppend DEF TypeOK
<1>7. Unsent' = Joined(Unsent, Bytes(m)) /\ Unsent \in Seq(Byte)
  <2> HIDE DEF Byte
  <2> QED BY <1>4, <1>6, UnsentIs, JoinedAssociative, JoinedType
<1>8. IsStrictPrefix(Unsent, Unsent')
  BY <1>4, <1>7, JoinedExtends
<1>9. Pipe!IsStrictPrefix(Unsent, Unsent')
  BY <1>8 DEF IsStrictPrefix, IsPrefix, Pipe!IsStrictPrefix, Pipe!IsPrefix
<1>10. pc # "gone" /\ (pc # "gone")' = (pc # "gone")
  BY <1>2
<1> QED BY <1>2, <1>9, <1>10 DEF Pipe!Put

(* What send() takes comes off the front of what is to be sent.             *)
LEMMA SendDelivers ==
  ASSUME TypeOK, NEW delta \in 1 .. Room, SendSome(delta)
  PROVE  delta \in 1 .. Len(Unsent) /\ Pipe!Deliver(delta)
<1>1. /\ current \in Message /\ current_pos \in Nat /\ delta \in Nat /\ delta > 0
      /\ current.size \in Nat /\ current_pos + delta <= current.size
  BY TakenType
<1>2. /\ current # NULL /\ pc = "try"
      /\ stream' = stream \o Taken(delta) /\ current_pos' = current_pos + delta
      /\ UNCHANGED <<current, queued, pc>>
  BY DEF SendSome, UnderWay, Taken
<1> DEFINE b == Bytes(current)
<1>3. b \in Seq(Byte) /\ Len(b) = current.size
  BY <1>1, BytesType
<1>4. current_pos \in 0 .. Len(b) /\ delta \in 1 .. Len(b) - current_pos
  BY <1>1, <1>3
<1>5. Rest = SubSeq(b, current_pos + 1, Len(b))
  BY <1>2, <1>3 DEF Rest
<1>6. Rest' = SubSeq(b, current_pos + delta + 1, Len(b))
  BY <1>2, <1>3 DEF Rest
<1> HIDE DEF b
<1>7. /\ Rest \in Seq(Byte) /\ Len(Rest) = Len(b) - current_pos
      /\ SubSeq(Rest, 1, delta) = SubSeq(b, current_pos + 1, current_pos + delta)
      /\ SubSeq(Rest, delta + 1, Len(Rest)) = Rest'
  BY <1>3, <1>4, <1>5, <1>6, CutAgain
<1>8. delta \in 1 .. Len(Rest) /\ Waiting(queued) \in Seq(Byte)
  BY <1>4, <1>7, WaitingType DEF TypeOK
<1>9. /\ Len(Unsent) = Len(Rest) + Len(Waiting(queued))
      /\ SubSeq(Unsent, 1, delta) = SubSeq(Rest, 1, delta)
      /\ SubSeq(Unsent, delta + 1, Len(Unsent)) = Joined(Rest', Waiting(queued))
  <2> HIDE DEF Byte
  <2> QED BY <1>7, <1>8, UnsentIs, CutJoined
<1>10. Unsent' = Joined(Rest', Waiting(queued))
  <2>1. Unsent' = Joined(Rest', Waiting(queued'))
    BY DEF Unsent, Joined, Waiting, Parts
  <2> QED BY <1>2, <2>1
<1>11. delta \in 1 .. Len(Unsent)
  <2>1. Len(Waiting(queued)) \in Nat /\ Len(Rest) \in Nat
    BY <1>7, <1>8, LenProperties
  <2> QED BY <1>8, <1>9, <2>1
<1>12. Taken(delta) = SubSeq(Rest, 1, delta)
  BY <1>7 DEF Taken, b
<1> QED BY <1>2, <1>9, <1>10, <1>11, <1>12 DEF Pipe!Deliver

(* Taking the next message changes nothing of what is to be sent.           *)
LEMMA AdvanceStutters ==
  ASSUME TypeOK, Advance
  PROVE  Unsent' = Unsent
<1>1. Waiting(queued) \in Seq(Byte) /\ Rest \in Seq(Byte)
  BY RestType, WaitingType DEF TypeOK
<1>2. Rest = <<>>
  <2>1. CASE current = NULL
    BY <2>1 DEF Rest
  <2>2. CASE current # NULL
    <3>1. /\ current \in Message /\ current_pos \in Nat /\ current_pos <= current.size
          /\ ~(current_pos < current.size)
      BY <2>2 DEF TypeOK, Advance, UnderWay
    <3>2. current.size \in Nat
      BY <3>1, BytesType
    <3>3. Len(Rest) = 0
      BY <2>2, <3>1, <3>2, RestType
    <3> QED BY <1>1, <3>3, EmptySeq
  <2> QED BY <2>1, <2>2
<1>3. Unsent = Waiting(queued)
  <2> HIDE DEF Byte
  <2> QED BY <1>1, <1>2, UnsentIs, JoinedType
<1>4. Unsent' = Joined(Rest', Waiting(queued'))
  BY DEF Unsent, Joined, Waiting, Parts
<1>5. CASE queued # <<>>
  <2>1. /\ queued \in Seq(Message) /\ current' = Head(queued) /\ queued' = Tail(queued)
        /\ current_pos' = 0
    BY <1>5 DEF TypeOK, Advance
  <2>2. /\ Head(queued) \in Message
        /\ Waiting(queued) = Joined(Bytes(Head(queued)), Waiting(Tail(queued)))
    BY <1>5, <2>1, WaitingTail
  <2>3. current' \in Message /\ current' # NULL
    BY <2>1, <2>2, NullAssumption
  <2>4. Bytes(current') \in Seq(Byte) /\ Len(Bytes(current')) = current'.size
    BY <2>3, BytesType
  <2>5. Rest' = SubSeq(Bytes(current'), 1, Len(Bytes(current')))
    <3>1. Rest' = SubSeq(Bytes(current'), current_pos' + 1, current'.size)
      BY <2>3 DEF Rest, Bytes
    <3> QED BY <2>1, <2>4, <3>1
  <2>6. Rest' = Bytes(current')
    BY <2>4, <2>5, SubSeqFull
  <2> QED BY <1>3, <1>4, <2>1, <2>2, <2>6
<1>6. CASE queued = <<>>
  <2>1. current' = NULL /\ queued' = <<>>
    BY <1>6 DEF Advance
  <2>2. Rest' = <<>>
    BY <2>1 DEF Rest
  <2> QED BY <1>1, <1>2, <1>3, <1>4, <1>6, <2>1, <2>2, UnsentIs
<1> QED BY <1>5, <1>6

(* The queue implements the pipe: nothing is lost, repeated or reordered.   *)
THEOREM PipeImplemented == Spec => PipeRefined
<1>1. Init => Pipe!Init
  <2> SUFFICES ASSUME Init PROVE Pipe!Init
    OBVIOUS
  <2>1. Rest = <<>> /\ Waiting(queued) = <<>> /\ stream = <<>> /\ pc = "idle"
    BY WaitingEmpty DEF Init, Rest
  <2>2. Unsent = <<>>
    BY <2>1, UnsentIs, JoinedType, EmptySeq
  <2> QED BY <2>1, <2>2 DEF Pipe!Init
<1>2. TypeOK /\ [Next]_vars => [Pipe!Next]_(Pipe!vars)
  <2> SUFFICES ASSUME TypeOK, [Next]_vars PROVE [Pipe!Next]_(Pipe!vars)
    OBVIOUS
  <2>1. ASSUME NEW size \in Size, Enqueue(size) PROVE Pipe!Next
    BY <2>1, EnqueuePuts DEF Pipe!Next
  <2>2. ASSUME NEW delta \in 1 .. Room, SendSome(delta) PROVE Pipe!Next
    BY <2>2, SendDelivers DEF Pipe!Next
  <2>3. CASE Advance
    <3>1. Unsent' = Unsent /\ stream' = stream /\ pc' = pc
      BY <2>3, AdvanceStutters DEF Advance
    <3> QED BY <3>1 DEF Pipe!vars
  <2>4. CASE Delete
    <3>1. Rest' = <<>> /\ queued' = <<>>
      BY <2>4 DEF Delete, Rest
    <3>2. Unsent' = Joined(Rest', Waiting(queued'))
      BY DEF Unsent, Joined, Waiting, Parts
    <3>3. Unsent' = <<>>
      BY <3>1, <3>2, WaitingEmpty, JoinedType, EmptySeq
    <3>4. pc = "idle" /\ pc' = "gone" /\ stream' = stream
      BY <2>4 DEF Delete
    <3> QED BY <3>3, <3>4 DEF Pipe!Next, Pipe!Close
  <2>5. CASE Resume \/ SendFails \/ AllSent \/ Drain \/ Break \/ UNCHANGED vars
    <3>1. /\ UNCHANGED <<smq, stream>> /\ ((pc' # "gone") <=> (pc # "gone"))
      BY <2>5 DEF Resume, SendFails, AllSent, Drain, Break, vars, smq
    <3>2. Unsent' = Unsent
      BY <3>1 DEF smq, Unsent, Rest, Bytes
    <3> QED BY <3>1, <3>2 DEF Pipe!vars
  <2> QED BY <2>1, <2>2, <2>3, <2>4, <2>5 DEF Next, TrySend
<1> QED BY <1>1, <1>2, TypeCorrect, PTL DEF Spec, PipeRefined, Pipe!Spec
=============================================================================
