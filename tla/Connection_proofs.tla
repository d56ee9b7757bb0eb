------------------------- MODULE Connection_proofs --------------------------
(***************************************************************************)
(* Proofs about Connection: the lines that the client gets, for messages   *)
(* of any sizes and writes and reads that cut them anywhere.               *)
(*                                                                         *)
(* The stream is described by what comes behind each of its bytes, and     *)
(* both ends by the byte that they are at: the sender by the one it sends  *)
(* next, the reader by the one it reads next.                              *)
(***************************************************************************)
EXTENDS Connection, SocketMessageQueue_proofs

(* The byte that comes behind b, and the one behind the first k bytes of the *)
(* stream                                                                   *)
Follows(b) == IF b[2] = said[b[1]] THEN <<b[1] + 1, 1>> ELSE <<b[1], b[2] + 1>>

Behind(k) == IF k = 0 THEN <<1, 1>> ELSE Follows(stream[k])

(* The byte that the sender is at *)
Upcoming ==
  IF current # NULL /\ current_pos < current.size
    THEN <<current.id, current_pos + 1>>
    ELSE <<enqueued - Len(queued) + 1, 1>>

(* The messages in the queue are the last that were said, in their order.   *)
Queued ==
  /\ Len(queued) <= enqueued
  /\ \A i \in 1 .. Len(queued) : /\ queued[i].id = enqueued - Len(queued) + i
                                 /\ queued[i].size = said[queued[i].id]
  /\ current # NULL => /\ current.id = enqueued - Len(queued)
                       /\ current.size = said[current.id]

SaidOK == said \in Seq(Size) /\ Len(said) = enqueued

(* A byte of a message that was said *)
Said(b) == b[1] \in 1 .. Len(said) /\ b[2] \in 1 .. said[b[1]]

Chain ==
  /\ \A k \in 1 .. Len(stream) : Said(stream[k])
  /\ \A k \in 1 .. Len(stream) : stream[k] = Behind(k - 1)

Sending == pc # "gone" => Queued /\ Upcoming = Behind(Len(stream))

SenderInv == SaidOK /\ Chain /\ Sending

-----------------------------------------------------------------------------
(* The server's end *)

(* The server's end of a connection is a send queue. *)
LEMMA ServerIsQueue == ConnSpec => Spec
<1>1. ConnInit => Init
  BY DEF ConnInit
<1>2. [ConnNext]_connVars => [Next]_vars
  BY DEF ConnNext, connVars, Say, Server, Network, Read, ReadBlock, ReadEnds, Receive, Next
<1> QED BY <1>1, <1>2, PTL DEF ConnSpec, Spec

(* The sizes of messages are numbers from 1. *)
LEMMA SaidType ==
  ASSUME SaidOK
  PROVE  /\ Len(said) \in Nat /\ DOMAIN said = 1 .. Len(said)
         /\ \A k \in 1 .. Len(said) : said[k] \in Nat /\ said[k] > 0
<1>1. \A k \in 1 .. Len(said) : said[k] \in Size
  BY ElementOfSeq DEF SaidOK
<1>2. \A s \in Size : s \in Nat /\ s > 0
  BY SizeAssumption
<1> QED BY <1>1, <1>2, LenProperties DEF SaidOK

(* What changes nothing at the sender's end keeps what holds there. *)
LEMMA SenderKept ==
  ASSUME SenderInv, UNCHANGED <<smq, enqueued, stream, said>>, pc = "gone" => pc' = "gone"
  PROVE  SenderInv'
BY DEF SenderInv, SaidOK, Chain, Said, Sending, Queued, Upcoming, Behind, Follows, smq

(* A new message comes behind all others. *)
LEMMA SaySends ==
  ASSUME TypeOK, SenderInv, NEW size \in Size, Say(size)
  PROVE  SenderInv'
<1>1. /\ enqueued' = enqueued + 1 /\ said' = Append(said, size) /\ pc = "idle"
      /\ queued' = Append(queued, [id |-> enqueued', size |-> size])
      /\ UNCHANGED <<current_pos, current, stream>>
  BY DEF Say, Enqueue
<1>2. said \in Seq(Size) /\ Len(said) = enqueued /\ enqueued \in Nat /\ queued \in Seq(Message)
  BY LenProperties DEF SenderInv, SaidOK, TypeOK
<1>3. /\ said' \in Seq(Size) /\ Len(said') = enqueued + 1 /\ said'[enqueued + 1] = size
      /\ \A k \in 1 .. enqueued : said'[k] = said[k]
  BY <1>1, <1>2, AppendProperties
<1> DEFINE m == [id |-> enqueued + 1, size |-> size]
<1>4. m \in Message /\ queued' = Append(queued, m)
  <2>1. enqueued + 1 \in 1 .. MaxMessages
    BY <1>2, BoundAssumption DEF Say, Enqueue, TypeOK
  <2> QED BY <1>1, <2>1 DEF Message
<1>5. m.id = enqueued + 1 /\ m.size = size
  OBVIOUS
<1> HIDE DEF m
<1>6. /\ Len(queued) \in Nat /\ Len(queued') = Len(queued) + 1
      /\ queued'[Len(queued) + 1] = m
      /\ \A i \in 1 .. Len(queued) : queued'[i] = queued[i]
  BY <1>2, <1>4, AppendProperties, LenProperties
<1>7. Queued /\ Upcoming = Behind(Len(stream))
  BY <1>1 DEF SenderInv, Sending
<1>8. ASSUME NEW b, Said(b) PROVE Said(b)' /\ Follows(b)' = Follows(b)
  <2>1. b[1] \in 1 .. enqueued /\ b[2] \in 1 .. said[b[1]]
    BY <1>2, <1>8 DEF Said
  <2>2. said'[b[1]] = said[b[1]] /\ b[1] \in 1 .. Len(said')
    BY <1>2, <1>3, <2>1
  <2> QED BY <2>1, <2>2 DEF Said, Follows
<1>9. SaidOK'
  BY <1>1, <1>3 DEF SaidOK
<1>10. \A k \in 1 .. Len(stream) : Said(stream[k]) /\ stream[k] = Behind(k - 1)
  BY DEF SenderInv, Chain
<1>11. \A k \in 0 .. Len(stream) : Behind(k)' = Behind(k)
  <2> SUFFICES ASSUME NEW k \in 0 .. Len(stream) PROVE Behind(k)' = Behind(k)
    OBVIOUS
  <2>1. CASE k = 0
    BY <2>1 DEF Behind
  <2>2. CASE k # 0
    <3>1. k \in 1 .. Len(stream)
      BY <2>2
    <3>2. Said(stream[k])
      BY <1>10, <3>1
    <3>3. Follows(stream[k])' = Follows(stream[k])
      BY <1>1, <1>8, <3>2 DEF Follows
    <3> QED BY <2>2, <3>3 DEF Behind
  <2> QED BY <2>1, <2>2
<1>12. Len(stream) \in Nat
  BY LenProperties DEF TypeOK
<1>13. Chain'
  <2> SUFFICES ASSUME NEW k \in 1 .. Len(stream)
               PROVE  Said(stream[k])' /\ stream[k] = Behind(k - 1)'
    BY <1>1 DEF Chain
  <2>1. Said(stream[k]) /\ stream[k] = Behind(k - 1)
    BY <1>10
  <2>2. Said(stream[k])'
    BY <1>1, <1>8, <2>1 DEF Said
  <2>3. k - 1 \in 0 .. Len(stream)
    BY <1>12
  <2> QED BY <1>11, <2>1, <2>2, <2>3
<1>14. Queued'
  <2>1. Len(queued') <= enqueued'
    BY <1>1, <1>2, <1>6, <1>7 DEF Queued
  <2>2. enqueued' - Len(queued') = enqueued - Len(queued)
    BY <1>1, <1>2, <1>6
  <2>3. ASSUME NEW i \in 1 .. Len(queued')
        PROVE  /\ queued'[i].id = enqueued' - Len(queued') + i
               /\ queued'[i].size = said'[queued'[i].id]
    <3>1. CASE i \in 1 .. Len(queued)
      <4>1. /\ queued[i].id = enqueued - Len(queued) + i
            /\ queued[i].size = said[queued[i].id]
        BY <1>7, <3>1 DEF Queued
      <4>2. queued[i].id \in 1 .. enqueued
        BY <1>2, <1>6, <1>7, <3>1, <4>1 DEF Queued
      <4> QED BY <1>3, <1>6, <2>2, <3>1, <4>1, <4>2
    <3>2. CASE i = Len(queued) + 1
      <4>1. queued'[i] = m
        BY <1>6, <3>2
      <4>2. enqueued + 1 = enqueued' - Len(queued') + i
        BY <1>2, <1>6, <2>2, <3>2
      <4> QED BY <1>3, <1>5, <4>1, <4>2
    <3> QED BY <1>6, <3>1, <3>2
  <2>4. ASSUME current # NULL
        PROVE  current.id = enqueued' - Len(queued') /\ current.size = said'[current.id]
    <3>1. current.id = enqueued - Len(queued) /\ current.size = said[current.id]
      BY <1>7, <2>4 DEF Queued
    <3>2. current \in Message
      BY <2>4 DEF TypeOK
    <3>3. current.id \in 1 .. MaxMessages
      BY <3>2 DEF Message
    <3>4. current.id \in 1 .. enqueued
      BY <1>2, <1>6, <3>1, <3>3, BoundAssumption
    <3> QED BY <1>3, <2>2, <3>1, <3>4
  <2> QED BY <1>1, <2>1, <2>3, <2>4 DEF Queued
<1>15. Upcoming' = Upcoming
  <2>1. enqueued' - Len(queued') = enqueued - Len(queued)
    BY <1>1, <1>2, <1>6
  <2> QED BY <1>1, <2>1 DEF Upcoming
<1>16. Behind(Len(stream))' = Behind(Len(stream))
  BY <1>1, <1>11, <1>12
<1> QED BY <1>7, <1>9, <1>13, <1>14, <1>15, <1>16 DEF SenderInv, Sending

(* send() goes on where the stream ends.                                    *)
LEMMA SendSends ==
  ASSUME TypeOK, SenderInv, NEW delta \in 1 .. Room, SendSome(delta), said' = said
  PROVE  SenderInv'
<1>1. /\ current \in Message /\ Taken(delta) \in Seq(Byte)
      /\ current_pos \in Nat /\ delta \in Nat /\ delta > 0
      /\ current.size \in Nat /\ current_pos + delta <= current.size
  BY TakenType
<1>2. /\ current # NULL /\ current_pos < current.size /\ pc = "try" /\ pc' = "try"
      /\ stream' = stream \o Taken(delta) /\ current_pos' = current_pos + delta
      /\ UNCHANGED <<current, queued, enqueued>>
  BY DEF SendSome, UnderWay, Taken
<1>m. PICK m : m = current.id
  OBVIOUS
<1>n. PICK N : N = Len(stream)
  OBVIOUS
<1>3. Queued /\ <<m, current_pos + 1>> = Behind(N)
  BY <1>2, <1>m, <1>n DEF SenderInv, Sending, Upcoming
<1>4. /\ m = enqueued - Len(queued) /\ current.size = said[m] /\ m \in Nat /\ m > 0
      /\ m <= enqueued /\ enqueued \in Nat /\ Len(queued) \in Nat
  <2>1. m = enqueued - Len(queued) /\ current.size = said[m]
    BY <1>2, <1>3, <1>m DEF Queued
  <2>2. m \in 1 .. MaxMessages
    BY <1>1, <1>m DEF Message
  <2>3. enqueued \in Nat /\ Len(queued) \in Nat
    BY LenProperties DEF TypeOK
  <2> QED BY <2>1, <2>2, <2>3, BoundAssumption
<1>5. \A j \in 1 .. delta : Taken(delta)[j] = <<m, current_pos + j>> /\ Len(Taken(delta)) = delta
  <2> SUFFICES ASSUME NEW j \in 1 .. delta
               PROVE  Taken(delta)[j] = <<m, current_pos + j>> /\ Len(Taken(delta)) = delta
    OBVIOUS
  <2>1. /\ current_pos + 1 \in Int /\ current_pos + delta \in Int
        /\ \A i \in current_pos + 1 .. current_pos + delta : Bytes(current)[i] = <<m, i>>
    BY <1>1, <1>m DEF Bytes
  <2>2. /\ Bytes(current) \in Seq(Byte) /\ Len(Bytes(current)) = current.size
    BY <1>1, BytesType
  <2>3. \A i \in current_pos + 1 .. current_pos + delta : Bytes(current)[i] \in Byte
    BY <1>1, <2>2, ElementOfSeq
  <2>4. /\ Len(Taken(delta)) = (current_pos + delta) - (current_pos + 1) + 1
        /\ Taken(delta)[j] = Bytes(current)[(current_pos + 1) + j - 1]
    BY <1>1, <2>1, <2>3, SubSeqProperties DEF Taken
  <2>5. (current_pos + 1) + j - 1 = current_pos + j
    BY <1>1
  <2> QED BY <1>1, <2>1, <2>4, <2>5
<1>6. /\ N \in Nat /\ stream' \in Seq(Byte) /\ Len(stream') = N + delta
      /\ \A k \in 1 .. N : stream'[k] = stream[k]
      /\ \A j \in 1 .. delta : stream'[N + j] = <<m, current_pos + j>>
  <2>1. stream \in Seq(Byte) /\ N \in Nat
    BY <1>n, LenProperties DEF TypeOK, Byte
  <2>2. 1 \in 1 .. delta
    BY <1>1
  <2>3. Len(Taken(delta)) = delta
    BY <1>5, <2>2
  <2>4. /\ stream' \in Seq(Byte) /\ Len(stream') = N + delta
        /\ \A k \in 1 .. N + delta :
             stream'[k] = IF k <= N THEN stream[k] ELSE Taken(delta)[k - N]
    <3> DEFINE t == Taken(delta)
    <3>1. stream' = stream \o t /\ t \in Seq(Byte) /\ Len(t) = delta
      BY <1>1, <1>2, <2>3
    <3> HIDE DEF t
    <3>2. /\ stream \o t \in Seq(Byte) /\ Len(stream \o t) = N + delta
          /\ \A k \in 1 .. N + delta :
               (stream \o t)[k] = IF k <= N THEN stream[k] ELSE t[k - N]
      BY <1>n, <2>1, <3>1, ConcatProperties
    <3> QED BY <3>1, <3>2 DEF t
  <2>5. ASSUME NEW j \in 1 .. delta PROVE stream'[N + j] = <<m, current_pos + j>>
    <3>1. N + j \in 1 .. N + delta /\ ~(N + j <= N) /\ (N + j) - N = j
      BY <1>1, <2>1
    <3> QED BY <1>5, <2>4, <3>1
  <2>6. ASSUME NEW k \in 1 .. N PROVE stream'[k] = stream[k]
    BY <1>1, <2>1, <2>4
  <2> QED BY <2>1, <2>4, <2>5, <2>6
<1>7. SaidOK /\ SaidOK'
  BY <1>2 DEF SenderInv, SaidOK
<1>8. Behind(0)' = Behind(0) /\ \A k \in 1 .. N : Behind(k)' = Behind(k)
  BY <1>6 DEF Behind, Follows
<1>9. \A j \in 1 .. delta : Said(<<m, current_pos + j>>)
  BY <1>1, <1>4, <1>7 DEF Said, SaidOK
<1>10. ASSUME NEW j \in 1 .. delta
       PROVE  Behind(N + j)' = IF current_pos + j = current.size
                                 THEN <<m + 1, 1>> ELSE <<m, current_pos + j + 1>>
  <2>1. N + j # 0
    BY <1>6
  <2>2. Behind(N + j)' = Follows(<<m, current_pos + j>>)
    BY <1>6, <2>1 DEF Behind, Follows
  <2> QED BY <1>4, <2>2 DEF Follows
<1>11. ASSUME NEW j \in 1 .. delta PROVE stream'[N + j] = Behind(N + j - 1)'
  <2>1. CASE j = 1
    <3>1. N + j - 1 = N
      BY <1>6, <2>1
    <3>2. Behind(N)' = Behind(N)
      BY <1>6, <1>8
    <3>3. Behind(N) = <<m, current_pos + 1>>
      BY <1>3
    <3>4. Behind(N + j - 1)' = Behind(N)
      BY <3>1, <3>2
    <3> QED BY <1>6, <2>1, <3>3, <3>4
  <2>2. CASE j # 1
    <3>1. j - 1 \in 1 .. delta /\ N + (j - 1) = N + j - 1
          /\ current_pos + (j - 1) # current.size
          /\ current_pos + (j - 1) + 1 = current_pos + j
      BY <1>1, <1>6, <2>2
    <3>2. Behind(N + (j - 1))' = <<m, current_pos + (j - 1) + 1>>
      BY <1>10, <3>1
    <3> QED BY <1>6, <3>1, <3>2
  <2> QED BY <2>1, <2>2
<1>12. Chain'
  <2> SUFFICES ASSUME NEW k \in 1 .. Len(stream')
               PROVE  Said(stream[k])' /\ stream'[k] = Behind(k - 1)'
    BY DEF Chain
  <2>1. CASE k \in 1 .. N
    <3>1. Said(stream[k]) /\ stream[k] = Behind(k - 1)
      BY <1>n, <2>1 DEF SenderInv, Chain
    <3>2. k - 1 = 0 \/ k - 1 \in 1 .. N
      BY <1>6, <2>1
    <3>3. Behind(k - 1)' = Behind(k - 1)
      BY <1>8, <3>2
    <3> QED BY <1>6, <2>1, <3>1, <3>3 DEF Said
  <2>2. CASE k \notin 1 .. N
    <3>1. PICK j \in 1 .. delta : k = N + j
      <4>1. k - N \in 1 .. delta /\ k = N + (k - N)
        BY <1>1, <1>6, <2>2
      <4> QED BY <4>1
    <3>2. Said(stream[k])'
      BY <1>6, <1>9, <3>1 DEF Said
    <3>3. stream'[N + j] = Behind(N + j - 1)'
      BY <1>11
    <3>4. k \in Nat /\ j \in Nat /\ N \in Nat
      BY <1>1, <1>6
    <3>5. stream'[k] = Behind(k - 1)'
      BY <3>1, <3>3, <3>4 DEF Behind, Follows
    <3> QED BY <3>2, <3>5
  <2> QED BY <2>1, <2>2
<1>13. Queued'
  BY <1>2, <1>3 DEF Queued
<1>14. Upcoming' = Behind(Len(stream))'
  <2>1. delta \in 1 .. delta
    BY <1>1
  <2>2. Behind(Len(stream))' = Behind(N + delta)'
    BY <1>6 DEF Behind, Follows
  <2>3. Behind(N + delta)' = IF current_pos + delta = current.size
                               THEN <<m + 1, 1>> ELSE <<m, current_pos + delta + 1>>
    BY <1>10, <2>1
  <2>4. Upcoming' = IF current_pos + delta < current.size
                      THEN <<m, current_pos + delta + 1>>
                      ELSE <<enqueued - Len(queued) + 1, 1>>
    BY <1>2, <1>m DEF Upcoming
  <2>5. PICK p : p = current_pos + delta
    OBVIOUS
  <2>6. CASE p = current.size
    <3>1. Upcoming' = <<m + 1, 1>>
      <4>1. ~(p < current.size) /\ enqueued - Len(queued) = m
        BY <1>1, <1>4, <2>6
      <4> QED BY <2>4, <2>5, <4>1
    <3> QED BY <2>2, <2>3, <2>5, <2>6, <3>1
  <2>7. CASE p # current.size
    <3>1. p < current.size
      BY <1>1, <2>5, <2>7
    <3>2. Upcoming' = <<m, p + 1>>
      BY <2>4, <2>5, <3>1
    <3> QED BY <2>2, <2>3, <2>5, <2>7, <3>2
  <2> QED BY <2>6, <2>7
<1> QED BY <1>7, <1>12, <1>13, <1>14 DEF SenderInv, Sending

(* The next message follows the one that is sent. *)
LEMMA AdvanceSends ==
  ASSUME TypeOK, SenderInv, Advance, said' = said
  PROVE  SenderInv'
<1>1. /\ pc = "try" /\ pc' = "try" /\ UNCHANGED <<enqueued, stream, said>> /\ ~UnderWay
  BY DEF Advance
<1>2. SaidOK' /\ Chain'
  BY <1>1 DEF SenderInv, SaidOK, Chain, Said, Behind, Follows
<1>3. Behind(Len(stream))' = Behind(Len(stream))
  BY <1>1 DEF Behind, Follows
<1>4. Queued /\ Upcoming = Behind(Len(stream))
  BY <1>1 DEF SenderInv, Sending
<1>5. Upcoming = <<enqueued - Len(queued) + 1, 1>>
  BY <1>1 DEF Upcoming, UnderWay
<1>6. CASE queued # <<>>
  <2>1. current' = Head(queued) /\ queued' = Tail(queued) /\ current_pos' = 0
    BY <1>6 DEF Advance
  <2>2. /\ queued \in Seq(Message) /\ enqueued \in Nat
    BY DEF TypeOK
  <2>3. /\ Len(queued) \in Nat /\ Len(queued) >= 1 /\ current' = queued[1]
        /\ Len(queued') = Len(queued) - 1
        /\ \A i \in 1 .. Len(queued') : queued'[i] = queued[i + 1]
        /\ current' \in Message
    BY <1>6, <2>1, <2>2, HeadTailProperties, LenProperties
  <2>4. /\ \A i \in 1 .. Len(queued) : /\ queued[i].id = enqueued - Len(queued) + i
                                       /\ queued[i].size = said[queued[i].id]
        /\ Len(queued) <= enqueued
    BY <1>4 DEF Queued
  <2>5. 1 \in 1 .. Len(queued)
    BY <2>3
  <2>6. /\ current'.id = enqueued - Len(queued) + 1
        /\ current'.size = said[current'.id]
    BY <2>3, <2>4, <2>5
  <2>7. enqueued' - Len(queued') = enqueued - Len(queued) + 1
    BY <1>1, <2>2, <2>3
  <2>8. ASSUME NEW i \in 1 .. Len(queued')
        PROVE  /\ queued'[i].id = enqueued' - Len(queued') + i
               /\ queued'[i].size = said'[queued'[i].id]
    <3>1. i + 1 \in 1 .. Len(queued)
      BY <2>3
    <3>2. /\ queued'[i].id = enqueued - Len(queued) + (i + 1)
          /\ queued'[i].size = said[queued'[i].id]
      BY <2>3, <2>4, <3>1
    <3>3. enqueued' - Len(queued') + i = enqueued - Len(queued) + (i + 1)
      BY <2>2, <2>3, <2>7
    <3> QED BY <1>1, <3>2, <3>3
  <2>9. Len(queued') <= enqueued'
    BY <1>1, <2>2, <2>3, <2>4
  <2>10. current'.id = enqueued' - Len(queued') /\ current'.size = said'[current'.id]
    BY <1>1, <2>6, <2>7
  <2>11. Queued'
    BY <2>8, <2>9, <2>10 DEF Queued
  <2>12. current' # NULL /\ 0 < current'.size
    <3>1. current' # NULL
      BY <2>3, NullAssumption
    <3> QED BY <2>3, <3>1, BytesType
  <2>13. Upcoming' = <<current'.id, 1>>
    BY <2>1, <2>12 DEF Upcoming
  <2> QED BY <1>2, <1>3, <1>4, <1>5, <2>6, <2>11, <2>13 DEF SenderInv, Sending
<1>7. CASE queued = <<>>
  <2>1. current' = NULL /\ queued' = queued
    BY <1>7 DEF Advance
  <2>2. Queued'
    BY <1>1, <1>4, <2>1 DEF Queued
  <2>3. Upcoming' = Upcoming
    BY <1>1, <1>5, <2>1 DEF Upcoming
  <2> QED BY <1>2, <1>3, <1>4, <2>2, <2>3 DEF SenderInv, Sending
<1> QED BY <1>6, <1>7

(* Whatever the sender does, its messages stay in order. *)
LEMMA SenderHolds == ConnSpec => []SenderInv
<1>1. ConnInit => SenderInv
  <2> SUFFICES ASSUME ConnInit PROVE SenderInv
    OBVIOUS
  <2>1. /\ said = <<>> /\ stream = <<>> /\ queued = <<>> /\ current = NULL
        /\ enqueued = 0 /\ pc = "idle"
    BY DEF ConnInit, Init
  <2>2. said \in Seq(Size) /\ Len(said) = 0 /\ Len(stream) = 0 /\ Len(queued) = 0
    BY <2>1, EmptySeq
  <2>3. SaidOK /\ Chain
    BY <2>1, <2>2 DEF SaidOK, Chain
  <2>4. Queued
    BY <2>1, <2>2 DEF Queued
  <2>5. Upcoming = Behind(Len(stream))
    BY <2>1, <2>2 DEF Upcoming, Behind
  <2> QED BY <2>3, <2>4, <2>5 DEF SenderInv, Sending
<1>2. TypeOK /\ SenderInv /\ [ConnNext]_connVars => SenderInv'
  <2> SUFFICES ASSUME TypeOK, SenderInv, [ConnNext]_connVars PROVE SenderInv'
    OBVIOUS
  <2>1. ASSUME NEW size \in Size, Say(size) PROVE SenderInv'
    BY <2>1, SaySends
  <2>2. CASE Resume /\ UNCHANGED <<said, reader>>
    BY <2>2, SenderKept DEF Resume
  <2>3. CASE TrySend /\ UNCHANGED <<said, reader>>
    <3>1. ASSUME NEW delta \in 1 .. Room, SendSome(delta) PROVE SenderInv'
      BY <2>3, <3>1, SendSends
    <3>2. CASE SendFails \/ AllSent
      BY <2>3, <3>2, SenderKept DEF SendFails, AllSent
    <3>3. CASE Advance
      BY <2>3, <3>3, AdvanceSends
    <3> QED BY <2>3, <3>1, <3>2, <3>3 DEF TrySend
  <2>4. CASE Delete /\ UNCHANGED <<said, reader>>
    <3>1. pc' = "gone" /\ UNCHANGED <<enqueued, stream, said>>
      BY <2>4 DEF Delete
    <3> QED BY <3>1 DEF SenderInv, SaidOK, Chain, Said, Sending, Behind, Follows
  <2>5. CASE Network
    BY <2>5, SenderKept DEF Network, Drain, Break
  <2>6. CASE Read \/ ReadEnds \/ Receive \/ UNCHANGED connVars
    <3>1. UNCHANGED <<smq, enqueued, stream, said, pc>>
      BY <2>6 DEF Read, ReadBlock, ReadEnds, Receive, connVars, vars
    <3> QED BY <3>1, SenderKept
  <2> QED BY <2>1, <2>2, <2>3, <2>4, <2>5, <2>6 DEF ConnNext, Server
<1> QED BY <1>1, <1>2, ServerIsQueue, TypeCorrect, PTL DEF ConnSpec

-----------------------------------------------------------------------------
(* The client's end *)

(* What was collected from the first t bytes: the lines and the beginning of *)
(* a line that come before the byte to be read next.                        *)
Place(r, t) ==
  /\ r \in [buffer : Seq(Byte), queue : Seq(Seq(Byte))]
  /\ Len(got) + Len(r.queue) + 1 = Behind(t)[1]
  /\ Len(r.buffer) + 1 = Behind(t)[2]
  /\ \A j \in 1 .. Len(r.buffer) : r.buffer[j] = <<Behind(t)[1], j>>
  /\ \A k \in 1 .. Len(r.queue) : r.queue[k] = Text(Len(got) + k)

ReaderInv ==
  /\ taken \in 0 .. Len(stream)
  /\ got \in Seq(Seq(Byte))
  /\ \A k \in 1 .. Len(got) : got[k] = Text(k)
  /\ Place(Collected, taken)

(* The text of a message is its bytes without the newline. *)
LEMMA TextIs ==
  ASSUME TypeOK, SaidOK, NEW k \in 1 .. Len(said)
  PROVE  /\ Text(k) \in Seq(Byte) /\ Len(Text(k)) = said[k] - 1
         /\ \A j \in 1 .. said[k] - 1 : Text(k)[j] = <<k, j>>
<1> DEFINE m == [id |-> k, size |-> said[k]]
<1>1. said[k] \in Nat /\ said[k] > 0 /\ said[k] \in Size /\ Len(said) \in Nat
  BY SaidType, ElementOfSeq DEF SaidOK
<1>2. k \in 1 .. MaxMessages
  BY <1>1, BoundAssumption DEF TypeOK, SaidOK
<1>3. m \in Message /\ m.id = k /\ m.size = said[k]
  BY <1>1, <1>2 DEF Message
<1>4. Text(k) = SubSeq(Bytes(m), 1, said[k] - 1)
  BY DEF Text
<1> HIDE DEF m
<1>5. Bytes(m) \in Seq(Byte) /\ Len(Bytes(m)) = said[k]
  BY <1>3, BytesType
<1>6. \A i \in 1 .. said[k] - 1 : Bytes(m)[i] \in Byte
  BY <1>1, <1>5, ElementOfSeq
<1>7. \A i \in 1 .. said[k] - 1 : Bytes(m)[i] = <<k, i>>
  BY <1>1, <1>3 DEF Bytes
<1>8. /\ Text(k) \in Seq(Byte)
      /\ Len(Text(k)) = IF 1 <= said[k] - 1 THEN (said[k] - 1) - 1 + 1 ELSE 0
      /\ \A i \in 1 .. (said[k] - 1) - 1 + 1 : Text(k)[i] = Bytes(m)[1 + i - 1]
  BY <1>1, <1>4, <1>6, SubSeqProperties
<1>9. ASSUME NEW j \in 1 .. said[k] - 1 PROVE Text(k)[j] = <<k, j>>
  <2>1. j \in 1 .. (said[k] - 1) - 1 + 1 /\ 1 + j - 1 = j
    BY <1>1
  <2> QED BY <1>7, <1>8, <2>1
<1> QED BY <1>1, <1>8, <1>9

(* What comes behind a byte of the stream begins a message, the next one     *)
(* that is said at the latest, or is a byte of one that was said.           *)
LEMMA BehindIs ==
  ASSUME TypeOK, SenderInv, NEW t \in 0 .. Len(stream)
  PROVE  /\ Behind(t)[1] \in 1 .. Len(said) + 1
         /\ Behind(t)[2] \in Nat /\ Behind(t)[2] > 0
         /\ Behind(t) = <<Behind(t)[1], Behind(t)[2]>>
         /\ Behind(t)[2] # 1 => Said(Behind(t))
<1>1. /\ Len(said) \in Nat /\ Len(stream) \in Nat
      /\ \A k \in 1 .. Len(said) : said[k] \in Nat /\ said[k] > 0
  BY SaidType, LenProperties DEF SenderInv, TypeOK
<1>2. CASE t = 0
  <2>1. Behind(t) = <<1, 1>>
    BY <1>2 DEF Behind
  <2> QED BY <1>1, <2>1
<1>3. CASE t # 0
  <2>1. PICK b : b = stream[t]
    OBVIOUS
  <2>2. Said(b) /\ Behind(t) = Follows(b)
    BY <1>1, <1>3, <2>1 DEF SenderInv, Chain, Behind
  <2>3. /\ b[1] \in 1 .. Len(said) /\ b[2] \in 1 .. said[b[1]]
        /\ said[b[1]] \in Nat /\ said[b[1]] > 0
    BY <1>1, <2>2 DEF Said
  <2>4. CASE b[2] = said[b[1]]
    <3>1. Behind(t) = <<b[1] + 1, 1>>
      BY <2>2, <2>4 DEF Follows
    <3> QED BY <1>1, <2>3, <3>1
  <2>5. CASE b[2] # said[b[1]]
    <3>1. Behind(t) = <<b[1], b[2] + 1>>
      BY <2>2, <2>5 DEF Follows
    <3> QED BY <1>1, <2>3, <2>5, <3>1 DEF Said
  <2> QED BY <2>4, <2>5
<1> QED BY <1>2, <1>3

(* A byte that is read leads from one place to the next.                    *)
LEMMA ByteRead ==
  ASSUME TypeOK, SenderInv, ReaderInv,
         NEW t \in Nat, t + 1 <= Len(stream), NEW r, Place(r, t)
  PROVE  Place(ReadByte(r, stream[t + 1]), t + 1)
<1>1. /\ Len(said) \in Nat /\ Len(stream) \in Nat
      /\ \A k \in 1 .. Len(said) : said[k] \in Nat /\ said[k] > 0
  BY SaidType, LenProperties DEF SenderInv, TypeOK
<1>2. PICK b : b = stream[t + 1]
  OBVIOUS
<1>3. t + 1 \in 1 .. Len(stream) /\ t \in 0 .. Len(stream) /\ t + 1 # 0 /\ (t + 1) - 1 = t
  BY <1>1
<1>4. Behind(t) = b /\ Said(b) /\ Behind(t + 1) = Follows(b) /\ b \in Byte
  <2>1. stream \in Seq(Byte)
    BY DEF TypeOK, Byte
  <2>2. \A k \in 1 .. Len(stream) : Said(stream[k]) /\ stream[k] = Behind(k - 1)
    BY DEF SenderInv, Chain
  <2>3. Said(b) /\ b = Behind((t + 1) - 1)
    BY <1>2, <1>3, <2>2
  <2>4. b \in Byte
    BY <1>2, <1>3, <2>1, ElementOfSeq
  <2>5. Behind(t + 1) = Follows(b)
    BY <1>2, <1>3 DEF Behind
  <2> QED BY <1>3, <2>3, <2>4, <2>5
<1>5. /\ b[1] \in 1 .. Len(said) /\ b[2] \in 1 .. said[b[1]] /\ b = <<b[1], b[2]>>
      /\ said[b[1]] \in Nat
  BY <1>1, <1>4 DEF Said, Byte
<1>6. /\ r \in [buffer : Seq(Byte), queue : Seq(Seq(Byte))]
      /\ Len(got) + Len(r.queue) + 1 = b[1] /\ Len(r.buffer) + 1 = b[2]
      /\ \A j \in 1 .. Len(r.buffer) : r.buffer[j] = <<b[1], j>>
      /\ \A k \in 1 .. Len(r.queue) : r.queue[k] = Text(Len(got) + k)
  BY <1>4 DEF Place
<1>7. /\ r.buffer \in Seq(Byte) /\ r.queue \in Seq(Seq(Byte))
      /\ Len(r.buffer) \in Nat /\ Len(r.queue) \in Nat /\ Len(got) \in Nat
  BY <1>6, LenProperties DEF ReaderInv
<1>8. CASE IsNewline(b)
  <2>1. PICK q : q = Append(r.queue, r.buffer)
    OBVIOUS
  <2>2. ReadByte(r, b) = [buffer |-> <<>>, queue |-> q]
    BY <1>8, <2>1 DEF ReadByte
  <2>3. /\ q \in Seq(Seq(Byte)) /\ Len(q) = Len(r.queue) + 1
        /\ \A k \in 1 .. Len(r.queue) : q[k] = r.queue[k]
        /\ q[Len(r.queue) + 1] = r.buffer
    BY <1>7, <2>1, AppendProperties
  <2>4. <<>> \in Seq(Byte) /\ Len(<<>>) = 0
    BY EmptySeq
  <2>5. b[2] = said[b[1]] /\ Behind(t + 1) = <<b[1] + 1, 1>>
    BY <1>4, <1>8 DEF IsNewline, Follows
  <2>6. r.buffer = Text(b[1])
    <3>1. SaidOK
      BY DEF SenderInv
    <3>2. /\ Text(b[1]) \in Seq(Byte) /\ Len(Text(b[1])) = said[b[1]] - 1
          /\ \A j \in 1 .. said[b[1]] - 1 : Text(b[1])[j] = <<b[1], j>>
      BY <1>5, <3>1, TextIs
    <3>3. Len(r.buffer) = said[b[1]] - 1
      BY <1>5, <1>6, <1>7, <2>5
    <3>4. \A j \in 1 .. Len(r.buffer) : r.buffer[j] = Text(b[1])[j]
      BY <1>6, <3>2, <3>3
    <3> QED BY <1>7, <3>2, <3>3, <3>4, SeqEqual
  <2>7. Len(got) + (Len(r.queue) + 1) = b[1]
    BY <1>5, <1>6, <1>7
  <2>8. ASSUME NEW k \in 1 .. Len(q) PROVE q[k] = Text(Len(got) + k)
    <3>1. CASE k = Len(r.queue) + 1
      BY <2>3, <2>6, <2>7, <3>1
    <3>2. CASE k # Len(r.queue) + 1
      <4>1. k \in 1 .. Len(r.queue)
        BY <1>7, <2>3, <3>2
      <4> QED BY <1>6, <2>3, <4>1
    <3> QED BY <3>1, <3>2
  <2>9. PICK s : s = [buffer |-> <<>>, queue |-> q]
    OBVIOUS
  <2>10. /\ s \in [buffer : Seq(Byte), queue : Seq(Seq(Byte))]
         /\ s.buffer = <<>> /\ s.queue = q
    BY <2>3, <2>4, <2>9
  <2>11. Len(got) + Len(q) + 1 = b[1] + 1
    BY <1>5, <1>7, <2>3, <2>7
  <2>12. Place(s, t + 1)
    BY <2>4, <2>5, <2>8, <2>10, <2>11 DEF Place
  <2> QED BY <1>2, <2>2, <2>9, <2>12
<1>9. CASE ~IsNewline(b)
  <2>1. PICK c : c = Append(r.buffer, b)
    OBVIOUS
  <2>2. PICK s : s = [r EXCEPT !.buffer = c]
    OBVIOUS
  <2>3. ReadByte(r, b) = s
    BY <1>9, <2>1, <2>2 DEF ReadByte
  <2>4. /\ c \in Seq(Byte) /\ Len(c) = Len(r.buffer) + 1
        /\ \A j \in 1 .. Len(r.buffer) : c[j] = r.buffer[j]
        /\ c[Len(r.buffer) + 1] = b
    BY <1>4, <1>7, <2>1, AppendProperties
  <2>5. /\ s \in [buffer : Seq(Byte), queue : Seq(Seq(Byte))]
        /\ s.buffer = c /\ s.queue = r.queue
    BY <1>6, <2>2, <2>4
  <2>6. Behind(t + 1) = <<b[1], b[2] + 1>>
    BY <1>4, <1>9 DEF IsNewline, Follows
  <2>7. ASSUME NEW j \in 1 .. Len(c) PROVE c[j] = <<b[1], j>>
    <3>1. CASE j = Len(r.buffer) + 1
      BY <1>5, <1>6, <2>4, <3>1
    <3>2. CASE j # Len(r.buffer) + 1
      <4>1. j \in 1 .. Len(r.buffer)
        BY <1>7, <2>4, <3>2
      <4> QED BY <1>6, <2>4, <4>1
    <3> QED BY <3>1, <3>2
  <2>8. Len(c) + 1 = b[2] + 1
    BY <1>5, <1>6, <1>7, <2>4
  <2>9. Place(s, t + 1)
    BY <1>6, <2>5, <2>6, <2>7, <2>8 DEF Place
  <2> QED BY <1>2, <2>3, <2>9
<1> QED BY <1>8, <1>9

(* The recursion over the bytes of a block has the values that its          *)
(* definition asks for.                                                     *)
LEMMA ReadsIsDefined ==
  ASSUME TypeOK, ReaderInv, NEW n \in Nat, taken + n <= Len(stream)
  PROVE  /\ Reads(n)[0] = Collected
         /\ \A i \in 1 .. n : Reads(n)[i] = ReadByte(Reads(n)[i - 1], stream[taken + i])
<1> DEFINE S == [buffer : Seq(Byte), queue : Seq(Seq(Byte))]
           h == [s \in S \X (1 .. n) |-> ReadByte(s[1], stream[taken + s[2]])]
           Body(g) == [k \in 0 .. n |->
                         IF k = 0 THEN Collected ELSE ReadByte(g[k - 1], stream[taken + k])]
<1>1. taken \in Nat /\ stream \in Seq(Byte) /\ Collected \in S
  BY DEF ReaderInv, Place, TypeOK, Byte
<1>2. ASSUME NEW r \in S, NEW i \in 1 .. n PROVE ReadByte(r, stream[taken + i]) \in S
  <2>1. PICK b : b = stream[taken + i]
    OBVIOUS
  <2>2. taken + i \in 1 .. Len(stream)
    BY <1>1, LenProperties
  <2>3. b \in Byte
    BY <1>1, <2>1, <2>2, ElementOfSeq
  <2>4. /\ r.buffer \in Seq(Byte) /\ r.queue \in Seq(Seq(Byte)) /\ <<>> \in Seq(Byte)
    BY EmptySeq
  <2>5. Append(r.buffer, b) \in Seq(Byte) /\ Append(r.queue, r.buffer) \in Seq(Seq(Byte))
    BY <2>3, <2>4, AppendProperties
  <2>6. ReadByte(r, b) \in S
    BY <2>4, <2>5 DEF ReadByte
  <2> QED BY <2>1, <2>6
<1> HIDE DEF S
<1>3. h \in Steps(S, n)
  BY <1>2 DEF Steps
<1>4. PICK g \in [0 .. n -> S] : g[0] = Collected /\ \A i \in 1 .. n : g[i] = h[<<g[i - 1], i>>]
  <2> HIDE DEF h
  <2>1. \E g : Iterates(g, S, n, Collected, h)
    BY <1>1, <1>3, Iterated
  <2> QED BY <2>1 DEF Iterates
<1>5. ASSUME NEW i \in 1 .. n PROVE g[i] = ReadByte(g[i - 1], stream[taken + i])
  <2>1. <<g[i - 1], i>> \in S \X (1 .. n)
    BY <1>4
  <2> QED BY <1>4, <2>1
<1>6. g = Body(g)
  BY <1>4, <1>5
<1>7. Reads(n) = Body(Reads(n))
  BY <1>6 DEF Reads
<1>8. Reads(n)[0] = Collected
  <2>1. Reads(n)[0] = Body(Reads(n))[0]
    BY <1>7
  <2> QED BY <2>1
<1>9. ASSUME NEW i \in 1 .. n
      PROVE  Reads(n)[i] = ReadByte(Reads(n)[i - 1], stream[taken + i])
  <2>1. Reads(n)[i] = Body(Reads(n))[i]
    BY <1>7
  <2> QED BY <2>1
<1> QED BY <1>8, <1>9

(* A block that is read leads to the place behind it. *)
LEMMA BlockRead ==
  ASSUME TypeOK, SenderInv, ReaderInv, NEW n \in Nat, taken + n <= Len(stream)
  PROVE  Place(Reads(n)[n], taken + n)
<1> DEFINE T == {k \in 0 .. n : Place(Reads(n)[k], taken + k)}
<1>1. taken \in Nat /\ Len(stream) \in Nat
  BY LenProperties DEF ReaderInv, TypeOK
<1>2. /\ Reads(n)[0] = Collected
      /\ \A i \in 1 .. n : Reads(n)[i] = ReadByte(Reads(n)[i - 1], stream[taken + i])
  BY ReadsIsDefined
<1>3. 0 \in T
  <2>1. taken + 0 = taken
    BY <1>1
  <2>2. Place(Reads(n)[0], taken + 0)
    BY <1>2, <2>1 DEF ReaderInv
  <2> QED BY <2>2
<1>4. ASSUME NEW i \in 1 .. n, i - 1 \in T PROVE i \in T
  <2>1. PICK t : t = taken + (i - 1)
    OBVIOUS
  <2>2. PICK r : r = Reads(n)[i - 1]
    OBVIOUS
  <2>3. t \in Nat /\ t + 1 = taken + i /\ t + 1 <= Len(stream)
    BY <1>1, <2>1
  <2>4. Place(r, t)
    BY <1>4, <2>1, <2>2
  <2>5. Place(ReadByte(r, stream[t + 1]), t + 1)
    BY <2>3, <2>4, ByteRead
  <2>6. Reads(n)[i] = ReadByte(r, stream[t + 1])
    BY <1>2, <2>2, <2>3
  <2>7. Place(Reads(n)[i], taken + i)
    BY <2>3, <2>5, <2>6
  <2> QED BY <2>7
<1>5. n \in T
  <2> HIDE DEF T
  <2>1. 0 .. n \subseteq T
    BY <1>3, <1>4, UpTo
  <2> QED BY <2>1
<1> QED BY <1>5

(* A step that changes nothing at the client's end, and at most adds to the *)
(* stream and to what was said, keeps what holds there.                     *)
LEMMA ReaderKept ==
  ASSUME TypeOK, SenderInv, ReaderInv, UNCHANGED <<in_buffer, in_queue, taken, got>>,
         Len(said') \in Nat, Len(said) <= Len(said'),
         \A k \in 1 .. Len(said) : said'[k] = said[k],
         Len(stream') \in Nat, Len(stream) <= Len(stream'),
         \A k \in 1 .. Len(stream) : stream'[k] = stream[k]
  PROVE  ReaderInv'
<1>1. UNCHANGED <<in_buffer, in_queue, taken, got>>
  OBVIOUS
<1>2. /\ Len(said) \in Nat /\ Len(stream) \in Nat /\ taken \in 0 .. Len(stream)
  BY SaidType, LenProperties DEF SenderInv, TypeOK, ReaderInv
<1>3. PICK t : t = taken
  OBVIOUS
<1>4. PICK b : b = Behind(t)
  OBVIOUS
<1>5. ASSUME NEW k \in 1 .. Len(said) PROVE Text(k)' = Text(k)
  BY DEF Text, Bytes
<1>6. b = Behind(t)'
  <2>1. CASE t = 0
    BY <1>4, <2>1 DEF Behind
  <2>2. CASE t # 0
    <3>1. t \in 1 .. Len(stream)
      BY <1>2, <1>3, <2>2
    <3>2. PICK c : c = stream[t]
      OBVIOUS
    <3>3. Said(c) /\ c = stream'[t]
      BY <3>1, <3>2 DEF SenderInv, Chain
    <3>4. said'[c[1]] = said[c[1]]
      BY <3>3 DEF Said
    <3>5. b = Follows(c)
      BY <1>4, <2>2, <3>2 DEF Behind
    <3>6. Behind(t)' = Follows(c)
      BY <2>2, <3>3, <3>4 DEF Behind, Follows
    <3> QED BY <3>5, <3>6
  <2> QED BY <2>1, <2>2
<1>7. b[1] \in 1 .. Len(said) + 1
  BY <1>2, <1>3, <1>4, BehindIs
<1>8. /\ Collected \in [buffer : Seq(Byte), queue : Seq(Seq(Byte))]
      /\ Len(got) + Len(in_queue) + 1 = b[1] /\ Len(in_buffer) + 1 = b[2]
      /\ \A j \in 1 .. Len(in_buffer) : in_buffer[j] = <<b[1], j>>
      /\ \A k \in 1 .. Len(in_queue) : in_queue[k] = Text(Len(got) + k)
      /\ got \in Seq(Seq(Byte)) /\ \A k \in 1 .. Len(got) : got[k] = Text(k)
  BY <1>3, <1>4 DEF ReaderInv, Place, Collected
<1>9. /\ Len(got) \in Nat /\ Len(in_queue) \in Nat
      /\ Len(got) + Len(in_queue) <= Len(said)
  <2>1. in_queue \in Seq(Seq(Byte))
    BY <1>8 DEF Collected
  <2>2. Len(got) \in Nat /\ Len(in_queue) \in Nat
    BY <1>8, <2>1, LenProperties
  <2>3. Len(got) + Len(in_queue) + 1 = b[1]
    BY <1>8
  <2> QED BY <1>2, <1>7, <2>2, <2>3
<1>10. \A k \in 1 .. Len(in_queue) : in_queue[k] = Text(Len(got) + k)'
  <2> SUFFICES ASSUME NEW k \in 1 .. Len(in_queue) PROVE in_queue[k] = Text(Len(got) + k)'
    OBVIOUS
  <2>1. PICK m : m = Len(got) + k
    OBVIOUS
  <2>2. m \in 1 .. Len(said)
    BY <1>2, <1>9, <2>1
  <2>3. Text(m)' = Text(m) /\ in_queue[k] = Text(m)
    BY <1>5, <1>8, <2>1, <2>2
  <2>4. in_queue[k] = Text(m)'
    BY <2>3
  <2>5. m \in Nat /\ Len(got) \in Nat /\ Len(got') = Len(got) /\ k \in Nat
    BY <1>1, <1>9, <2>1
  <2> QED BY <2>1, <2>4, <2>5 DEF Text
<1>11. \A k \in 1 .. Len(got) : got[k] = Text(k)'
  <2> SUFFICES ASSUME NEW k \in 1 .. Len(got) PROVE got[k] = Text(k)'
    OBVIOUS
  <2>1. k \in 1 .. Len(said)
    BY <1>2, <1>9
  <2> QED BY <1>5, <1>8, <2>1
<1>12. Place(Collected, t)'
  BY <1>1, <1>6, <1>8, <1>10 DEF Place, Collected
<1>13. t = taken'
  BY <1>1, <1>3
<1> QED BY <1>1, <1>2, <1>8, <1>11, <1>12, <1>13 DEF ReaderInv

(* Reading a block takes the client to the place behind it. *)
LEMMA ReadBlockKeeps ==
  ASSUME TypeOK, SenderInv, ReaderInv, NEW n \in Nat, ReadBlock(n)
  PROVE  ReaderInv'
<1>1. /\ n <= Arrived - taken /\ taken' = taken + n
      /\ in_buffer' = Reads(n)[n].buffer /\ in_queue' = Reads(n)[n].queue
      /\ UNCHANGED <<stream, said, got>>
  BY DEF ReadBlock, vars
<1>2. taken \in Nat /\ Len(stream) \in Nat /\ taken + n <= Len(stream)
  <2>1. /\ taken \in 0 .. Len(stream) /\ Len(stream) \in Nat
        /\ room \in 0 .. Room /\ Room \in Nat
    BY RoomAssumption, LenProperties DEF ReaderInv, TypeOK
  <2> QED BY <1>1, <2>1 DEF Arrived
<1>3. PICK r : r = Reads(n)[n]
  OBVIOUS
<1>4. PICK t : t = taken + n
  OBVIOUS
<1>5. Place(r, t)
  BY <1>2, <1>3, <1>4, BlockRead
<1>6. Collected' = r
  <2>1. r \in [buffer : Seq(Byte), queue : Seq(Seq(Byte))]
    BY <1>5 DEF Place
  <2>2. r = [buffer |-> r.buffer, queue |-> r.queue]
    BY <2>1
  <2> QED BY <1>1, <1>3, <2>2 DEF Collected
<1>7. Place(r, t)'
  BY <1>1, <1>5 DEF Place, Behind, Follows, Text, Bytes
<1>8. Place(Collected, taken)'
  BY <1>1, <1>4, <1>6, <1>7 DEF Place, Behind, Follows, Text, Bytes
<1>9. taken' \in 0 .. Len(stream')
  BY <1>1, <1>2
<1>10. got' \in Seq(Seq(Byte)) /\ \A k \in 1 .. Len(got') : got'[k] = Text(k)'
  BY <1>1 DEF ReaderInv, Text, Bytes
<1> QED BY <1>8, <1>9, <1>10 DEF ReaderInv

(* A line that is handed out goes from the front of the one queue to the end *)
(* of the other.                                                            *)
LEMMA ReceiveKeeps ==
  ASSUME ReaderInv, Receive
  PROVE  ReaderInv'
<1>1. /\ in_queue # <<>> /\ got' = Append(got, Head(in_queue)) /\ in_queue' = Tail(in_queue)
      /\ UNCHANGED <<stream, said, in_buffer, taken>>
  BY DEF Receive, vars
<1>2. PICK b : b = Behind(taken)
  OBVIOUS
<1>3. /\ Collected \in [buffer : Seq(Byte), queue : Seq(Seq(Byte))]
      /\ Len(got) + Len(in_queue) + 1 = b[1] /\ Len(in_buffer) + 1 = b[2]
      /\ \A j \in 1 .. Len(in_buffer) : in_buffer[j] = <<b[1], j>>
      /\ \A k \in 1 .. Len(in_queue) : in_queue[k] = Text(Len(got) + k)
      /\ got \in Seq(Seq(Byte)) /\ \A k \in 1 .. Len(got) : got[k] = Text(k)
  BY <1>2 DEF ReaderInv, Place, Collected
<1>4. in_queue \in Seq(Seq(Byte)) /\ in_buffer \in Seq(Byte)
  BY <1>3 DEF Collected
<1>5. /\ Head(in_queue) \in Seq(Byte) /\ Head(in_queue) = in_queue[1]
      /\ in_queue' \in Seq(Seq(Byte)) /\ Len(in_queue') = Len(in_queue) - 1
      /\ \A k \in 1 .. Len(in_queue') : in_queue'[k] = in_queue[k + 1]
  BY <1>1, <1>4, HeadTailProperties
<1>6. /\ got' \in Seq(Seq(Byte)) /\ Len(got') = Len(got) + 1
      /\ \A k \in 1 .. Len(got) : got'[k] = got[k]
      /\ got'[Len(got) + 1] = in_queue[1]
  BY <1>1, <1>3, <1>5, AppendProperties
<1>7. Len(got) \in Nat /\ Len(in_queue) \in Nat /\ Len(in_queue) > 0
  BY <1>1, <1>3, <1>4, LenProperties, EmptySeq
<1>8. \A k : Text(k)' = Text(k)
  BY <1>1 DEF Text, Bytes
<1>9. \A k \in 1 .. Len(got') : got'[k] = Text(k)'
  <2> SUFFICES ASSUME NEW k \in 1 .. Len(got') PROVE got'[k] = Text(k)
    BY <1>8
  <2>1. CASE k = Len(got) + 1
    <3>1. 1 \in 1 .. Len(in_queue)
      BY <1>7
    <3> QED BY <1>3, <1>6, <2>1, <3>1
  <2>2. CASE k # Len(got) + 1
    <3>1. k \in 1 .. Len(got)
      BY <1>6, <1>7, <2>2
    <3> QED BY <1>3, <1>6, <3>1
  <2> QED BY <2>1, <2>2
<1>10. \A k \in 1 .. Len(in_queue') : in_queue'[k] = Text(Len(got) + k)'
  <2> SUFFICES ASSUME NEW k \in 1 .. Len(in_queue')
               PROVE  in_queue'[k] = Text(Len(got) + k)'
    OBVIOUS
  <2>1. k + 1 \in 1 .. Len(in_queue) /\ Len(got') + k = Len(got) + (k + 1)
    BY <1>5, <1>6, <1>7
  <2>2. PICK m : m = Len(got) + (k + 1)
    OBVIOUS
  <2>3. in_queue'[k] = Text(m)
    BY <1>3, <1>5, <2>1, <2>2
  <2> QED BY <1>1, <1>6, <1>7, <2>1, <2>2, <2>3 DEF Text
<1>11. PICK t : t = taken
  OBVIOUS
<1>12. b = Behind(t)'
  BY <1>1, <1>2, <1>11 DEF Behind, Follows
<1>13. Len(got') + Len(in_queue') + 1 = b[1]
  BY <1>3, <1>5, <1>6, <1>7
<1>14. Place(Collected, t)'
  <2>1. /\ Collected' \in [buffer : Seq(Byte), queue : Seq(Seq(Byte))]
        /\ Collected'.buffer = in_buffer /\ Collected'.queue = in_queue'
    BY <1>1, <1>4, <1>5 DEF Collected
  <2> QED BY <1>3, <1>10, <1>12, <1>13, <2>1 DEF Place
<1> QED BY <1>1, <1>6, <1>9, <1>11, <1>14 DEF ReaderInv

(* Whatever either end does, the client stays at its place in the stream.   *)
LEMMA ReaderHolds == ConnSpec => []ReaderInv
<1>1. ConnInit => ReaderInv
  <2> SUFFICES ASSUME ConnInit PROVE ReaderInv
    OBVIOUS
  <2>1. stream = <<>> /\ in_buffer = <<>> /\ in_queue = <<>> /\ taken = 0 /\ got = <<>>
    BY DEF ConnInit, Init
  <2>2. /\ <<>> \in Seq(Byte) /\ <<>> \in Seq(Seq(Byte)) /\ Len(<<>>) = 0
    BY EmptySeq
  <2>3. Behind(0) = <<1, 1>>
    BY DEF Behind
  <2>4. Place(Collected, 0)
    BY <2>1, <2>2, <2>3 DEF Place, Collected
  <2> QED BY <2>1, <2>2, <2>4 DEF ReaderInv
<1>2. TypeOK /\ TypeOK' /\ SenderInv /\ SenderInv' /\ ReaderInv /\ [ConnNext]_connVars
        => ReaderInv'
  <2> SUFFICES ASSUME TypeOK, TypeOK', SenderInv, SenderInv', ReaderInv, [ConnNext]_connVars
               PROVE  ReaderInv'
    OBVIOUS
  <2>1. /\ said \in Seq(Size) /\ said' \in Seq(Size)
        /\ stream \in Seq(Byte) /\ stream' \in Seq(Byte)
        /\ Len(said) \in Nat /\ Len(said') \in Nat
        /\ Len(stream) \in Nat /\ Len(stream') \in Nat
    BY LenProperties DEF SenderInv, SaidOK, TypeOK, Byte
  <2>2. ASSUME NEW size \in Size, Say(size) PROVE ReaderInv'
    <3>1. said' = Append(said, size) /\ UNCHANGED <<reader, stream>>
      BY <2>2 DEF Say, Enqueue
    <3>2. Len(said') = Len(said) + 1 /\ \A k \in 1 .. Len(said) : said'[k] = said[k]
      BY <2>1, <3>1, AppendProperties
    <3> QED BY <2>1, <3>1, <3>2, ReaderKept DEF reader
  <2>3. ASSUME NEW delta \in 1 .. Room, SendSome(delta), UNCHANGED <<said, reader>>
        PROVE  ReaderInv'
    <3>1. stream' = stream \o Taken(delta)
      BY <2>3 DEF SendSome, Taken
    <3>2. Taken(delta) \in Seq(Byte) /\ Len(Taken(delta)) \in Nat
      BY <2>3, TakenType, LenProperties
    <3>3. /\ Len(stream') = Len(stream) + Len(Taken(delta))
          /\ \A k \in 1 .. Len(stream) + Len(Taken(delta)) :
               stream'[k] = IF k <= Len(stream) THEN stream[k]
                            ELSE Taken(delta)[k - Len(stream)]
      BY <2>1, <3>1, <3>2, ConcatProperties
    <3>4. \A k \in 1 .. Len(stream) : stream'[k] = stream[k]
      BY <2>1, <3>2, <3>3
    <3> QED BY <2>1, <2>3, <3>2, <3>3, <3>4, ReaderKept DEF reader
  <2>4. CASE UNCHANGED <<stream, said, in_buffer, in_queue, taken, got>>
    BY <2>1, <2>4, ReaderKept
  <2>5. ASSUME NEW n \in 1 .. BufSize, ReadBlock(n) PROVE ReaderInv'
    <3>1. n \in Nat
      BY BufSizeAssumption
    <3> QED BY <2>5, <3>1, ReadBlockKeeps
  <2>6. CASE ReadEnds
    BY <2>4, <2>6 DEF ReadEnds, vars
  <2>7. CASE Receive
    BY <2>7, ReceiveKeeps
  <2>8. Server => ReaderInv'
    <3> SUFFICES ASSUME Server PROVE ReaderInv'
      OBVIOUS
    <3>1. CASE \E delta \in 1 .. Room : SendSome(delta)
      BY <2>3, <3>1 DEF Server
    <3>2. CASE Resume \/ SendFails \/ Advance \/ AllSent \/ Delete
      <4>1. UNCHANGED <<stream, said, in_buffer, in_queue, taken, got>>
        BY <3>2 DEF reader, Server, Resume, SendFails, Advance, AllSent, Delete
      <4> QED BY <2>4, <4>1
    <3> QED BY <3>1, <3>2 DEF Server, TrySend
  <2>9. Network \/ UNCHANGED connVars => ReaderInv'
    BY <2>4 DEF Network, Drain, Break, connVars, reader, vars
  <2> QED BY <2>2, <2>5, <2>6, <2>7, <2>8, <2>9 DEF ConnNext, Read
<1> QED BY <1>1, <1>2, ServerIsQueue, TypeCorrect, SenderHolds, PTL DEF ConnSpec

(* The client is handed the messages whole, in order and once each, however *)
(* the server's writes and the client's reads cut the stream.               *)
THEOREM LinesAlwaysArrive == ConnSpec => []LinesArrive
<1>1. TypeOK /\ SenderInv /\ ReaderInv => LinesArrive
  <2> SUFFICES ASSUME TypeOK, SenderInv, ReaderInv PROVE LinesArrive
    OBVIOUS
  <2>1. PICK b : b = Behind(taken)
    OBVIOUS
  <2>2. /\ Collected \in [buffer : Seq(Byte), queue : Seq(Seq(Byte))]
        /\ Len(got) + Len(in_queue) + 1 = b[1] /\ Len(in_buffer) + 1 = b[2]
        /\ \A j \in 1 .. Len(in_buffer) : in_buffer[j] = <<b[1], j>>
        /\ \A k \in 1 .. Len(in_queue) : in_queue[k] = Text(Len(got) + k)
        /\ got \in Seq(Seq(Byte)) /\ \A k \in 1 .. Len(got) : got[k] = Text(k)
    BY <2>1 DEF ReaderInv, Place, Collected
  <2>3. in_queue \in Seq(Seq(Byte)) /\ in_buffer \in Seq(Byte)
    BY <2>2 DEF Collected
  <2>4. Len(got) \in Nat /\ Len(in_queue) \in Nat /\ Len(in_buffer) \in Nat /\ Len(said) \in Nat
    BY <2>2, <2>3, SaidType, LenProperties DEF SenderInv
  <2>5. /\ b[1] \in 1 .. Len(said) + 1 /\ b[2] \in Nat
        /\ b[2] # 1 => Said(b)
    BY <2>1, BehindIs DEF ReaderInv
  <2> DEFINE lines == got \o in_queue
             next == Len(lines) + 1
  <2>6. /\ lines \in Seq(Seq(Byte)) /\ Len(lines) = Len(got) + Len(in_queue)
        /\ \A k \in 1 .. Len(got) + Len(in_queue) :
             lines[k] = IF k <= Len(got) THEN got[k] ELSE in_queue[k - Len(got)]
    BY <2>2, <2>3, ConcatProperties
  <2>7. DOMAIN lines = 1 .. Len(lines)
    BY <2>6, LenProperties
  <2> HIDE DEF lines
  <2>8. next = b[1] /\ Len(lines) <= Len(said)
    BY <2>2, <2>4, <2>5, <2>6
  <2>9. ASSUME NEW k \in DOMAIN lines PROVE lines[k] = Text(k)
    <3>1. k \in 1 .. Len(got) + Len(in_queue)
      BY <2>6, <2>7
    <3>2. CASE k <= Len(got)
      <4>1. k \in 1 .. Len(got)
        BY <2>4, <3>1, <3>2
      <4> QED BY <2>2, <2>6, <3>1, <3>2, <4>1
    <3>3. CASE ~(k <= Len(got))
      <4>1. k - Len(got) \in 1 .. Len(in_queue) /\ Len(got) + (k - Len(got)) = k
        BY <2>4, <3>1, <3>3
      <4> QED BY <2>2, <2>6, <3>1, <3>3, <4>1
    <3> QED BY <3>2, <3>3
  <2>10. ASSUME in_buffer # <<>> PROVE next <= Len(said) /\ IsPrefix(in_buffer, Text(next))
    <3>1. Len(in_buffer) > 0
      BY <2>3, <2>10, EmptySeq
    <3>2. Said(b)
      BY <2>2, <2>4, <2>5, <3>1
    <3>3. PICK m : m = b[1]
      OBVIOUS
    <3>4. m \in 1 .. Len(said) /\ b[2] \in 1 .. said[m] /\ said[m] \in Nat /\ SaidOK
      BY <3>2, <3>3, SaidType DEF Said, SenderInv
    <3>5. /\ Text(m) \in Seq(Byte) /\ Len(Text(m)) = said[m] - 1
          /\ \A j \in 1 .. said[m] - 1 : Text(m)[j] = <<m, j>>
      BY <3>4, TextIs
    <3>6. PICK w : w = Text(m)
      OBVIOUS
    <3>7. PICK n : n = Len(in_buffer)
      OBVIOUS
    <3>8. n \in Nat /\ n <= Len(w) /\ Len(w) \in Nat
      BY <2>2, <2>4, <3>4, <3>5, <3>6, <3>7
    <3>9. \A j \in 1 .. n : in_buffer[j] = w[j]
      <4>1. \A j \in 1 .. n : in_buffer[j] = <<m, j>>
        BY <2>2, <3>3, <3>7
      <4>2. Len(w) = said[m] - 1 /\ \A j \in 1 .. Len(w) : w[j] = <<m, j>>
        BY <3>5, <3>6
      <4> QED BY <3>8, <4>1, <4>2
    <3>10. \A j \in 1 .. n : w[j] \in Byte /\ in_buffer[j] \in Byte
      BY <2>3, <3>5, <3>6, <3>7, <3>8, ElementOfSeq
    <3>11. /\ SubSeq(in_buffer, 1, n) \in Seq(Byte) /\ SubSeq(w, 1, n) \in Seq(Byte)
           /\ Len(SubSeq(in_buffer, 1, n)) = n /\ Len(SubSeq(w, 1, n)) = n
           /\ \A j \in 1 .. n : /\ SubSeq(in_buffer, 1, n)[j] = in_buffer[j]
                                /\ SubSeq(w, 1, n)[j] = w[j]
      <4>1. /\ SubSeq(in_buffer, 1, n) \in Seq(Byte)
            /\ Len(SubSeq(in_buffer, 1, n)) = IF 1 <= n THEN n - 1 + 1 ELSE 0
            /\ \A j \in 1 .. n - 1 + 1 : SubSeq(in_buffer, 1, n)[j] = in_buffer[1 + j - 1]
        BY <3>8, <3>10, SubSeqProperties
      <4>2. /\ SubSeq(w, 1, n) \in Seq(Byte)
            /\ Len(SubSeq(w, 1, n)) = IF 1 <= n THEN n - 1 + 1 ELSE 0
            /\ \A j \in 1 .. n - 1 + 1 : SubSeq(w, 1, n)[j] = w[1 + j - 1]
        BY <3>8, <3>10, SubSeqProperties
      <4>3. (1 <= n => n - 1 + 1 = n) /\ (~(1 <= n) => n = 0) /\ n - 1 + 1 = n
        BY <3>8
      <4>4. \A j \in 1 .. n : 1 + j - 1 = j
        BY <3>8
      <4> QED BY <4>1, <4>2, <4>3, <4>4
    <3>12. \A j \in 1 .. n : SubSeq(in_buffer, 1, n)[j] = SubSeq(w, 1, n)[j]
      BY <3>9, <3>11
    <3>13. SubSeq(in_buffer, 1, n) = SubSeq(w, 1, n)
      <4>1. PICK u, v : u = SubSeq(in_buffer, 1, n) /\ v = SubSeq(w, 1, n)
        OBVIOUS
      <4>2. /\ u \in Seq(Byte) /\ v \in Seq(Byte) /\ Len(u) = n /\ Len(v) = n
            /\ \A j \in 1 .. n : u[j] = v[j]
        BY <3>11, <3>12, <4>1
      <4>3. u = v
        BY <4>2, SeqEqual
      <4> QED BY <4>1, <4>3
    <3>14. IsPrefix(in_buffer, w)
      BY <3>7, <3>8, <3>13 DEF IsPrefix
    <3> QED BY <2>8, <3>3, <3>4, <3>6, <3>14
  <2>11. /\ Len(lines) <= Len(said)
         /\ \A k \in DOMAIN lines : lines[k] = Text(k)
         /\ in_buffer # <<>> => next <= Len(said) /\ IsPrefix(in_buffer, Text(next))
    BY <2>8, <2>9, <2>10
  <2> QED BY <2>11 DEF LinesArrive, lines
<1> QED BY <1>1, ServerIsQueue, TypeCorrect, SenderHolds, ReaderHolds, PTL
=============================================================================
