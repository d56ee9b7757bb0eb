------------------------- MODULE SocketMessageQueue -------------------------
(***************************************************************************)
(* core/smq.c: the queue of messages to one client, with the socket it     *)
(* writes to and the two places in core/socket_loop.c that call it.        *)
(*                                                                         *)
(* A message is its number and its size, the newline included; its bytes   *)
(* are told apart by the message's number and their place.  The kernel     *)
(* takes as many bytes at a time as it likes, as long as it has room; the  *)
(* peer makes room by reading, or breaks the connection.                   *)
(***************************************************************************)
EXTENDS Naturals, Sequences, SequencesExt

CONSTANTS
  Size,          \* sizes of messages: strlen + 1
  Room,          \* capacity of the socket's send buffer
  MaxMessages,   \* bound on the messages enqueued
  NULL           \* no current message

ASSUME SizeAssumption  == Size \subseteq Nat \ {0}
ASSUME RoomAssumption  == Room \in Nat \ {0}
ASSUME BoundAssumption == MaxMessages \in Nat

VARIABLES
  \* SocketMessageQueue
  current_pos,
  current,
  queued,
  \* the running call
  pc,         \* "idle"; "try": in smq_try_send; "gone": deleted
  \* outside
  enqueued,   \* how many messages there have been
  room,       \* free space in the socket's send buffer
  broken,     \* the peer has reset the connection
  stream      \* the bytes the kernel has taken

smq  == <<current_pos, current, queued>>
vars == <<smq, pc, enqueued, room, broken, stream>>

Message == [id : 1 .. MaxMessages, size : Size]

ASSUME NullAssumption == NULL \notin Message

(* message_new *)
Bytes(m) == [i \in 1 .. m.size |-> <<m.id, i>>]

(* What is in the queue and has not been handed to the kernel *)
Rest ==
  IF current = NULL THEN <<>> ELSE SubSeq(Bytes(current), current_pos + 1, current.size)

Unsent == Rest \o FlattenSeq([i \in DOMAIN queued |-> Bytes(queued[i])])

-----------------------------------------------------------------------------
(* Definitions that begin with "Slip" are plausible slips in the code, kept *)
(* beside the definitions they would change.                                *)

SlipEmpty == queued = <<>>   \* a message under way is forgotten

(* smq_is_empty *)
IsEmpty == current = NULL /\ queued = <<>>

(* smq_new: calloc *)
Init ==
  /\ current_pos = 0 /\ current = NULL /\ queued = <<>>
  /\ pc = "idle"
  /\ enqueued = 0 /\ room = Room /\ broken = FALSE /\ stream = <<>>

(* socketloop_send: smq_enqueue, and smq_try_send whatever was left before *)
Enqueue(size) ==
  /\ pc = "idle" /\ enqueued < MaxMessages
  /\ enqueued' = enqueued + 1
  /\ queued' = Append(queued, [id |-> enqueued', size |-> size])
  /\ pc' = "try"
  /\ UNCHANGED <<current_pos, current, room, broken, stream>>

SlipResume ==   \* only messages not begun are waited for
  /\ pc = "idle" /\ queued # <<>>
  /\ room > 0 \/ broken
  /\ pc' = "try"
  /\ UNCHANGED <<smq, enqueued, room, broken, stream>>

(* fill_fd_set asks for a socket with something to send; select() finds it  *)
(* writable, and check_events calls smq_try_send.                           *)
Resume ==
  /\ pc = "idle" /\ ~IsEmpty
  /\ room > 0 \/ broken
  /\ pc' = "try"
  /\ UNCHANGED <<smq, enqueued, room, broken, stream>>

-----------------------------------------------------------------------------
(* smq_try_send *)

UnderWay == current # NULL /\ current_pos < current.size

(* send() takes some of what is left of the current message. *)
SendSome(delta) ==
  /\ pc = "try" /\ UnderWay
  /\ ~broken /\ delta <= room /\ delta <= current.size - current_pos
  /\ stream' = stream \o SubSeq(Bytes(current), current_pos + 1, current_pos + delta)
  /\ current_pos' = current_pos + delta
  /\ room' = room - delta
  /\ UNCHANGED <<current, queued, pc, enqueued, broken>>

(* send() returns -1: no room (EAGAIN), or an error that is only logged. *)
SendFails ==
  /\ pc = "try" /\ UnderWay
  /\ room = 0 \/ broken
  /\ pc' = "idle"
  /\ UNCHANGED <<smq, enqueued, room, broken, stream>>

SlipPosKept ==   \* current_pos is not reset
  /\ pc = "try" /\ ~UnderWay /\ ~IsEmpty
  /\ IF queued # <<>>
       THEN /\ current' = Head(queued) /\ queued' = Tail(queued)
            /\ UNCHANGED current_pos
       ELSE current' = NULL /\ UNCHANGED <<current_pos, queued>>
  /\ UNCHANGED <<pc, enqueued, room, broken, stream>>

(* The current message is disposed of, and the next one is taken. *)
Advance ==
  /\ pc = "try" /\ ~UnderWay /\ ~IsEmpty
  /\ IF queued # <<>>
       THEN /\ current' = Head(queued) /\ queued' = Tail(queued)
            /\ current_pos' = 0
       ELSE current' = NULL /\ UNCHANGED <<current_pos, queued>>
  /\ UNCHANGED <<pc, enqueued, room, broken, stream>>

AllSent ==
  /\ pc = "try" /\ IsEmpty
  /\ pc' = "idle"
  /\ UNCHANGED <<smq, enqueued, room, broken, stream>>

(* smq_delete, with the client *)
Delete ==
  /\ pc = "idle"
  /\ pc' = "gone"
  /\ current' = NULL /\ queued' = <<>>
  /\ UNCHANGED <<current_pos, enqueued, room, broken, stream>>

-----------------------------------------------------------------------------
(* The other end *)

Drain ==
  /\ room < Room
  /\ \E free \in room + 1 .. Room : room' = free
  /\ UNCHANGED <<smq, pc, enqueued, broken, stream>>

Break ==
  /\ ~broken
  /\ broken' = TRUE
  /\ UNCHANGED <<smq, pc, enqueued, room, stream>>

-----------------------------------------------------------------------------
(* Specification *)

TrySend ==
  \/ \E delta \in 1 .. Room : SendSome(delta)
  \/ SendFails
  \/ Advance
  \/ AllSent

Next ==
  \/ \E size \in Size : Enqueue(size)
  \/ Resume
  \/ TrySend
  \/ Delete
  \/ Drain
  \/ Break

Spec == Init /\ [][Next]_vars

(* The thread runs on; select() reports a writable socket some day; a peer  *)
(* that has not gone reads.                                                 *)
FairSpec == Spec /\ WF_vars(TrySend) /\ WF_vars(Resume) /\ WF_vars(Drain)

-----------------------------------------------------------------------------
(* Every variable keeps its type, and the position stays in its message. *)
TypeOK ==
  /\ current_pos \in Nat
  /\ current \in Message \cup {NULL}
  /\ current # NULL => current_pos <= current.size
  /\ queued \in Seq(Message)
  /\ pc \in {"idle", "try", "gone"}
  /\ enqueued \in 0 .. MaxMessages
  /\ room \in 0 .. Room /\ broken \in BOOLEAN
  /\ stream \in Seq((1 .. MaxMessages) \X Nat)

(* Between two calls the queue says "empty" exactly when nothing is left to *)
(* send.  client_is_dead lets a client go on the one answer, fill_fd_set    *)
(* waits for its socket on the other; a message sent to its last byte when  *)
(* the kernel's room ran out must not count, one with a byte left must.     *)
EmptyIsSent == pc = "idle" => (IsEmpty <=> Unsent = <<>>)

(* The queue is a pipe of bytes: nothing is lost, repeated or reordered     *)
(* across short writes, full sockets, errors and later calls, up to the end *)
(* of the connection.                                                       *)
Pipe == INSTANCE BytePipe
          WITH out <- stream, todo <- Unsent, open <- (pc # "gone")

PipeRefined == Pipe!Spec

(* Under FairSpec: what was enqueued is sent, unless the peer breaks the    *)
(* connection or the client is deleted first.                               *)
Flushed == ~IsEmpty ~> IsEmpty \/ broken
=============================================================================
