----------------------------- MODULE Connection -----------------------------
(***************************************************************************)
(* client/Connection.cpp: the client's end of the connection that core/    *)
(* smq.c writes to.  The client reads blocks of bytes, cuts them at the    *)
(* newlines and hands out a line at a time.                                *)
(*                                                                         *)
(* What the kernel has taken on the server's side and no longer holds      *)
(* there has arrived at the client, where the next read() finds it.        *)
(***************************************************************************)
EXTENDS SocketMessageQueue

CONSTANT BufSize    \* BUF_SIZE: the most bytes of one read()

ASSUME BufSizeAssumption == BufSize \in Nat \ {0}

VARIABLES
  said,        \* sizes of the messages that the server has enqueued
  \* Connection
  in_buffer,
  in_queue,
  \* outside
  taken,       \* how many bytes read() has returned
  got,         \* the lines that operator>> has returned
  ended        \* operator>> has thrown SocketException

reader   == <<in_buffer, in_queue, taken, got, ended>>
connVars == <<vars, said, reader>>

Text(k) == SubSeq(Bytes([id |-> k, size |-> said[k]]), 1, said[k] - 1)

Arrived == Len(stream) - (Room - room)

IsNewline(byte) == byte[2] = said[byte[1]]

-----------------------------------------------------------------------------
(* readMoreData *)

Collected == [buffer |-> in_buffer, queue |-> in_queue]

SlipReadByte(r, byte) ==   \* the buffer is not cleared
  IF IsNewline(byte)
    THEN [r EXCEPT !.queue = Append(@, r.buffer)]
    ELSE [r EXCEPT !.buffer = Append(@, byte)]

ReadByte(r, byte) ==
  IF IsNewline(byte)
    THEN [buffer |-> <<>>, queue |-> Append(r.queue, r.buffer)]
    ELSE [r EXCEPT !.buffer = Append(@, byte)]

(* The loop over the bytes of a block: what is collected after each of them *)
Reads(nread) ==
  LET r[k \in 0 .. nread] ==
        IF k = 0 THEN Collected ELSE ReadByte(r[k - 1], stream[taken + k])
  IN  r

ReadBlock(nread) ==
  /\ ~ended /\ in_queue = <<>>
  /\ nread <= Arrived - taken
  /\ LET r == Reads(nread)[nread]
     IN  in_buffer' = r.buffer /\ in_queue' = r.queue
  /\ taken' = taken + nread
  /\ UNCHANGED <<vars, said, got, ended>>

(* read() returns 0 behind the last byte of a server that has closed, or -1 *)
(* when the connection is broken.                                           *)
ReadEnds ==
  /\ ~ended /\ in_queue = <<>>
  /\ broken \/ (pc = "gone" /\ taken = Len(stream))
  /\ ended' = TRUE
  /\ UNCHANGED <<vars, said, in_buffer, in_queue, taken, got>>

SlipOneLine ==   \* the other lines of a block are thrown away
  /\ in_queue # <<>>
  /\ got' = Append(got, Head(in_queue))
  /\ in_queue' = <<>>
  /\ UNCHANGED <<vars, said, in_buffer, taken, ended>>

(* operator>> *)
Receive ==
  /\ in_queue # <<>>
  /\ got' = Append(got, Head(in_queue))
  /\ in_queue' = Tail(in_queue)
  /\ UNCHANGED <<vars, said, in_buffer, taken, ended>>

-----------------------------------------------------------------------------
(* Specification: the server's end takes its steps, the client's end its. *)

ConnInit ==
  /\ Init
  /\ said = <<>>
  /\ in_buffer = <<>> /\ in_queue = <<>> /\ taken = 0 /\ got = <<>> /\ ended = FALSE

Say(size) ==
  /\ Enqueue(size)
  /\ said' = Append(said, size)
  /\ UNCHANGED reader

Server == (Resume \/ TrySend \/ Delete) /\ UNCHANGED <<said, reader>>

Network == (Drain \/ Break) /\ UNCHANGED <<said, reader>>

Read == \E nread \in 1 .. BufSize : ReadBlock(nread)

ConnNext ==
  \/ \E size \in Size : Say(size)
  \/ Server
  \/ Network
  \/ Read
  \/ ReadEnds
  \/ Receive

ConnSpec == ConnInit /\ [][ConnNext]_connVars

(* As in FairSpec; and the client comes back for the next line, as both of  *)
(* its loops in Session.cpp do.                                             *)
ConnFairSpec ==
  /\ ConnSpec
  /\ WF_connVars(TrySend /\ UNCHANGED <<said, reader>>)
  /\ WF_connVars(Resume /\ UNCHANGED <<said, reader>>)
  /\ WF_connVars(Drain /\ UNCHANGED <<said, reader>>)
  /\ WF_connVars(Read)
  /\ WF_connVars(Receive)

-----------------------------------------------------------------------------
(* The client is handed the server's messages whole, in order and once each *)
(* however the writes and the reads cut the stream, and holds back at most  *)
(* the beginning of the next one.                                           *)
LinesArrive ==
  LET lines == got \o in_queue
      next  == Len(lines) + 1
  IN  /\ Len(lines) <= Len(said)
      /\ \A k \in DOMAIN lines : lines[k] = Text(k)
      /\ in_buffer # <<>> => next <= Len(said) /\ IsPrefix(in_buffer, Text(next))

(* Under ConnFairSpec: a message that has left the server to its last byte  *)
(* reaches the client, even if the server deletes the client's connection   *)
(* right then; only a broken connection may lose it.                        *)
Heard ==
  \A k \in 1 .. MaxMessages :
    (k <= Len(said) /\ Contains(stream, <<k, said[k]>>)) ~> (Len(got) >= k \/ broken)
=============================================================================
