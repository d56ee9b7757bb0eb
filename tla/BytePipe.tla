------------------------------ MODULE BytePipe ------------------------------
(***************************************************************************)
(* What the users of a send queue rely on: what is put in comes out, byte  *)
(* for byte and in order, in portions of any size, until the pipe is       *)
(* closed; what is lost then is the end of the stream.                     *)
(* SocketMessageQueue implements this specification.                       *)
(***************************************************************************)
EXTENDS Naturals, Sequences, SequencesExt

VARIABLES
  out,    \* the bytes that have come out
  todo,   \* the bytes put in that have not
  open

vars == <<out, todo, open>>

Init == out = <<>> /\ todo = <<>> /\ open = TRUE

(* A message of any size and contents *)
Put ==
  /\ open
  /\ IsStrictPrefix(todo, todo')
  /\ UNCHANGED <<out, open>>

Deliver(k) ==
  /\ open
  /\ k \in 1 .. Len(todo)
  /\ out' = out \o SubSeq(todo, 1, k)
  /\ todo' = SubSeq(todo, k + 1, Len(todo))
  /\ UNCHANGED open

Close ==
  /\ open
  /\ open' = FALSE
  /\ todo' = <<>>
  /\ UNCHANGED out

Next ==
  \/ Put
  \/ \E k \in 1 .. Len(todo) : Deliver(k)
  \/ Close

Spec == Init /\ [][Next]_vars
=============================================================================
