--------------------------- MODULE Session_proofs ---------------------------
(***************************************************************************)
(* Proofs about Session, for every number of players and of rounds: what a *)
(* client's program expects at each place is what the server has sent, is  *)
(* about to send, or may still send.                                       *)
(***************************************************************************)
EXTENDS Session, ServerFSM_proofs, Iteration, SequenceTheorems

USE DEF ServerState, ClientState

-----------------------------------------------------------------------------
(* Lines *)

Told(s) == <<"$", s>>

(* Of the market, of finances, and of bankrupts that have one of the names *)
DataLine(names) ==
  {<<"+", "market", n>> : n \in Nat} \cup {<<"+", "finance", n>> : n \in Nat}
    \cup {<<"+", "bankrupt", B>> : B \in SUBSET names}

StateName  == {"auth", "super", "lobby", "lobby_ready", "game_active", "game"}
ServerLine == {Told(s) : s \in StateName} \cup DataLine(Name)
AnswerLine == {Ack(names) : names \in SUBSET Name} \cup {Fail}
AnyLine    == ServerLine \cup AnswerLine

(* A GameInfo, and what a process knows *)
InfoType ==
  {i \in [market: Nat \cup {NoRound}, transactions: Seq(Nat),
          known: SUBSET Name, dead: SUBSET Name] : i.dead \subseteq i.known}

MemoryType ==
  [number: Nat \ {0}, m_eventQueue: Seq(ServerLine), m_gameInfo: InfoType,
   constants: SUBSET Name]

(* k is what is known when the first n lines of v, data all of them, are    *)
(* consumed                                                                 *)
Learns(info, v, n, k) ==
  \E L \in [0 .. n -> InfoType] :
    /\ L[0] = info /\ L[n] = k
    /\ \A i \in 1 .. n : v[i] \in DataLine(info.known) /\ L[i] = Consume(L[i - 1], v[i])

-----------------------------------------------------------------------------
(* What the server's state is for a client's program *)

Settled(q) == ended[q] # "no" \/ cstate[q] \notin Unnamed

(* Somebody has crashed: only then can a game lose a player in a turn. *)
Lost == \E q \in Player : ended[q] = "crash"

(* In the place of a list that is still to come: it may have any names. *)
Everybody == Name \cup {NoName}

Sight(p) ==
  [c |-> cstate[p],
   round |-> round_counter,
   phase |-> IF state = "ROUND" /\ pc = "event" THEN "round" ELSE "between",
   playing |-> {name[q] : q \in Players},
   gone |-> deserters,
   lost |-> Lost,
   taken |-> {memory[q].number : q \in {r \in Player : Settled(r)}}]

(* The round that was closed last *)
LastRound(g) == IF g.round = 0 THEN <<>> ELSE <<g.round - 1>>

(* The names are those of the players, and of some that have hung up. *)
NamesRight(g, k, consts) ==
  /\ k.known \subseteq consts
  /\ IF k.known = {}
       THEN /\ g.playing \subseteq consts
            /\ consts # Everybody => consts \subseteq g.playing \cup g.gone
       ELSE /\ g.playing \subseteq k.known \ k.dead
            /\ k.known \ k.dead \subseteq g.playing \cup g.gone
            /\ consts \subseteq k.known \cup g.gone

(* The game has told all: a player waits, and knows of all that has happened. *)
Tells(g, k, consts) ==
  /\ g.c = "IN_GAME_WAIT"
  /\ k.transactions = IF g.phase = "round" THEN <<>> ELSE LastRound(g)
  /\ NamesRight(g, k, consts)
  /\ k.known = {} => g.phase = "between"

(* What a player knows when its turn is on *)
TurnInfo(g, k, consts) ==
  /\ g.c = "IN_GAME"
  /\ k.market = g.round
  /\ k.transactions = LastRound(g)
  /\ NamesRight(g, k, consts)

(* In a turn: nothing is told any more, or that the game is over *)
InTurn(g, k, consts, t) ==
  \/ t = <<>> /\ TurnInfo(g, k, consts)
  \/ t = <<Told("lobby")>> /\ g.c = "IN_LOBBY" /\ g.lost

(* In the loop of playGame: data, then the turn, the end of the game or both *)
Coming(g, info, consts, v) ==
  \E n \in 0 .. Len(v), k \in InfoType :
    /\ Learns(info, v, n, k)
    /\ \/ n = Len(v) /\ Tells(g, k, consts)
       \/ n + 1 = Len(v) /\ v[n + 1] = Told("game_active") /\ TurnInfo(g, k, consts)
       \/ n + 1 = Len(v) /\ v[n + 1] = Told("lobby") /\ g.c = "IN_LOBBY"
       \/ /\ n + 2 = Len(v) /\ g.c = "IN_LOBBY" /\ g.lost
          /\ v[n + 1] = Told("game_active") /\ v[n + 2] = Told("lobby")

(* Ready in the lobby: nothing is told, or that a game has begun *)
SignedUp(g, u) ==
  \/ u = <<>> /\ g.c = "IN_LOBBY_ACK"
  \/ u # <<>> /\ Head(u) = Told("game") /\ Coming(g, NewInfo, Everybody, Tail(u))

(* At the place x, t is to be read: queued already, or on its way. *)
Story(g, x, info, consts, t) ==
  \/ x = "auth" /\ g.c = "CONNECTED" /\ t = <<Told("auth")>>
  \/ x = "login" /\ g.c = "CONNECTED" /\ t = <<>>
  \/ x = "lobby" /\ g.c = "IN_LOBBY" /\ t = <<Told("lobby")>>
  \/ x = "signup" /\ g.c = "IN_LOBBY" /\ t = <<>>
  \/ x = "lobby_ready" /\ t # <<>> /\ Head(t) = Told("lobby_ready") /\ SignedUp(g, Tail(t))
  \/ x = "game" /\ SignedUp(g, t)
  \/ x = "list" /\ Coming(g, NewInfo, Everybody, t)
  \/ x = "game_active" /\ Coming(g, info, consts, t)
  \/ x = "look" /\ InTurn(g, info, consts, t)
  \/ x \in OnTurn /\ InTurn(g, info, consts, t) /\ (g.c = "IN_GAME" => info.known # {})
  \/ x = "game_again" /\ t # <<>> /\ Head(t) = Told("lobby") /\ g.lost
  \/ /\ x = "game_again" /\ t # <<>> /\ Head(t) = Told("game")
     /\ Coming(g, info, consts, Tail(t))

(* At the place x, the answer a is to be read, and t without it. *)
Answer(g, x, num, info, consts, a, t) ==
  \/ x = "login" /\ a[1] = "ack" /\ Story(g, "lobby", info, consts, t)
  \/ x = "login" /\ a = Fail /\ num \in g.taken /\ Story(g, "login", info, consts, t)
  \/ x = "signup" /\ a[1] = "ack" /\ Story(g, "lobby_ready", info, consts, t)
  \/ x = "list" /\ a[1] = "ack" /\ Story(g, "game_active", NewInfo, a[2], t)
  \/ x = "look" /\ a[1] = "ack" /\ Story(g, "turn", UpdatePlayerList(info, a[2]), consts, t)
  \/ x = "turn" /\ Story(g, "end", info, consts, t)
  \/ /\ x = "end" /\ a[1] = "ack"
     /\ Story(g, "game_again", [info EXCEPT !.transactions = <<>>], consts, t)

(* A sequence without its i-th line *)
Without(s, i) == [j \in 1 .. Len(s) - 1 |-> IF j < i THEN s[j] ELSE s[j + 1]]

(* A program whose command has not been served, or that waits for a state *)
Unanswered(p) ==
  /\ pending[p] = IF place[p] \in DOMAIN Issued THEN Issued[place[p]] ELSE "none"
  /\ inbox[p] \in Seq(ServerLine)
  /\ Story(Sight(p), place[p], Info(p), memory[p].constants,
           memory[p].m_eventQueue \o inbox[p])

(* A program whose answer is on its way, somewhere between other lines *)
Answered(p) ==
  /\ pending[p] = "none"
  /\ \E i \in 1 .. Len(inbox[p]) :
       /\ inbox[p][i] \in AnswerLine
       /\ Without(inbox[p], i) \in Seq(ServerLine)
       /\ Answer(Sight(p), place[p], memory[p].number, Info(p), memory[p].constants,
                 inbox[p][i], memory[p].m_eventQueue \o Without(inbox[p], i))

(* A process has come to its end out of the game, and asks for nothing. *)
Aside(p) ==
  /\ ended[p] \in {"over", "not listed"}
  /\ cstate[p] \in {"NONE", "IN_LOBBY"} /\ pending[p] = "none"

(* A client: its program, what it owns of the names, and how it has ended *)
PlayerInv(p) ==
  /\ Running(p) => ended[p] = "no" /\ (Unanswered(p) \/ Answered(p))
  /\ ~Running(p) /\ ended[p] = "no" =>
       /\ cstate[p] = "NONE" /\ inbox[p] = <<>> /\ pending[p] = "none"
       /\ memory[p] = NewMemory
  /\ name[p] # NoName => name[p] = memory[p].number
  /\ 1 .. memory[p].number - 1 \subseteq Sight(p).taken
  /\ ended[p] # "no" => Lost \/ Aside(p)

(* The supervisor never plays. *)
SupervisorInv ==
  /\ cstate[Supervisor] \in {"NONE", "CONNECTED", "SUPERVISOR"}
  /\ name[Supervisor] \in {NoName, 0}

(* After the last of MaxRounds rounds the game is over. *)
RoundInv ==
  /\ round_counter \in 0 .. MaxRounds
  /\ \/ round_counter < MaxRounds
     \/ pc = "exited" /\ next_state = "LOBBY"
     \/ pc = "event" /\ state = "LOBBY"

(* The types of what a client has *)
ProgramType ==
  /\ inbox \in [Player -> Seq(AnyLine)]
  /\ pending \in [Player -> {"none", "auth", "ready", "lsgame", BotCommand}]
  /\ place \in [Player -> DOMAIN After \cup {"off"}]
  /\ ended \in [Player -> {"no", "crash", "over", "not listed", "overrun"}]
  /\ memory \in [Player -> MemoryType]

(* All that a session adds to the server *)
SessionInv ==
  /\ SupervisorInv /\ RoundInv /\ ProgramType
  /\ \A p \in Player : PlayerInv(p)
  /\ deserters # {} => Lost
-----------------------------------------------------------------------------
(* Lines, and what is learnt from them *)

(* Names are natural numbers, and the values for "none" are not. *)
LEMMA NamesAreNumbers ==
  /\ Cardinality(Client) \in Nat
  /\ Name \subseteq Nat /\ NoRound \notin Nat /\ NoName \notin Name
BY ClientAssumption, FS_CardinalityType, NameAssumption, NameAssumption2, RoundsAssumption

(* A new GameInfo is one, and knows nobody. *)
LEMMA NewInfoType == NewInfo \in InfoType /\ NewInfo.known = {}
BY EmptySeq DEF NewInfo, InfoType

(* A line of data leaves the names alone, and knows of no bankrupts without. *)
LEMMA ConsumeType ==
  ASSUME NEW info \in InfoType, NEW l \in DataLine(info.known)
  PROVE  Consume(info, l) \in InfoType /\ Consume(info, l).known = info.known
<1> DEFINE R == [market: Nat \cup {NoRound}, transactions: Seq(Nat),
                 known: SUBSET Name, dead: SUBSET Name]
<1>1. info \in R /\ info.dead \subseteq info.known
  BY DEF InfoType
<1>2. CASE \E n \in Nat : l = <<"+", "market", n>>
  <2> PICK n \in Nat : l = <<"+", "market", n>>
    BY <1>2
  <2>1. Consume(info, l) = [info EXCEPT !.market = n]
    BY DEF Consume
  <2> QED BY <1>1, <2>1 DEF InfoType
<1>3. CASE \E n \in Nat : l = <<"+", "finance", n>>
  <2> PICK n \in Nat : l = <<"+", "finance", n>>
    BY <1>3
  <2>1. Consume(info, l) = [info EXCEPT !.transactions = Append(@, n)]
    BY DEF Consume
  <2>2. Append(info.transactions, n) \in Seq(Nat)
    BY <1>1, AppendProperties
  <2> QED BY <1>1, <2>1, <2>2 DEF InfoType
<1>4. CASE \E B \in SUBSET info.known : l = <<"+", "bankrupt", B>>
  <2> PICK B \in SUBSET info.known : l = <<"+", "bankrupt", B>>
    BY <1>4
  <2>1. Consume(info, l) = [info EXCEPT !.dead = @ \cup B]
    BY DEF Consume
  <2> QED BY <1>1, <2>1 DEF InfoType
<1> QED BY <1>2, <1>3, <1>4 DEF DataLine

(* Data never changes the list of the players known. *)
LEMMA LearnsKnown ==
  ASSUME NEW info \in InfoType, NEW v, NEW n \in Nat, NEW k, Learns(info, v, n, k)
  PROVE  k \in InfoType /\ k.known = info.known
<1> PICK L \in [0 .. n -> InfoType] :
      /\ L[0] = info /\ L[n] = k
      /\ \A i \in 1 .. n : v[i] \in DataLine(info.known) /\ L[i] = Consume(L[i - 1], v[i])
  BY DEF Learns
<1> DEFINE T == {i \in 0 .. n : L[i].known = info.known}
<1>1. 0 \in T
  OBVIOUS
<1>2. ASSUME NEW i \in 1 .. n, i - 1 \in T PROVE i \in T
  <2>1. L[i - 1] \in InfoType /\ v[i] \in DataLine(L[i - 1].known)
    BY <1>2
  <2>2. L[i] = Consume(L[i - 1], v[i])
    OBVIOUS
  <2>3. L[i].known = L[i - 1].known
    BY <2>1, <2>2, ConsumeType
  <2> QED BY <1>2, <2>3
<1>3. n \in T
  <2> HIDE DEF T
  <2>1. \A i \in 1 .. n : i - 1 \in T => i \in T
    BY <1>2
  <2>2. 0 .. n \subseteq T
    BY <1>1, <2>1, UpTo
  <2> QED BY <2>2
<1> QED BY <1>3

(* No lines teach nothing. *)
LEMMA LearnsNone ==
  ASSUME NEW info \in InfoType, NEW v, NEW k
  PROVE  Learns(info, v, 0, k) <=> k = info
<1> DEFINE L == [i \in 0 .. 0 |-> info]
<1>1. L \in [0 .. 0 -> InfoType] /\ L[0] = info
  OBVIOUS
<1> HIDE DEF L
<1>2. Learns(info, v, 0, info)
  BY <1>1 DEF Learns
<1> QED BY <1>2 DEF Learns

(* Another line behind those that have been read *)
LEMMA LearnsStill ==
  ASSUME NEW info \in InfoType, NEW v \in Seq(ServerLine), NEW n \in 0 .. Len(v), NEW k,
         Learns(info, v, n, k), NEW l \in ServerLine
  PROVE  Learns(info, Append(v, l), n, k)
<1>1. \A i \in 1 .. n : Append(v, l)[i] = v[i]
  BY AppendProperties
<1> QED BY <1>1 DEF Learns

(* A line of data behind data that have all been read is consumed last. *)
LEMMA LearnsMore ==
  ASSUME NEW info \in InfoType, NEW v \in Seq(ServerLine), NEW k,
         Learns(info, v, Len(v), k),
         NEW l \in ServerLine, l \in DataLine(info.known)
  PROVE  Learns(info, Append(v, l), Len(Append(v, l)), Consume(k, l))
<1> DEFINE w == Append(v, l)
           n == Len(v)
           m == Len(w)
<1>1. m = n + 1 /\ n \in Nat /\ w[m] = l /\ \A i \in 1 .. n : w[i] = v[i]
  BY AppendProperties, LenProperties
<1> PICK L \in [0 .. n -> InfoType] :
      /\ L[0] = info /\ L[n] = k
      /\ \A i \in 1 .. n : v[i] \in DataLine(info.known) /\ L[i] = Consume(L[i - 1], v[i])
  BY DEF Learns
<1>2. k \in InfoType /\ k.known = info.known
  BY <1>1, LearnsKnown
<1> DEFINE K == Consume(k, l)
           M == [i \in 0 .. m |-> IF i = m THEN K ELSE L[i]]
<1>3. K \in InfoType
  BY <1>2, ConsumeType
<1> HIDE DEF w, n, m, K
<1>4. M \in [0 .. m -> InfoType]
  BY <1>1, <1>3
<1>5. M[0] = info /\ M[m] = K
  BY <1>1
<1>6. ASSUME NEW i \in 1 .. m
      PROVE  w[i] \in DataLine(info.known) /\ M[i] = Consume(M[i - 1], w[i])
  <2>1. CASE i = m
    <3>1. M[i - 1] = k
      BY <1>1, <2>1
    <3> QED BY <1>1, <1>5, <2>1, <3>1 DEF K
  <2>2. CASE i # m
    <3>1. i \in 1 .. n /\ i - 1 \in 0 .. n /\ i - 1 # m
      BY <1>1, <2>2
    <3>2. M[i] = L[i] /\ M[i - 1] = L[i - 1] /\ w[i] = v[i]
      BY <1>1, <2>2, <3>1
    <3>3. v[i] \in DataLine(info.known) /\ L[i] = Consume(L[i - 1], v[i])
      BY <3>1 DEF n
    <3> QED BY <3>2, <3>3
  <2> QED BY <2>1, <2>2
<1> HIDE DEF M
<1>7. Learns(info, w, m, K)
  BY <1>4, <1>5, <1>6 DEF Learns
<1> QED BY <1>7 DEF w, m, K

(* The first line is read. *)
LEMMA LearnsRest ==
  ASSUME NEW info \in InfoType, NEW v \in Seq(ServerLine), NEW n \in 1 .. Len(v), NEW k,
         Learns(info, v, n, k)
  PROVE  /\ v[1] \in DataLine(info.known)
         /\ Learns(Consume(info, v[1]), Tail(v), n - 1, k)
<1> PICK L \in [0 .. n -> InfoType] :
      /\ L[0] = info /\ L[n] = k
      /\ \A i \in 1 .. n : v[i] \in DataLine(info.known) /\ L[i] = Consume(L[i - 1], v[i])
  BY DEF Learns
<1>1. v # <<>> /\ Len(v) \in Nat /\ n \in Nat /\ 1 \in 1 .. n
  BY LenProperties, EmptySeq
<1>2. \A i \in 1 .. n - 1 : Tail(v)[i] = v[i + 1]
  BY <1>1, HeadTailProperties
<1>3. v[1] \in DataLine(info.known) /\ L[1] = Consume(L[0], v[1])
  BY <1>1
<1>4. L[1] = Consume(info, v[1]) /\ L[1] \in InfoType /\ L[1].known = info.known
  BY <1>3, ConsumeType
<1> DEFINE M == [i \in 0 .. n - 1 |-> L[i + 1]]
<1>5. M \in [0 .. n - 1 -> InfoType]
  BY <1>1
<1>6. M[0] = L[1] /\ M[n - 1] = k
  BY <1>1
<1>7. ASSUME NEW i \in 1 .. n - 1
      PROVE  Tail(v)[i] \in DataLine(L[1].known) /\ M[i] = Consume(M[i - 1], Tail(v)[i])
  <2>1. i + 1 \in 1 .. n /\ (i + 1) - 1 = i /\ M[i] = L[i + 1] /\ M[i - 1] = L[i]
    BY <1>1
  <2>2. v[i + 1] \in DataLine(info.known) /\ L[i + 1] = Consume(L[i], v[i + 1])
    BY <2>1
  <2> QED BY <1>2, <1>4, <2>1, <2>2
<1> HIDE DEF M
<1>8. Learns(L[1], Tail(v), n - 1, k)
  BY <1>5, <1>6, <1>7 DEF Learns
<1> QED BY <1>3, <1>4, <1>8

-----------------------------------------------------------------------------
(* What is in front of a reader while the server moves on *)

(* What is taken stays so, and the lost are lost. *)
Keeps(g, h) == g.taken \subseteq h.taken /\ (g.lost => h.lost)

(* Of the names N some may leave the game, and are deserters then. *)
Leaves(g, h, N) ==
  /\ h.playing \subseteq N /\ N \subseteq h.playing \cup h.gone
  /\ g.gone \subseteq h.gone

(* A server that does nothing to the client: its state is the same, and     *)
(* while that is a player's, so is the round, and the others only go.       *)
Later(g, h) ==
  /\ h.c = g.c /\ Keeps(g, h)
  /\ g.c \in {"IN_GAME", "IN_GAME_WAIT"} =>
       h.round = g.round /\ h.phase = g.phase /\ Leaves(g, h, g.playing)

(* A game begins. *)
Begins(g, h, u) ==
  /\ g.c = "IN_LOBBY_ACK" /\ h.c = "IN_GAME_WAIT" /\ Keeps(g, h)
  /\ u = <<Told("game")>>
  /\ h.round = 0 /\ h.phase = "between" /\ h.playing \subseteq Name

(* A round begins. *)
Opens(g, h, u) ==
  /\ g.c = "IN_GAME_WAIT" /\ h.c = "IN_GAME" /\ Keeps(g, h)
  /\ u = Append(<<<<"+", "market", g.round>>>>, Told("game_active"))
  /\ g.round \in Nat /\ g.phase = "between" /\ h.round = g.round
  /\ Leaves(g, h, g.playing)

(* A round is closed, with the bankrupts of names B, and the player stays in *)
(* the game or is out of it.                                                *)
Closing(g, B) ==
  LET finance == <<<<"+", "finance", g.round>>>>
  IN  IF B = {} THEN finance ELSE Append(finance, <<"+", "bankrupt", B>>)

Closes(g, h, u, B) ==
  /\ g.c = "IN_GAME_WAIT" /\ Keeps(g, h)
  /\ g.round \in Nat /\ g.phase = "round" /\ B \in SUBSET g.playing
  /\ \/ /\ h.c = "IN_GAME_WAIT"
        /\ u = Closing(g, B)
        /\ h.round = g.round + 1 /\ h.phase = "between"
        /\ Leaves(g, h, g.playing \ B)
     \/ h.c = "IN_LOBBY" /\ u = Append(Closing(g, B), Told("lobby"))

(* The others have left, one by a crash, and the client has won. *)
Wins(g, h, u) ==
  /\ g.c \in {"IN_GAME", "IN_GAME_WAIT"} /\ h.c = "IN_LOBBY" /\ Keeps(g, h) /\ h.lost
  /\ u = <<Told("lobby")>>

(* A move of the server, and the lines that tell of it *)
Moved(g, h, u) ==
  \/ Later(g, h) /\ u = <<>>
  \/ Begins(g, h, u)
  \/ Opens(g, h, u)
  \/ \E B \in SUBSET Name : Closes(g, h, u, B)
  \/ Wins(g, h, u)

(* What the lines of the server begin with *)
LEMMA LineTypes ==
  /\ \A s \in StateName : Told(s) \in ServerLine
  /\ \A n \in Nat : /\ <<"+", "market", n>> \in ServerLine
                    /\ <<"+", "finance", n>> \in ServerLine
                    /\ \A N : /\ <<"+", "market", n>> \in DataLine(N)
                              /\ <<"+", "finance", n>> \in DataLine(N)
  /\ \A B \in SUBSET Name : <<"+", "bankrupt", B>> \in ServerLine
  /\ \A l \in ServerLine : l[1] \in {"$", "+"}
  /\ \A N : \A l \in DataLine(N) : l[1] = "+"
  /\ \A s : Told(s)[1] = "$" /\ Told(s)[2] = s
BY DEF ServerLine, DataLine, Told

(* Lines put behind others, one after the other *)
LEMMA TwoMore ==
  ASSUME NEW S, NEW t \in Seq(S), NEW a \in S, NEW b \in S
  PROVE  /\ t \o <<a>> = Append(t, a) /\ <<a>> \in Seq(S)
         /\ \A u \in Seq(S) : t \o Append(u, b) = Append(t \o u, b)
<1>1. <<a>> \in Seq(S) /\ t \o <<a>> = Append(t, a)
  BY AppendIsConcat
<1>2. ASSUME NEW u \in Seq(S) PROVE t \o Append(u, b) = Append(t \o u, b)
  <2>1. Append(u, b) = u \o <<b>> /\ <<b>> \in Seq(S)
    BY AppendIsConcat
  <2>2. t \o (u \o <<b>>) = (t \o u) \o <<b>>
    BY <2>1, ConcatAssociative
  <2>3. t \o u \in Seq(S)
    BY ConcatProperties
  <2> QED BY <2>1, <2>2, <2>3, AppendIsConcat
<1> QED BY <1>1, <1>2

(* What is put behind a first line leaves it the first. *)
LEMMA BehindHead ==
  ASSUME NEW S, NEW t \in Seq(S), t # <<>>, NEW u \in Seq(S)
  PROVE  /\ t \o u # <<>> /\ Head(t \o u) = Head(t)
         /\ Tail(t \o u) = Tail(t) \o u /\ Tail(t) \in Seq(S)
<1>1. /\ t \o u \in Seq(S) /\ Len(t \o u) = Len(t) + Len(u)
      /\ Len(t) \in Nat \ {0} /\ Len(u) \in Nat /\ Tail(t) \in Seq(S)
  BY ConcatProperties, LenProperties, EmptySeq, HeadTailProperties
<1>2. t \o u # <<>>
  BY <1>1, EmptySeq
<1>3. (t \o u)[1] = t[1]
  BY <1>1, ConcatProperties
<1>4. Tail(t \o u) = Tail(t) \o u
  <2> DEFINE r == Tail(t \o u)
             w == Tail(t) \o u
  <2>1. /\ r \in Seq(S) /\ w \in Seq(S) /\ Len(r) = Len(t) + Len(u) - 1
        /\ Len(Tail(t)) = Len(t) - 1 /\ Len(w) = Len(t) + Len(u) - 1
    BY <1>1, <1>2, HeadTailProperties, ConcatProperties
  <2>2. ASSUME NEW i \in 1 .. Len(r) PROVE r[i] = w[i]
    <3>1. r[i] = (t \o u)[i + 1]
      BY <1>1, <1>2, <2>1, HeadTailProperties
    <3>2. (t \o u)[i + 1] = IF i + 1 <= Len(t) THEN t[i + 1] ELSE u[i + 1 - Len(t)]
      BY <1>1, <2>1, ConcatProperties
    <3>3. w[i] = IF i <= Len(t) - 1 THEN Tail(t)[i] ELSE u[i - (Len(t) - 1)]
      BY <1>1, <2>1, ConcatProperties
    <3>4. i <= Len(t) - 1 => Tail(t)[i] = t[i + 1]
      BY <1>1, <2>1, HeadTailProperties
    <3>5. i + 1 - Len(t) = i - (Len(t) - 1)
      BY <1>1, <2>1
    <3> QED BY <1>1, <2>1, <3>1, <3>2, <3>3, <3>4, <3>5
  <2> HIDE DEF r, w
  <2>3. r = w
    BY <2>1, <2>2, SeqEqual
  <2> QED BY <2>3 DEF r, w
<1> QED BY <1>1, <1>2, <1>3, <1>4

(* What is said is lines of the server. *)
LEMMA MovedType ==
  ASSUME NEW g, NEW h, NEW u, Moved(g, h, u)
  PROVE  u \in Seq(ServerLine)
<1>0. /\ <<Told("game")>> \in Seq(ServerLine) /\ <<Told("lobby")>> \in Seq(ServerLine)
      /\ Told("game_active") \in ServerLine /\ Told("lobby") \in ServerLine
  BY LineTypes, TwoMore, EmptySeq DEF StateName
<1>1. CASE Later(g, h) /\ u = <<>>
  BY <1>1, EmptySeq
<1>2. CASE Begins(g, h, u) \/ Wins(g, h, u)
  BY <1>0, <1>2 DEF Begins, Wins
<1>3. CASE Opens(g, h, u)
  <2> DEFINE l == <<"+", "market", g.round>>
  <2>1. l \in ServerLine
    BY <1>3, LineTypes DEF Opens
  <2> HIDE DEF l
  <2>2. <<l>> \in Seq(ServerLine)
    BY <2>1, TwoMore, EmptySeq
  <2>3. Append(<<l>>, Told("game_active")) \in Seq(ServerLine)
    BY <1>0, <2>2, AppendProperties
  <2> QED BY <1>3, <2>3 DEF Opens, l
<1>4. CASE \E B \in SUBSET Name : Closes(g, h, u, B)
  <2> PICK B \in SUBSET Name : Closes(g, h, u, B)
    BY <1>4
  <2> DEFINE f == <<"+", "finance", g.round>>
             b == <<"+", "bankrupt", B>>
  <2>1. f \in ServerLine /\ b \in ServerLine
    BY LineTypes DEF Closes
  <2>2. Closing(g, B) = IF B = {} THEN <<f>> ELSE Append(<<f>>, b)
    BY DEF Closing
  <2>2a. u = Closing(g, B) \/ u = Append(Closing(g, B), Told("lobby"))
    BY DEF Closes
  <2> HIDE DEF f, b
  <2>3. Closing(g, B) \in Seq(ServerLine)
    BY <2>1, <2>2, TwoMore, EmptySeq, AppendProperties
  <2>4. Append(Closing(g, B), Told("lobby")) \in Seq(ServerLine)
    BY <1>0, <2>3, AppendProperties
  <2> QED BY <2>2a, <2>3, <2>4
<1> QED BY <1>1, <1>2, <1>3, <1>4 DEF Moved

(* The names stay right while players leave as deserters. *)
LEMMA NamesStayRight ==
  ASSUME NEW g, NEW h, NEW k, NEW consts, NamesRight(g, k, consts),
         Leaves(g, h, g.playing)
  PROVE  NamesRight(h, k, consts)
BY DEF NamesRight, Leaves

(* The ways a stream of data may go on *)
LEMMA ComingNext ==
  ASSUME NEW h, NEW info \in InfoType, NEW consts, NEW v \in Seq(ServerLine), NEW k,
         Learns(info, v, Len(v), k)
  PROVE  /\ Tells(h, k, consts) => Coming(h, info, consts, v)
         /\ TurnInfo(h, k, consts) => Coming(h, info, consts, Append(v, Told("game_active")))
         /\ h.c = "IN_LOBBY" => Coming(h, info, consts, Append(v, Told("lobby")))
<1> DEFINE n == Len(v)
<1>1. n \in Nat /\ k \in InfoType /\ n \in 0 .. n
  BY LenProperties, LearnsKnown
<1>2. Tells(h, k, consts) => Coming(h, info, consts, v)
  BY <1>1 DEF Coming
<1>3. ASSUME NEW s \in StateName
      PROVE  LET w == Append(v, Told(s))
             IN  /\ Learns(info, w, n, k) /\ n + 1 = Len(w) /\ w[n + 1] = Told(s)
                 /\ n \in 0 .. Len(w)
  <2> DEFINE l == Told(s)
  <2>1. l \in ServerLine
    BY LineTypes
  <2> HIDE DEF l
  <2>2. Learns(info, Append(v, l), n, k)
    BY <1>1, <2>1, LearnsStill
  <2>3. Len(Append(v, l)) = n + 1 /\ Append(v, l)[n + 1] = l
    BY <2>1, AppendProperties
  <2> QED BY <1>1, <2>2, <2>3 DEF l
<1>4. TurnInfo(h, k, consts) => Coming(h, info, consts, Append(v, Told("game_active")))
  BY <1>1, <1>3 DEF Coming, StateName
<1>5. h.c = "IN_LOBBY" => Coming(h, info, consts, Append(v, Told("lobby")))
  BY <1>1, <1>3 DEF Coming, StateName
<1> QED BY <1>2, <1>4, <1>5

(* What is in front of a reader of data stays so, whatever the server does. *)
LEMMA ComingMoved ==
  ASSUME NEW g, NEW h, NEW u, Moved(g, h, u),
         NEW info \in InfoType, NEW consts, NEW v \in Seq(ServerLine),
         Coming(g, info, consts, v)
  PROVE  Coming(h, info, consts, v \o u)
<1> PICK n \in 0 .. Len(v), k \in InfoType :
      /\ Learns(info, v, n, k)
      /\ \/ n = Len(v) /\ Tells(g, k, consts)
         \/ n + 1 = Len(v) /\ v[n + 1] = Told("game_active") /\ TurnInfo(g, k, consts)
         \/ n + 1 = Len(v) /\ v[n + 1] = Told("lobby") /\ g.c = "IN_LOBBY"
         \/ /\ n + 2 = Len(v) /\ g.c = "IN_LOBBY" /\ g.lost
            /\ v[n + 1] = Told("game_active") /\ v[n + 2] = Told("lobby")
  BY DEF Coming
<1>1. Len(v) \in Nat /\ n \in Nat /\ k.known = info.known
  BY LenProperties, LearnsKnown
<1>2. CASE Later(g, h) /\ u = <<>>
  <2>1. v \o u = v
    BY <1>2, ConcatEmptySeq
  <2>2. Tells(g, k, consts) => Tells(h, k, consts)
    BY <1>2, NamesStayRight DEF Later, Tells, LastRound
  <2>3. TurnInfo(g, k, consts) => TurnInfo(h, k, consts)
    BY <1>2, NamesStayRight DEF Later, TurnInfo, LastRound
  <2> QED BY <1>2, <2>1, <2>2, <2>3 DEF Coming, Later, Keeps
<1>3. CASE Begins(g, h, u)
  BY <1>3 DEF Begins, Tells, TurnInfo
<1>4. CASE Opens(g, h, u)
  <2> DEFINE l == <<"+", "market", g.round>>
             w == Append(v, l)
             m == Consume(k, l)
  <2>1. n = Len(v) /\ Tells(g, k, consts)
    BY <1>4 DEF Opens, TurnInfo
  <2>2. l \in ServerLine /\ l \in DataLine(info.known) /\ Told("game_active") \in ServerLine
    BY <1>4, LineTypes DEF Opens, StateName
  <2>3. m = [k EXCEPT !.market = g.round]
    BY DEF Consume
  <2>4. u = Append(<<l>>, Told("game_active"))
    BY <1>4 DEF Opens
  <2>5. /\ m.market = g.round /\ m.transactions = k.transactions
        /\ m.known = k.known /\ m.dead = k.dead
    BY <2>3 DEF InfoType
  <2> HIDE DEF l, m
  <2>6. w \in Seq(ServerLine) /\ Learns(info, w, Len(w), m)
    BY <2>1, <2>2, LearnsMore, AppendProperties DEF m
  <2>7. v \o u = Append(w, Told("game_active"))
    BY <2>2, <2>4, TwoMore
  <2>8. TurnInfo(h, m, consts)
    <3>1. NamesRight(h, k, consts)
      BY <1>4, <2>1, NamesStayRight DEF Opens, Tells
    <3>2. NamesRight(h, m, consts)
      BY <2>5, <3>1 DEF NamesRight
    <3> QED BY <1>4, <2>1, <2>5, <3>2 DEF Opens, Tells, TurnInfo, LastRound
  <2> HIDE DEF w
  <2> QED BY <2>6, <2>7, <2>8, ComingNext
<1>5. ASSUME NEW B \in SUBSET Name, Closes(g, h, u, B) PROVE Coming(h, info, consts, v \o u)
  <2> DEFINE f == <<"+", "finance", g.round>>
             b == <<"+", "bankrupt", B>>
             w == Append(v, f)
             m == Consume(k, f)
             x == IF B = {} THEN w ELSE Append(w, b)
             z == IF B = {} THEN m ELSE Consume(m, b)
  <2>1. n = Len(v) /\ Tells(g, k, consts) /\ k.transactions = <<>> /\ k.known # {}
    BY <1>5 DEF Closes, Tells, TurnInfo
  <2>2. B \in SUBSET info.known
    BY <1>1, <1>5, <2>1 DEF Closes, Tells, NamesRight
  <2>3. /\ f \in ServerLine /\ f \in DataLine(info.known)
        /\ b \in ServerLine /\ Told("lobby") \in ServerLine
    BY <1>5, LineTypes DEF Closes, StateName
  <2>4. b \in DataLine(info.known)
    BY <2>2 DEF DataLine
  <2>5. m = [k EXCEPT !.transactions = Append(@, g.round)]
    BY DEF Consume
  <2>6. m.transactions = <<g.round>> /\ m.known = k.known /\ m.dead = k.dead
    <3>1. Append(<<>>, g.round) = <<g.round>>
      OBVIOUS
    <3>2. /\ m.transactions = Append(k.transactions, g.round)
          /\ m.known = k.known /\ m.dead = k.dead
      BY <2>5 DEF InfoType
    <3> QED BY <2>1, <3>1, <3>2
  <2>7. Consume(m, b) = [m EXCEPT !.dead = @ \cup B]
    BY DEF Consume
  <2>8. m \in InfoType
    BY <1>1, <2>3, ConsumeType
  <2>9. /\ Consume(m, b).transactions = m.transactions
        /\ Consume(m, b).known = m.known /\ Consume(m, b).dead = m.dead \cup B
    BY <2>7, <2>8 DEF InfoType
  <2>10. /\ z.transactions = <<g.round>> /\ z.known = k.known /\ z.dead = k.dead \cup B
    BY <2>6, <2>9
  <2>11. Closing(g, B) = IF B = {} THEN <<f>> ELSE Append(<<f>>, b)
    BY DEF Closing
  <2> HIDE DEF f, b, m
  <2>12. w \in Seq(ServerLine) /\ Learns(info, w, Len(w), m)
    BY <2>1, <2>3, LearnsMore, AppendProperties DEF m
  <2> HIDE DEF w
  <2>13. x \in Seq(ServerLine) /\ Learns(info, x, Len(x), z)
    <3>1. Append(w, b) \in Seq(ServerLine)
      BY <2>3, <2>12, AppendProperties
    <3>2. Learns(info, Append(w, b), Len(Append(w, b)), Consume(m, b))
      BY <2>3, <2>4, <2>12, LearnsMore
    <3> QED BY <2>12, <3>1, <3>2
  <2>14. v \o Closing(g, B) = x
    <3>1. v \o <<f>> = w /\ <<f>> \in Seq(ServerLine)
      BY <2>3, TwoMore DEF w
    <3>2. v \o Append(<<f>>, b) = Append(w, b)
      BY <2>3, <3>1, TwoMore
    <3> QED BY <2>11, <3>1, <3>2
  <2>15. Closing(g, B) \in Seq(ServerLine)
    <3>1. <<f>> \in Seq(ServerLine)
      BY <2>3, TwoMore
    <3> QED BY <2>3, <2>11, <3>1, AppendProperties
  <2> HIDE DEF x, z
  <2>16. v \o Append(Closing(g, B), Told("lobby")) = Append(x, Told("lobby"))
    <3>1. v \o Append(Closing(g, B), Told("lobby"))
            = Append(v \o Closing(g, B), Told("lobby"))
      BY <2>3, <2>15, TwoMore
    <3> QED BY <2>14, <3>1
  <2>17. CASE h.c = "IN_GAME_WAIT" /\ u = Closing(g, B)
    <3>1. /\ h.round = g.round + 1 /\ g.round \in Nat /\ h.phase = "between"
          /\ Leaves(g, h, g.playing \ B)
      BY <1>5, <2>17 DEF Closes
    <3>2. LastRound(h) = <<g.round>>
      <4>1. h.round # 0 /\ h.round - 1 = g.round
        BY <3>1
      <4> QED BY <4>1 DEF LastRound
    <3>3. NamesRight(h, z, consts)
      BY <2>1, <2>10, <3>1 DEF NamesRight, Tells, Leaves
    <3>4. Tells(h, z, consts)
      BY <2>10, <2>17, <3>1, <3>2, <3>3 DEF Tells
    <3> QED BY <2>13, <2>14, <2>17, <3>4, ComingNext
  <2>18. CASE h.c = "IN_LOBBY" /\ u = Append(Closing(g, B), Told("lobby"))
    BY <2>13, <2>16, <2>18, ComingNext
  <2> QED BY <1>5, <2>17, <2>18 DEF Closes
<1>6. CASE Wins(g, h, u)
  <2> DEFINE l == Told("lobby")
  <2>1. /\ u = <<l>> /\ h.c = "IN_LOBBY" /\ h.lost /\ g.c # "IN_LOBBY"
        /\ l \in ServerLine
    BY <1>6, LineTypes DEF Wins, StateName
  <2> HIDE DEF l
  <2>2. v \o u = Append(v, l)
    BY <2>1, TwoMore
  <2>3. CASE n = Len(v) /\ Tells(g, k, consts)
    BY <2>1, <2>2, <2>3, ComingNext DEF l
  <2>4. CASE n + 1 = Len(v) /\ v[n + 1] = Told("game_active")
    <3>1. Learns(info, Append(v, l), n, k)
      BY <2>1, LearnsStill
    <3>2. /\ Len(Append(v, l)) = n + 2
          /\ Append(v, l)[n + 1] = v[n + 1] /\ Append(v, l)[n + 2] = l
      <4>1. Len(Append(v, l)) = Len(v) + 1 /\ Append(v, l)[Len(v) + 1] = l
        BY <2>1, AppendProperties
      <4>2. n + 1 \in 1 .. Len(v) /\ Len(v) + 1 = n + 2
        BY <1>1, <2>4
      <4>3. Append(v, l)[n + 1] = v[n + 1]
        BY <2>1, <4>2, AppendProperties
      <4> QED BY <4>1, <4>2, <4>3
    <3>3. n \in 0 .. Len(Append(v, l))
      BY <1>1, <3>2
    <3> QED BY <2>1, <2>2, <2>4, <3>1, <3>2, <3>3 DEF Coming, l
  <2> QED BY <2>1, <2>3, <2>4
<1> QED BY <1>2, <1>3, <1>4, <1>5, <1>6 DEF Moved

(* In a turn the server can only end the game. *)
LEMMA InTurnMoved ==
  ASSUME NEW g, NEW h, NEW u, Moved(g, h, u), NEW k, NEW consts, NEW t,
         InTurn(g, k, consts, t)
  PROVE  InTurn(h, k, consts, t \o u) /\ (h.c = "IN_GAME" => g.c = "IN_GAME")
<1>1. <<Told("lobby")>> \in Seq(ServerLine) /\ <<>> \in Seq(ServerLine)
  BY LineTypes, TwoMore, EmptySeq DEF StateName
<1>2. t \in Seq(ServerLine)
  BY <1>1 DEF InTurn
<1>3. CASE Later(g, h) /\ u = <<>>
  <2>1. t \o u = t
    BY <1>2, <1>3, ConcatEmptySeq
  <2>2. TurnInfo(g, k, consts) => TurnInfo(h, k, consts)
    BY <1>3, NamesStayRight DEF Later, TurnInfo, LastRound
  <2> QED BY <1>3, <2>1, <2>2 DEF InTurn, Later, Keeps
<1>4. CASE Wins(g, h, u)
  <2>1. t = <<>> /\ u = <<Told("lobby")>> /\ h.c = "IN_LOBBY" /\ h.lost
    BY <1>4 DEF InTurn, Wins
  <2>2. t \o u = u
    BY <1>1, <2>1, ConcatEmptySeq
  <2> QED BY <2>1, <2>2 DEF InTurn
<1> QED BY <1>3, <1>4 DEF Moved, Begins, Opens, Closes, InTurn, TurnInfo

(* Whoever is ready in the lobby hears of the game, then of its data. *)
LEMMA SignedUpMoved ==
  ASSUME NEW g, NEW h, NEW u, Moved(g, h, u), NEW t \in Seq(ServerLine), SignedUp(g, t)
  PROVE  SignedUp(h, t \o u)
<1>1. u \in Seq(ServerLine)
  BY MovedType
<1>2. CASE t = <<>> /\ g.c = "IN_LOBBY_ACK"
  <2>1. t \o u = u
    BY <1>1, <1>2, ConcatEmptySeq
  <2>2. CASE Later(g, h) /\ u = <<>>
    BY <1>2, <2>1, <2>2 DEF SignedUp, Later
  <2>3. CASE Begins(g, h, u)
    <3>1. /\ h.c = "IN_GAME_WAIT" /\ u = <<Told("game")>> /\ h.round = 0
          /\ h.phase = "between" /\ h.playing \subseteq Name
      BY <2>3 DEF Begins
    <3>2. u # <<>> /\ Head(u) = Told("game") /\ Tail(u) = <<>>
      <4> HIDE DEF Told
      <4> QED BY <3>1
    <3>3. Tells(h, NewInfo, Everybody)
      <4>1. NewInfo.transactions = <<>> /\ NewInfo.known = {}
        BY DEF NewInfo
      <4>2. NamesRight(h, NewInfo, Everybody)
        BY <3>1, <4>1 DEF NamesRight, Everybody
      <4> QED BY <3>1, <4>1, <4>2 DEF Tells, LastRound
    <3>4. <<>> \in Seq(ServerLine) /\ Len(<<>>) = 0
      BY EmptySeq
    <3>5. Learns(NewInfo, <<>>, 0, NewInfo)
      BY NewInfoType, LearnsNone
    <3>6. Coming(h, NewInfo, Everybody, <<>>)
      BY <3>3, <3>4, <3>5, NewInfoType, ComingNext
    <3> QED BY <2>1, <3>2, <3>6 DEF SignedUp
  <2> QED BY <1>2, <2>2, <2>3 DEF Moved, Opens, Closes, Wins
<1>3. CASE t # <<>> /\ Head(t) = Told("game") /\ Coming(g, NewInfo, Everybody, Tail(t))
  <2>1. /\ t \o u # <<>> /\ Head(t \o u) = Head(t)
        /\ Tail(t \o u) = Tail(t) \o u /\ Tail(t) \in Seq(ServerLine)
    BY <1>1, <1>3, BehindHead
  <2>2. Coming(h, NewInfo, Everybody, Tail(t) \o u)
    BY <1>3, <2>1, NewInfoType, ComingMoved
  <2> QED BY <1>3, <2>1, <2>2 DEF SignedUp
<1> QED BY <1>2, <1>3 DEF SignedUp

(* What the server says keeps to what is expected at each place. *)
LEMMA StoryMoved ==
  ASSUME NEW g, NEW h, NEW u, Moved(g, h, u),
         NEW x, NEW info \in InfoType, NEW consts \in SUBSET Name,
         NEW t \in Seq(ServerLine), Story(g, x, info, consts, t)
  PROVE  Story(h, x, info, consts, t \o u)
<1>1. u \in Seq(ServerLine)
  BY MovedType
<1>2. CASE x \in {"auth", "login", "lobby", "signup"}
  <2>1. g.c \in {"CONNECTED", "IN_LOBBY"}
    BY <1>2 DEF Story, OnTurn
  <2>2. Later(g, h) /\ u = <<>>
    BY <2>1 DEF Moved, Begins, Opens, Closes, Wins
  <2>3. t \o u = t /\ h.c = g.c
    BY <2>2, ConcatEmptySeq DEF Later
  <2> QED BY <1>2, <2>3 DEF Story, OnTurn
<1>3. ASSUME t # <<>>
      PROVE  /\ t \o u # <<>> /\ Head(t \o u) = Head(t)
             /\ Tail(t \o u) = Tail(t) \o u /\ Tail(t) \in Seq(ServerLine)
  BY <1>1, <1>3, BehindHead
<1>4. CASE x = "lobby_ready"
  <2>1. t # <<>> /\ Head(t) = Told("lobby_ready") /\ SignedUp(g, Tail(t))
    BY <1>4 DEF Story, OnTurn
  <2>2. SignedUp(h, Tail(t) \o u)
    BY <1>3, <2>1, SignedUpMoved
  <2> QED BY <1>3, <1>4, <2>1, <2>2 DEF Story
<1>5. CASE x = "game"
  <2>1. SignedUp(g, t)
    BY <1>5 DEF Story, OnTurn
  <2> QED BY <1>5, <2>1, SignedUpMoved DEF Story
<1>6. CASE x = "list"
  <2>1. Coming(g, NewInfo, Everybody, t)
    BY <1>6 DEF Story, OnTurn
  <2> QED BY <1>6, <2>1, NewInfoType, ComingMoved DEF Story
<1>7. CASE x = "game_active"
  <2>1. Coming(g, info, consts, t)
    BY <1>7 DEF Story, OnTurn
  <2> QED BY <1>7, <2>1, ComingMoved DEF Story
<1>8. CASE x = "look" \/ x \in OnTurn
  <2>1. InTurn(g, info, consts, t) /\ (x \in OnTurn /\ g.c = "IN_GAME" => info.known # {})
    BY <1>8 DEF Story, OnTurn
  <2>2. InTurn(h, info, consts, t \o u) /\ (h.c = "IN_GAME" => g.c = "IN_GAME")
    BY <2>1, InTurnMoved
  <2> QED BY <1>8, <2>1, <2>2 DEF Story
<1>9. CASE x = "game_again"
  <2>1. /\ t # <<>>
        /\ \/ Head(t) = Told("lobby") /\ g.lost
           \/ Head(t) = Told("game") /\ Coming(g, info, consts, Tail(t))
    BY <1>9 DEF Story, OnTurn
  <2>2. Coming(g, info, consts, Tail(t)) => Coming(h, info, consts, Tail(t) \o u)
    BY <1>3, <2>1, ComingMoved
  <2>3. g.lost => h.lost
    BY DEF Moved, Later, Begins, Opens, Closes, Wins, Keeps
  <2> QED BY <1>3, <1>9, <2>1, <2>2, <2>3 DEF Story
<1> QED BY <1>2, <1>4, <1>5, <1>6, <1>7, <1>8, <1>9 DEF Story

(* An answer is an acknowledgement with names, or a refusal. *)
LEMMA AnswerTypes ==
  ASSUME NEW a \in AnswerLine
  PROVE  /\ a[1] = "ack" \/ a = Fail
         /\ a[1] = "ack" => a[2] \in SUBSET Name
         /\ Fail[1] = "fail" /\ a[1] \in {"ack", "fail"}
BY DEF AnswerLine, Ack, Fail

(* A list of players and clearTransactions leave a GameInfo one. *)
LEMMA UpdateTypes ==
  ASSUME NEW info \in InfoType, NEW names \in SUBSET Name
  PROVE  /\ UpdatePlayerList(info, names) \in InfoType
         /\ [info EXCEPT !.transactions = <<>>] \in InfoType
<1>1. <<>> \in Seq(Nat)
  BY EmptySeq
<1> QED BY <1>1 DEF UpdatePlayerList, InfoType

(* An answer that is on its way stays the right one. *)
LEMMA AnswerMoved ==
  ASSUME NEW g, NEW h, NEW u, Moved(g, h, u),
         NEW x, NEW num, NEW info \in InfoType, NEW consts \in SUBSET Name,
         NEW a \in AnswerLine, NEW t \in Seq(ServerLine),
         Answer(g, x, num, info, consts, a, t)
  PROVE  Answer(h, x, num, info, consts, a, t \o u)
<1>1. a[1] = "ack" => a[2] \in SUBSET Name
  BY AnswerTypes
<1>2. ASSUME NEW y, Story(g, y, info, consts, t)
      PROVE  Story(h, y, info, consts, t \o u)
  BY <1>2, StoryMoved
<1>3. g.taken \subseteq h.taken
  BY DEF Moved, Later, Begins, Opens, Closes, Wins, Keeps
<1>4. ASSUME x = "list", a[1] = "ack", Story(g, "game_active", NewInfo, a[2], t)
      PROVE  Story(h, "game_active", NewInfo, a[2], t \o u)
  BY <1>1, <1>4, NewInfoType, StoryMoved
<1>5. ASSUME x = "look", a[1] = "ack",
             Story(g, "turn", UpdatePlayerList(info, a[2]), consts, t)
      PROVE  Story(h, "turn", UpdatePlayerList(info, a[2]), consts, t \o u)
  BY <1>1, <1>5, UpdateTypes, StoryMoved
<1>6. ASSUME x = "end", Story(g, "game_again", [info EXCEPT !.transactions = <<>>], consts, t)
      PROVE  Story(h, "game_again", [info EXCEPT !.transactions = <<>>], consts, t \o u)
  BY <1>6, UpdateTypes, StoryMoved
<1> QED BY <1>2, <1>3, <1>4, <1>5, <1>6 DEF Answer

-----------------------------------------------------------------------------
(* An answer among the lines on their way *)

(* What Without leaves out is one line. *)
LEMMA WithoutProperties ==
  ASSUME NEW s \in Seq(AnyLine), NEW i \in 1 .. Len(s), Without(s, i) \in Seq(ServerLine)
  PROVE  /\ Len(Without(s, i)) = Len(s) - 1
         /\ \A j \in 1 .. Len(s) - 1 : Without(s, i)[j] = IF j < i THEN s[j] ELSE s[j + 1]
<1>1. Len(s) - 1 \in Nat
  BY LenProperties
<1> QED BY <1>1 DEF Without

(* Lines of the server and answers are lines. *)
LEMMA LinesAreLines ==
  /\ ServerLine \subseteq AnyLine /\ AnswerLine \subseteq AnyLine
  /\ \A s \in Seq(ServerLine) : s \in Seq(AnyLine)
<1>1. ServerLine \subseteq AnyLine /\ AnswerLine \subseteq AnyLine
  BY DEF AnyLine
<1> QED BY <1>1, SeqMonotonic

(* Lines behind the answer *)
LEMMA BehindAnswer ==
  ASSUME NEW s \in Seq(AnyLine), NEW i \in 1 .. Len(s), Without(s, i) \in Seq(ServerLine),
         NEW u \in Seq(ServerLine)
  PROVE  /\ i \in 1 .. Len(s \o u) /\ (s \o u)[i] = s[i]
         /\ Without(s \o u, i) = Without(s, i) \o u
<1> DEFINE w == Without(s, i) \o u
           r == Without(s \o u, i)
<1>1. u \in Seq(AnyLine)
  BY LinesAreLines
<1>2. /\ Len(s) \in Nat \ {0} /\ Len(u) \in Nat
      /\ Len(s \o u) = Len(s) + Len(u) /\ Len(Without(s, i)) = Len(s) - 1
      /\ \A j \in 1 .. Len(s) + Len(u) : (s \o u)[j] = IF j <= Len(s) THEN s[j] ELSE u[j - Len(s)]
  BY <1>1, LenProperties, ConcatProperties, WithoutProperties
<1>3. /\ w \in Seq(ServerLine) /\ Len(w) = Len(s) - 1 + Len(u)
      /\ \A j \in 1 .. Len(s) - 1 + Len(u) :
           w[j] = IF j <= Len(s) - 1 THEN Without(s, i)[j] ELSE u[j - (Len(s) - 1)]
  <2> DEFINE q == Without(s, i)
  <2>1. /\ q \in Seq(ServerLine) /\ Len(q) = Len(s) - 1
    BY <1>2
  <2> HIDE DEF q
  <2>2. /\ q \o u \in Seq(ServerLine) /\ Len(q \o u) = Len(q) + Len(u)
        /\ \A j \in 1 .. Len(q) + Len(u) :
             (q \o u)[j] = IF j <= Len(q) THEN q[j] ELSE u[j - Len(q)]
    BY <2>1, ConcatProperties
  <2> QED BY <2>1, <2>2 DEF q
<1>4. r = [j \in 1 .. Len(s) + Len(u) - 1 |-> IF j < i THEN (s \o u)[j] ELSE (s \o u)[j + 1]]
  BY <1>2 DEF Without
<1>5. ASSUME NEW j \in 1 .. Len(s) + Len(u) - 1 PROVE r[j] = w[j]
  <2>1. r[j] = IF j < i THEN (s \o u)[j] ELSE (s \o u)[j + 1]
    BY <1>4
  <2>2. /\ (s \o u)[j] = IF j <= Len(s) THEN s[j] ELSE u[j - Len(s)]
        /\ (s \o u)[j + 1] = IF j + 1 <= Len(s) THEN s[j + 1] ELSE u[j + 1 - Len(s)]
    BY <1>2
  <2>3. w[j] = IF j <= Len(s) - 1 THEN Without(s, i)[j] ELSE u[j - (Len(s) - 1)]
    BY <1>2, <1>3
  <2>4. j <= Len(s) - 1 => Without(s, i)[j] = IF j < i THEN s[j] ELSE s[j + 1]
    BY <1>2, WithoutProperties
  <2>5. j + 1 - Len(s) = j - (Len(s) - 1)
    BY <1>2
  <2> QED BY <1>2, <2>1, <2>2, <2>3, <2>4, <2>5
<1>6. w = [j \in 1 .. Len(s) + Len(u) - 1 |-> w[j]]
  <2>1. Len(s) - 1 + Len(u) = Len(s) + Len(u) - 1
    BY <1>2
  <2> HIDE DEF w
  <2> QED BY <1>3, <2>1, LenProperties
<1>7. r = w
  <2>1. r = [j \in 1 .. Len(s) + Len(u) - 1 |-> r[j]]
    BY <1>4
  <2> HIDE DEF r, w
  <2> QED BY <1>5, <1>6, <2>1
<1> QED BY <1>2, <1>7

(* An answer behind all other lines *)
LEMMA AnswerLast ==
  ASSUME NEW s \in Seq(ServerLine), NEW a \in AnswerLine
  PROVE  LET r == s \o <<a>>
         IN  /\ Len(s) + 1 \in 1 .. Len(r) /\ r[Len(s) + 1] = a
             /\ Without(r, Len(s) + 1) = s
<1> DEFINE r == s \o <<a>>
           i == Len(s) + 1
<1>1. s \in Seq(AnyLine) /\ a \in AnyLine /\ Len(s) \in Nat
  BY LinesAreLines, LenProperties
<1>2. r = Append(s, a)
  BY <1>1, TwoMore
<1>3. Len(r) = i /\ r[i] = a /\ \A j \in 1 .. Len(s) : r[j] = s[j]
  BY <1>1, <1>2, AppendProperties
<1> HIDE DEF r
<1>4. Without(r, i) = [j \in 1 .. Len(s) |-> s[j]]
  BY <1>1, <1>3 DEF Without
<1>5. s = [j \in 1 .. Len(s) |-> s[j]]
  BY LenProperties
<1>6. i \in 1 .. Len(r)
  BY <1>1, <1>3
<1> QED BY <1>3, <1>4, <1>5, <1>6 DEF r

(* A line is moved from the connection to the queue. *)
LEMMA LineMoved ==
  ASSUME NEW S, NEW q \in Seq(S), NEW r \in Seq(S), r # <<>>
  PROVE  Append(q, Head(r)) \o Tail(r) = q \o r
<1> DEFINE h == Head(r)
           z == Tail(r)
<1>1. h \in S /\ z \in Seq(S)
  BY HeadTailProperties
<1>2. r = <<h>> \o z
  <2>1. <<h>> \in Seq(S) /\ Len(<<h>>) = 1 /\ <<h>>[1] = h
    <3> HIDE DEF h
    <3> QED BY <1>1, TwoMore, EmptySeq
  <2>2. /\ Len(r) \in Nat \ {0} /\ Len(z) = Len(r) - 1 /\ r[1] = h
        /\ \A i \in 1 .. Len(z) : z[i] = r[i + 1]
    BY HeadTailProperties, EmptySeq
  <2> HIDE DEF h, z
  <2>3. /\ <<h>> \o z \in Seq(S) /\ Len(<<h>> \o z) = Len(r)
        /\ \A i \in 1 .. Len(r) : (<<h>> \o z)[i] = IF i <= 1 THEN <<h>>[i] ELSE z[i - 1]
    BY <1>1, <2>1, <2>2, ConcatProperties
  <2>4. ASSUME NEW i \in 1 .. Len(r) PROVE (<<h>> \o z)[i] = r[i]
    <3>1. CASE i = 1
      BY <2>1, <2>2, <2>3, <3>1
    <3>2. CASE i # 1
      <4>1. i - 1 \in 1 .. Len(z) /\ (i - 1) + 1 = i /\ ~(i <= 1)
        BY <2>2, <3>2
      <4> QED BY <2>2, <2>3, <4>1
    <3> QED BY <3>1, <3>2
  <2> QED BY <2>3, <2>4, SeqEqual
<1> HIDE DEF h, z
<1>3. Append(q, h) = q \o <<h>> /\ <<h>> \in Seq(S)
  BY <1>1, TwoMore
<1>4. (q \o <<h>>) \o z = q \o (<<h>> \o z)
  BY <1>1, <1>3, ConcatAssociative
<1> QED BY <1>2, <1>3, <1>4 DEF h, z

(* What execCommand reads before the answer, and the answer *)
LEMMA ReadBefore ==
  ASSUME NEW s \in Seq(AnyLine), NEW i \in 1 .. Len(s), i # 1,
         Without(s, i) \in Seq(ServerLine), NEW q \in Seq(ServerLine)
  PROVE  /\ Head(s) \in ServerLine /\ Tail(s) \in Seq(AnyLine)
         /\ i - 1 \in 1 .. Len(Tail(s)) /\ Tail(s)[i - 1] = s[i]
         /\ Without(Tail(s), i - 1) \in Seq(ServerLine)
         /\ Append(q, Head(s)) \o Without(Tail(s), i - 1) = q \o Without(s, i)
<1> DEFINE r == Without(s, i)
           z == Tail(s)
<1>1. /\ Len(r) = Len(s) - 1
      /\ \A j \in 1 .. Len(s) - 1 : r[j] = IF j < i THEN s[j] ELSE s[j + 1]
  BY WithoutProperties
<1>2. Len(s) \in Nat /\ Len(s) >= 2 /\ s # <<>>
  BY LenProperties, EmptySeq
<1>3. /\ z \in Seq(AnyLine) /\ Len(z) = Len(s) - 1 /\ Head(s) = s[1]
      /\ \A j \in 1 .. Len(z) : z[j] = s[j + 1]
  BY <1>2, HeadTailProperties
<1>3a. Without(z, i - 1) = [j \in 1 .. Len(z) - 1 |-> IF j < i - 1 THEN z[j] ELSE z[j + 1]]
  BY DEF Without
<1> HIDE DEF r, z
<1>4. r \in Seq(ServerLine) /\ r # <<>>
  BY <1>1, <1>2, EmptySeq DEF r
<1>5. Head(r) = s[1]
  BY <1>1, <1>2, <1>4
<1>6. Without(z, i - 1) = Tail(r)
  <2>1. /\ Tail(r) \in Seq(ServerLine) /\ Len(Tail(r)) = Len(s) - 2
        /\ \A j \in 1 .. Len(Tail(r)) : Tail(r)[j] = r[j + 1]
    BY <1>1, <1>2, <1>4, HeadTailProperties
  <2>2. Tail(r) = [j \in 1 .. Len(s) - 2 |-> Tail(r)[j]]
    BY <2>1, LenProperties
  <2>3. Len(z) - 1 = Len(s) - 2
    BY <1>2, <1>3
  <2>4. ASSUME NEW j \in 1 .. Len(s) - 2
        PROVE  (IF j < i - 1 THEN z[j] ELSE z[j + 1]) = Tail(r)[j]
    <3>1. Tail(r)[j] = IF j + 1 < i THEN s[j + 1] ELSE s[j + 1 + 1]
      BY <1>1, <1>2, <2>1
    <3>2. z[j] = s[j + 1] /\ z[j + 1] = s[j + 1 + 1]
      BY <1>2, <1>3
    <3>3. j + 1 < i <=> j < i - 1
      BY <1>2
    <3> QED BY <3>1, <3>2, <3>3
  <2> QED BY <1>3a, <2>2, <2>3, <2>4
<1>7. Tail(r) \in Seq(ServerLine) /\ Head(r) \in ServerLine
  BY <1>4, HeadTailProperties
<1>8. Append(q, Head(r)) \o Tail(r) = q \o r
  BY <1>4, LineMoved
<1>9. i - 1 \in 1 .. Len(z) /\ z[i - 1] = s[i]
  <2>1. i - 1 \in 1 .. Len(z) /\ (i - 1) + 1 = i
    BY <1>2, <1>3
  <2> QED BY <1>3, <2>1
<1> QED BY <1>3, <1>5, <1>6, <1>7, <1>8, <1>9 DEF r, z

(* The answer is the first line. *)
LEMMA ReadAnswer ==
  ASSUME NEW s \in Seq(AnyLine), s # <<>>
  PROVE  Without(s, 1) = Tail(s) /\ Head(s) = s[1]
<1>1. /\ Tail(s) \in Seq(AnyLine) /\ Len(Tail(s)) = Len(s) - 1 /\ Len(s) \in Nat \ {0}
      /\ \A j \in 1 .. Len(Tail(s)) : Tail(s)[j] = s[j + 1]
  BY HeadTailProperties, EmptySeq
<1>2. Tail(s) = [j \in 1 .. Len(s) - 1 |-> Tail(s)[j]]
  BY <1>1, LenProperties
<1>3. Without(s, 1) = [j \in 1 .. Len(s) - 1 |-> s[j + 1]]
  BY <1>1 DEF Without
<1> QED BY <1>1, <1>2, <1>3

-----------------------------------------------------------------------------
(* The program at its places *)

(* The places, by name *)
LEMMA PlaceSets ==
  /\ DOMAIN Awaited = {"auth", "lobby", "lobby_ready", "game", "game_active", "game_again"}
  /\ DOMAIN Issued = {"login", "signup", "list", "look", "turn", "end"}
  /\ DOMAIN After = DOMAIN Awaited \cup DOMAIN Issued
  /\ "off" \notin DOMAIN After
BY DEF Awaited, Issued, After

(* Data that comes in front *)
LEMMA ComingRead ==
  ASSUME NEW g, NEW info \in InfoType, NEW consts, NEW v \in Seq(ServerLine), v # <<>>,
         Coming(g, info, consts, v)
  PROVE  \/ /\ Head(v)[1] = "+"
            /\ Consume(info, Head(v)) \in InfoType
            /\ Coming(g, Consume(info, Head(v)), consts, Tail(v))
         \/ Head(v) = Told("game_active") /\ InTurn(g, info, consts, Tail(v))
         \/ Head(v) = Told("lobby") /\ g.c = "IN_LOBBY"
<1> PICK n \in 0 .. Len(v), k \in InfoType :
      /\ Learns(info, v, n, k)
      /\ \/ n = Len(v) /\ Tells(g, k, consts)
         \/ n + 1 = Len(v) /\ v[n + 1] = Told("game_active") /\ TurnInfo(g, k, consts)
         \/ n + 1 = Len(v) /\ v[n + 1] = Told("lobby") /\ g.c = "IN_LOBBY"
         \/ /\ n + 2 = Len(v) /\ g.c = "IN_LOBBY" /\ g.lost
            /\ v[n + 1] = Told("game_active") /\ v[n + 2] = Told("lobby")
  BY DEF Coming
<1> DEFINE z == Tail(v)
<1>1. /\ Len(v) \in Nat \ {0} /\ z \in Seq(ServerLine) /\ Len(z) = Len(v) - 1
      /\ \A i \in 1 .. Len(z) : z[i] = v[i + 1]
      /\ Head(v) = v[1]
  BY HeadTailProperties, EmptySeq
<1> HIDE DEF z
<1>2. CASE n = 0
  <2>1. k = info
    BY <1>2, LearnsNone
  <2>2. CASE n + 2 = Len(v) /\ v[n + 1] = Told("game_active") /\ v[n + 2] = Told("lobby")
             /\ g.c = "IN_LOBBY" /\ g.lost
    <3>1. Len(z) = 1 /\ z[1] = Told("lobby")
      <4>0. n + 2 = 2
        BY <1>2
      <4>1. Len(v) = 2 /\ v[2] = Told("lobby")
        BY <2>2, <4>0
      <4>2. Len(z) = 1 /\ z[1] = v[2]
        BY <1>1, <4>1
      <4> QED BY <4>1, <4>2
    <3>2. z = <<Told("lobby")>>
      <4> DEFINE l == Told("lobby")
      <4>1. <<l>> \in Seq(ServerLine)
        BY LineTypes, TwoMore, EmptySeq DEF StateName
      <4>2. z[1] = l
        BY <3>1
      <4> HIDE DEF l
      <4>3. Len(<<l>>) = 1 /\ <<l>>[1] = l
        OBVIOUS
      <4>4. z = <<l>>
        BY <1>1, <3>1, <4>1, <4>2, <4>3, SeqEqual
      <4> QED BY <4>4 DEF l
    <3> QED BY <1>1, <1>2, <2>2, <3>2 DEF InTurn, z
  <2>3. CASE n + 1 = Len(v)
    <3>1. z = <<>>
      BY <1>1, <1>2, <2>3, EmptySeq
    <3>2. CASE v[n + 1] = Told("game_active") /\ TurnInfo(g, k, consts)
      BY <1>1, <1>2, <2>1, <3>1, <3>2 DEF InTurn, z
    <3>3. CASE v[n + 1] = Told("lobby") /\ g.c = "IN_LOBBY"
      BY <1>1, <1>2, <3>3
    <3> QED BY <1>1, <1>2, <2>3, <3>2, <3>3
  <2> QED BY <1>1, <1>2, <2>2, <2>3
<1>3. CASE n # 0
  <2>1. n \in 1 .. Len(v)
    BY <1>1, <1>3
  <2>2. v[1] \in DataLine(info.known) /\ Learns(Consume(info, v[1]), z, n - 1, k)
    BY <2>1, LearnsRest DEF z
  <2>3. v[1][1] = "+" /\ Consume(info, v[1]) \in InfoType
    BY <2>2, LineTypes, ConsumeType
  <2>4. n - 1 \in 0 .. Len(z)
    BY <1>1, <2>1
  <2>5. /\ n = Len(v) => n - 1 = Len(z)
        /\ n + 1 = Len(v) => n - 1 + 1 = Len(z) /\ z[n - 1 + 1] = v[n + 1]
        /\ n + 2 = Len(v) => /\ n - 1 + 2 = Len(z) /\ z[n - 1 + 1] = v[n + 1]
                             /\ z[n - 1 + 2] = v[n + 2]
    BY <1>1, <2>1
  <2>6. Coming(g, Consume(info, v[1]), consts, z)
    BY <2>2, <2>4, <2>5 DEF Coming
  <2> QED BY <1>1, <2>3, <2>6 DEF z
<1> QED BY <1>2, <1>3

(* waitForState meets data in the loop only, the state it waits for, or in  *)
(* the loop the lobby.                                                      *)
LEMMA StoryRead ==
  ASSUME NEW g, NEW x \in DOMAIN Awaited, NEW info \in InfoType, NEW consts,
         NEW t \in Seq(ServerLine), t # <<>>, Story(g, x, info, consts, t)
  PROVE  \/ /\ Head(t)[1] = "+"
            /\ Consume(info, Head(t)) \in InfoType
            /\ Story(g, x, Consume(info, Head(t)), consts, Tail(t))
         \/ /\ Head(t) = Told(Awaited[x])
            /\ \A y \in After[x] : Story(g, y, info, consts, Tail(t))
         \/ /\ x \in InLoop /\ Head(t) = Told("lobby") /\ Awaited[x] # "lobby"
            /\ g.lost \/ g.c = "IN_LOBBY"
<1> USE DEF OnTurn
<1>0. x \in {"auth", "lobby", "lobby_ready", "game", "game_active", "game_again"}
  BY PlaceSets
<1>1. CASE x = "auth" \/ x = "lobby"
  <2>1. \E s \in {"auth", "lobby"} : t = <<Told(s)>> /\ Awaited[x] = s
    BY <1>1 DEF Story, Awaited
  <2> PICK s \in {"auth", "lobby"} : t = <<Told(s)>> /\ Awaited[x] = s
    BY <2>1
  <2>2. Head(t) = Told(Awaited[x]) /\ Tail(t) = <<>>
    <3> HIDE DEF Told
    <3> QED OBVIOUS
  <2>3. \A y \in After[x] : Story(g, y, info, consts, <<>>)
    BY <1>1 DEF After, Story
  <2> QED BY <2>2, <2>3
<1>2. CASE x = "lobby_ready"
  <2>1. Head(t) = Told("lobby_ready") /\ SignedUp(g, Tail(t))
    BY <1>2 DEF Story
  <2> QED BY <1>2, <2>1 DEF Story, After, Awaited
<1>3. CASE x = "game"
  <2>1. Head(t) = Told("game") /\ Coming(g, NewInfo, Everybody, Tail(t))
    BY <1>3 DEF Story, SignedUp
  <2> QED BY <1>3, <2>1 DEF Story, After, Awaited
<1>4. CASE x = "game_active"
  <2>1. Coming(g, info, consts, t)
    BY <1>4 DEF Story
  <2>2. Awaited[x] = "game_active" /\ After[x] = {"look"} /\ x \in InLoop
    BY <1>4 DEF Awaited, After, InLoop
  <2>3. CASE Head(t) = Told("game_active") /\ InTurn(g, info, consts, Tail(t))
    BY <1>4, <2>2, <2>3 DEF Story
  <2>4. CASE /\ Head(t)[1] = "+" /\ Consume(info, Head(t)) \in InfoType
             /\ Coming(g, Consume(info, Head(t)), consts, Tail(t))
    BY <1>4, <2>4 DEF Story
  <2> QED BY <2>1, <2>2, <2>3, <2>4, ComingRead
<1>5. CASE x = "game_again"
  <2>1. \/ Head(t) = Told("lobby") /\ g.lost
        \/ Head(t) = Told("game") /\ Coming(g, info, consts, Tail(t))
    BY <1>5 DEF Story
  <2>2. Awaited[x] = "game" /\ After[x] = {"game_active"} /\ x \in InLoop
    BY <1>5 DEF Awaited, After, InLoop
  <2> QED BY <2>1, <2>2 DEF Story
<1> QED BY <1>0, <1>1, <1>2, <1>3, <1>4, <1>5

-----------------------------------------------------------------------------
(* Names *)

(* The numbers below a client's own belong to others: there are enough      *)
(* names for all.                                                           *)
LEMMA NumbersFit ==
  ASSUME ProgramType, NEW p \in Player, PlayerInv(p)
  PROVE  memory[p].number \in Name \ {0}
<1> DEFINE k == memory[p].number
           S == {r \in Player : Settled(r) /\ r # p}
           T == {memory[q].number : q \in S}
           N == Cardinality(Client)
           others == (Client \ {Supervisor}) \ {p}
<1>1. k \in Nat \ {0}
  BY DEF ProgramType, MemoryType
<1>2. 1 .. k - 1 \subseteq T
  <2> SUFFICES ASSUME NEW j \in 1 .. k - 1 PROVE j \in T
    OBVIOUS
  <2>1. j \in Sight(p).taken
    BY DEF PlayerInv
  <2>2. PICK q \in Player : Settled(q) /\ j = memory[q].number
    BY <2>1 DEF Sight
  <2>3. q # p
    BY <1>1, <2>2
  <2> QED BY <2>2, <2>3
<1>3. /\ IsFiniteSet(Client) /\ N \in Nat
      /\ p \in Client \ {Supervisor} /\ Supervisor \in Client
  BY ClientAssumption, FS_CardinalityType, SupervisorAssumption DEF Player
<1>4. IsFiniteSet(others) /\ Cardinality(others) = N - 2
  <2>1. /\ IsFiniteSet(Client \ {Supervisor}) /\ Cardinality(Client \ {Supervisor}) = N - 1
    BY <1>3, FS_RemoveElement
  <2>2. IsFiniteSet(others) /\ Cardinality(others) = N - 1 - 1
    BY <1>3, <2>1, FS_RemoveElement
  <2> QED BY <1>3, <2>2
<1>5. IsFiniteSet(S) /\ Cardinality(S) <= N - 2 /\ Cardinality(S) \in Nat
  <2>1. S \subseteq others
    BY DEF Player
  <2> HIDE DEF S, others
  <2>2. IsFiniteSet(S) /\ Cardinality(S) <= Cardinality(others)
    BY <1>4, <2>1, FS_Subset
  <2> QED BY <1>4, <2>2, FS_CardinalityType
<1>6. IsFiniteSet(T) /\ Cardinality(T) <= Cardinality(S) /\ Cardinality(T) \in Nat
  <2> DEFINE f == [q \in S |-> memory[q].number]
  <2>1. f \in Surjection(S, T)
    BY DEF Surjection
  <2> HIDE DEF f, S, T
  <2>2. IsFiniteSet(T) /\ Cardinality(T) <= Cardinality(S)
    BY <1>5, <2>1, FS_Surjection
  <2> QED BY <2>2, FS_CardinalityType
<1>7. Cardinality(1 .. k - 1) = k - 1
  <2> DEFINE e == k - 1
  <2>1. e \in Nat
    BY <1>1
  <2> HIDE DEF e
  <2>2. Cardinality(1 .. e) = IF 1 > e THEN 0 ELSE e - 1 + 1
    BY <2>1, FS_Interval
  <2>3. Cardinality(1 .. e) = e
    BY <2>1, <2>2
  <2> QED BY <2>3 DEF e
<1> HIDE DEF k, S, T, N
<1>8. Cardinality(1 .. k - 1) <= Cardinality(T)
  BY <1>2, <1>6, FS_Subset
<1>9. k <= N - 1
  BY <1>1, <1>3, <1>5, <1>6, <1>7, <1>8
<1> QED BY <1>1, <1>3, <1>9, NameAssumption2 DEF k, N

(* Nobody who has counted a name as another's gives up its own number. *)
NumbersKept ==
  /\ \A r \in Player : Settled(r) => Settled(r)' /\ memory'[r].number = memory[r].number
  /\ Lost => Lost'

(* The game loses players to the deserters only. *)
DesertersKept ==
  deserters \subseteq deserters' /\ \A r \in Players \ Players' : name[r] \in deserters'

(* Taken numbers stay taken. *)
LEMMA TakenKept ==
  ASSUME NumbersKept, NEW p
  PROVE  Sight(p).taken \subseteq Sight(p)'.taken /\ Keeps(Sight(p), Sight(p)')
<1>0. Sight(p).lost => Sight(p)'.lost
  BY DEF Sight, NumbersKept
<1> SUFFICES ASSUME NEW q \in Player, Settled(q)
             PROVE  memory[q].number \in Sight(p)'.taken
  BY <1>0 DEF Sight, Keeps
<1>1. Settled(q)' /\ memory'[q].number = memory[q].number
  BY DEF NumbersKept
<1> QED BY <1>1 DEF Sight

(* The players' names stay, but for those of deserters. *)
LEMMA OnlyDesertersLeave ==
  ASSUME DesertersKept, Players' \subseteq Players, \A r \in Players' : name'[r] = name[r],
         NEW p
  PROVE  Leaves(Sight(p), Sight(p)', Sight(p).playing)
<1>1. Sight(p)'.playing = {name[r] : r \in Players'}
  BY DEF Sight
<1>2. Sight(p).playing = {name[r] : r \in Players}
  BY DEF Sight
<1>3. Sight(p).gone = deserters /\ Sight(p)'.gone = deserters'
  BY DEF Sight
<1> QED BY <1>1, <1>2, <1>3 DEF DesertersKept, Leaves

-----------------------------------------------------------------------------
(* A step of the others, or of the server, as a client's program sees it *)

(* A step that is none of the program of p *)
ProgramKept(p) ==
  /\ place'[p] = place[p] /\ ended'[p] = ended[p] /\ memory'[p] = memory[p]
  /\ pending'[p] = pending[p] /\ name'[p] = name[p]

(* The server says u to p, which is a move of the server as p sees it. *)
Says(p, u) ==
  /\ ProgramKept(p)
  /\ cstate[p] = "NONE" => cstate'[p] = "NONE" /\ u = <<>>
  /\ ended[p] = "no" => inbox'[p] = inbox[p] \o u
  /\ ended[p] # "no" => inbox'[p] \in {inbox[p], <<>>}
  /\ Running(p) => Moved(Sight(p), Sight(p)', u)
  /\ Aside(p) => Aside(p)'

(* Three sequences, one behind the other *)
LEMMA ConcatTwice ==
  ASSUME NEW S, NEW a \in Seq(S), NEW b \in Seq(S), NEW c \in Seq(S)
  PROVE  /\ a \o b \in Seq(S) /\ b \o c \in Seq(S)
         /\ (a \o b) \o c = a \o (b \o c)
BY ConcatProperties, ConcatAssociative

(* A client that listens to a move of the server keeps its invariant. *)
LEMMA Listens ==
  ASSUME ProgramType, NEW p \in Player, PlayerInv(p), NEW u, Says(p, u), NumbersKept
  PROVE  PlayerInv(p)' /\ inbox'[p] \in Seq(AnyLine)
<1> DEFINE g == Sight(p)
           h == Sight(p)'
           q == memory[p].m_eventQueue
           info == Info(p)
           consts == memory[p].constants
           x == place[p]
<1>1. /\ q \in Seq(ServerLine) /\ info \in InfoType /\ consts \in SUBSET Name
      /\ inbox[p] \in Seq(AnyLine)
  BY DEF ProgramType, MemoryType, Info
<1>2. /\ Running(p)' <=> Running(p)
      /\ Info(p)' = info /\ place[p]' = x /\ memory[p]' = memory[p]
      /\ ended[p]' = ended[p] /\ pending[p]' = pending[p] /\ name[p]' = name[p]
      /\ cstate[p]' = cstate'[p] /\ inbox[p]' = inbox'[p]
  BY DEF Says, ProgramKept, Running, Info
<1>3. 1 .. memory[p].number - 1 \subseteq h.taken /\ (ended'[p] # "no" => Lost' \/ Aside(p)')
  BY <1>2, TakenKept DEF PlayerInv, NumbersKept, Says
<1>4. CASE ~Running(p)
  <2>1. CASE ended[p] = "no"
    <3>1. cstate'[p] = "NONE" /\ inbox'[p] = inbox[p] \o <<>> /\ inbox[p] = <<>>
      BY <1>4, <2>1 DEF Says, PlayerInv
    <3>2. inbox'[p] = <<>>
      BY <1>1, <3>1, ConcatEmptySeq
    <3> QED BY <1>1, <1>2, <1>3, <1>4, <2>1, <3>1, <3>2 DEF PlayerInv
  <2>2. CASE ended[p] # "no"
    <3>1. inbox'[p] \in Seq(AnyLine)
      BY <1>1, <2>2, EmptySeq DEF Says
    <3> QED BY <1>2, <1>3, <1>4, <2>2, <3>1, EmptySeq DEF PlayerInv
  <2> QED BY <2>1, <2>2
<1>5. CASE Running(p)
  <2>1. /\ ended[p] = "no" /\ Moved(g, h, u) /\ inbox'[p] = inbox[p] \o u
        /\ Unanswered(p) \/ Answered(p)
    BY <1>5 DEF PlayerInv, Says
  <2> HIDE DEF g, h, q, info, consts, x
  <2>2. u \in Seq(ServerLine) /\ u \in Seq(AnyLine)
    BY <2>1, MovedType, LinesAreLines
  <2>3. inbox'[p] \in Seq(AnyLine)
    BY <1>1, <2>1, <2>2, ConcatProperties
  <2>4. CASE Unanswered(p)
    <3>1. /\ pending[p] = IF x \in DOMAIN Issued THEN Issued[x] ELSE "none"
          /\ inbox[p] \in Seq(ServerLine)
          /\ Story(g, x, info, consts, q \o inbox[p])
      BY <2>4 DEF Unanswered, g, x, info, consts, q
    <3>2. /\ q \o inbox[p] \in Seq(ServerLine) /\ inbox'[p] \in Seq(ServerLine)
          /\ (q \o inbox[p]) \o u = q \o inbox'[p]
      <4> DEFINE s == inbox[p]
      <4>1. s \in Seq(ServerLine) /\ inbox'[p] = s \o u
        BY <2>1, <3>1
      <4> HIDE DEF s
      <4>2. /\ q \o s \in Seq(ServerLine) /\ s \o u \in Seq(ServerLine)
            /\ (q \o s) \o u = q \o (s \o u)
        BY <1>1, <2>2, <4>1, ConcatTwice
      <4> QED BY <4>1, <4>2 DEF s
    <3>3. Story(h, x, info, consts, q \o inbox'[p])
      BY <1>1, <2>1, <3>1, <3>2, StoryMoved
    <3>4. Unanswered(p)'
      BY <1>2, <3>1, <3>2, <3>3 DEF Unanswered, h, x, info, consts, q
    <3> QED BY <1>2, <1>3, <1>5, <2>1, <2>3, <3>4 DEF PlayerInv, h
  <2>5. CASE Answered(p)
    <3> DEFINE s == inbox[p]
               num == memory[p].number
    <3>1. PICK i \in 1 .. Len(s) :
            /\ s[i] \in AnswerLine
            /\ Without(s, i) \in Seq(ServerLine)
            /\ Answer(g, x, num, info, consts, s[i], q \o Without(s, i))
      BY <2>5 DEF Answered, g, x, info, consts, q
    <3>2. /\ i \in 1 .. Len(s \o u) /\ (s \o u)[i] = s[i]
          /\ Without(s \o u, i) = Without(s, i) \o u
      BY <1>1, <2>2, <3>1, BehindAnswer
    <3>3. /\ q \o Without(s, i) \in Seq(ServerLine)
          /\ (q \o Without(s, i)) \o u = q \o Without(s \o u, i)
          /\ Without(s \o u, i) \in Seq(ServerLine)
      <4> DEFINE w == Without(s, i)
      <4>1. w \in Seq(ServerLine) /\ Without(s \o u, i) = w \o u
        BY <3>1, <3>2
      <4> HIDE DEF w, s
      <4>2. /\ q \o w \in Seq(ServerLine) /\ w \o u \in Seq(ServerLine)
            /\ (q \o w) \o u = q \o (w \o u)
        BY <1>1, <2>2, <4>1, ConcatTwice
      <4> QED BY <4>1, <4>2 DEF w
    <3> HIDE DEF s, num
    <3>4. Answer(h, x, num, info, consts, s[i], q \o Without(s \o u, i))
      BY <1>1, <2>1, <3>1, <3>3, AnswerMoved
    <3>5. pending[p] = "none" /\ inbox'[p] = s \o u
      BY <2>1, <2>5 DEF Answered, s
    <3>6. Answered(p)'
      BY <1>2, <3>1, <3>2, <3>3, <3>4, <3>5 DEF Answered, h, x, info, consts, q, num
    <3> QED BY <1>2, <1>3, <1>5, <2>1, <2>3, <3>6 DEF PlayerInv, h
  <2> QED BY <2>1, <2>4, <2>5
<1> QED BY <1>4, <1>5

-----------------------------------------------------------------------------
(* What the server sends *)

(* The lines of a broadcast, behind them the client's new state if there is  *)
(* one, and nothing else                                                    *)
LEMMA SendNews ==
  ASSUME ProgramType, NEW p \in Player, ended[p] = "no",
         NEW STATE broadcast, NEW STATE answer, Send(broadcast, answer),
         broadcast[p] \in Seq(ServerLine), answer[p] = <<>>,
         cstate'[p] \notin {cstate[p], "NONE"}, cstate'[p] \in ClientState
  PROVE  /\ inbox'[p] = inbox[p] \o Append(broadcast[p], Told(StateStr[cstate'[p]]))
         /\ Told(StateStr[cstate'[p]]) \in ServerLine
<1> DEFINE b == broadcast[p]
           l == Told(StateStr[cstate'[p]])
           s == inbox[p]
<1>1. inbox'[p] = ((s \o b) \o News(p)) \o <<>>
  BY DEF Send
<1>2. News(p) = <<l>>
  BY DEF News, Line, StateLine, Told
<1>3. l \in ServerLine
  <2>1. StateStr[cstate'[p]] \in StateName
    BY DEF StateStr, StateName
  <2> QED BY <2>1, LineTypes
<1>4. s \in Seq(AnyLine) /\ b \in Seq(AnyLine) /\ l \in AnyLine
  BY <1>3, LinesAreLines DEF ProgramType
<1> HIDE DEF b, l, s
<1>5. /\ s \o b \in Seq(AnyLine) /\ (s \o b) \o <<l>> = Append(s \o b, l)
      /\ s \o Append(b, l) = Append(s \o b, l)
  BY <1>4, ConcatTwice, TwoMore
<1>6. Append(s \o b, l) \o <<>> = Append(s \o b, l)
  BY <1>4, <1>5, AppendProperties, ConcatEmptySeq
<1> QED BY <1>1, <1>2, <1>3, <1>5, <1>6 DEF b, l, s

(* A broadcast, for a client whose state stays the same *)
LEMMA SendData ==
  ASSUME ProgramType, NEW p \in Player, ended[p] = "no",
         NEW STATE broadcast, NEW STATE answer, Send(broadcast, answer),
         broadcast[p] \in Seq(ServerLine), answer[p] = <<>>,
         cstate'[p] \in {cstate[p], "NONE"}
  PROVE  inbox'[p] = inbox[p] \o broadcast[p]
<1> DEFINE b == broadcast[p]
           s == inbox[p]
<1>1. inbox'[p] = ((s \o b) \o <<>>) \o <<>>
  BY DEF Send, News, Line
<1>2. s \in Seq(AnyLine) /\ b \in Seq(AnyLine)
  BY LinesAreLines DEF ProgramType
<1> HIDE DEF b, s
<1>3. s \o b \in Seq(AnyLine)
  BY <1>2, ConcatTwice
<1>4. (s \o b) \o <<>> = s \o b
  BY <1>3, ConcatEmptySeq
<1> QED BY <1>1, <1>4 DEF b, s

(* Nothing is sent to a client, or it has ended. *)
LEMMA SendNothing ==
  ASSUME ProgramType, NEW p \in Player,
         NEW STATE broadcast, NEW STATE answer, Send(broadcast, answer),
         ended[p] = "no" => /\ broadcast[p] = <<>> /\ answer[p] = <<>>
                            /\ cstate'[p] \in {cstate[p], "NONE"}
  PROVE  inbox'[p] = IF ended[p] = "no" THEN inbox[p] ELSE <<>>
<1>1. CASE ended[p] = "no"
  <2>1. broadcast[p] \in Seq(ServerLine)
    BY <1>1, EmptySeq
  <2>2. inbox'[p] = inbox[p] \o <<>>
    BY <1>1, <2>1, SendData
  <2>3. inbox[p] \in Seq(AnyLine)
    BY DEF ProgramType
  <2> QED BY <1>1, <2>2, <2>3, ConcatEmptySeq
<1>2. CASE ended[p] # "no"
  BY <1>2 DEF Send
<1> QED BY <1>1, <1>2

(* An answer, behind the news of the state that it may come with *)
LEMMA SendAnswer ==
  ASSUME ProgramType, NEW p \in Player, ended[p] = "no",
         NEW STATE a, Send(Nothing, To(p, <<a>>))
  PROVE  /\ cstate'[p] \in {cstate[p], "NONE"} => inbox'[p] = inbox[p] \o <<a>>
         /\ cstate'[p] \notin {cstate[p], "NONE"} =>
              inbox'[p] = (inbox[p] \o <<Told(StateStr[cstate'[p]])>>) \o <<a>>
<1> DEFINE s == inbox[p]
<1>1. inbox'[p] = ((s \o <<>>) \o News(p)) \o <<a>>
  BY DEF Send, Nothing, To
<1>2. s \in Seq(AnyLine)
  BY DEF ProgramType
<1> HIDE DEF s
<1>3. s \o <<>> = s
  BY <1>2, ConcatEmptySeq
<1>4. inbox'[p] = (s \o News(p)) \o <<a>>
  BY <1>1, <1>3
<1>5. CASE cstate'[p] \in {cstate[p], "NONE"}
  <2>1. News(p) = <<>>
    BY <1>5 DEF News, Line
  <2> QED BY <1>3, <1>4, <1>5, <2>1 DEF s
<1>6. CASE cstate'[p] \notin {cstate[p], "NONE"}
  <2>1. News(p) = <<Told(StateStr[cstate'[p]])>>
    BY <1>6 DEF News, Line, StateLine, Told
  <2> QED BY <1>4, <1>6, <2>1 DEF s
<1> QED BY <1>5, <1>6

(* To whom the lines of a handler go *)
LEMMA ToOthers ==
  ASSUME NEW p \in Player, NEW q \in Player
  PROVE  /\ Nothing[p] = <<>>
         /\ \A s : ToPlayers(s)[p] = IF p \in Players THEN s ELSE <<>>
         /\ \A s : p # q => To(q, s)[p] = <<>>
BY DEF Nothing, ToPlayers, To

-----------------------------------------------------------------------------
(* The invariant, and the clients that a step leaves alone *)

IInv ==
  /\ TypeOK /\ NamesIdentify /\ CountInv /\ TurnInv /\ ~abort_game
  /\ SessionInv

(* The players are clients with a name, which is the number in their        *)
(* memory, and no two have the same.                                        *)
LEMMA PlayersKnown ==
  ASSUME IInv
  PROVE  /\ Players \subseteq Player /\ Active \subseteq Players
         /\ \A r \in Players : /\ name[r] \in Name /\ name[r] = memory[r].number
                               /\ cstate[r] \in {"IN_GAME", "IN_GAME_WAIT"}
         /\ \A r \in Player : name[r] # NoName <=> cstate[r] \notin Unnamed
         /\ \A r \in Client, q \in Client :
              name[r] = name[q] /\ name[r] # NoName => r = q
<1> USE DEF IInv, SessionInv
<1>1. Players \subseteq Player
  BY DEF Players, PlayersIn, InState, Player, SupervisorInv
<1>2. Active \subseteq Players
  BY ActiveArePlayers
<1>3. ASSUME NEW r \in Players
      PROVE  /\ name[r] \in Name /\ name[r] = memory[r].number
             /\ cstate[r] \in {"IN_GAME", "IN_GAME_WAIT"}
  <2>1. r \in Client /\ cstate[r] \in {"IN_GAME", "IN_GAME_WAIT"}
    BY DEF Players, PlayersIn, InState
  <2>2. name[r] # NoName /\ name[r] \in Name
    BY <2>1 DEF NamesIdentify, TypeOK
  <2> QED BY <1>1, <2>1, <2>2 DEF PlayerInv
<1>4. \A r \in Player : name[r] # NoName <=> cstate[r] \notin Unnamed
  BY DEF NamesIdentify, Unnamed, Player
<1>5. \A r \in Client, q \in Client : name[r] = name[q] /\ name[r] # NoName => r = q
  BY DEF NamesIdentify
<1> QED BY <1>1, <1>2, <1>3, <1>4, <1>5

(* The names of the players are names. *)
LEMMA PlayingNamed ==
  ASSUME IInv, NEW p
  PROVE  Sight(p).playing \subseteq Name
BY PlayersKnown DEF Sight

(* Whoever is not a player only waits; whoever is one sees the same round,  *)
(* with the same players or fewer.                                          *)
LEMMA Bystander ==
  ASSUME ProgramType, NEW p \in Player, PlayerInv(p), ProgramKept(p), NumbersKept,
         cstate'[p] = cstate[p],
         inbox'[p] = inbox[p] \/ (ended[p] # "no" /\ inbox'[p] = <<>>),
         p \in Players =>
           /\ round_counter' = round_counter /\ Sight(p)'.phase = Sight(p).phase
           /\ Players' \subseteq Players /\ \A r \in Players' : name'[r] = name[r]
           /\ DesertersKept
  PROVE  PlayerInv(p)' /\ inbox'[p] \in Seq(AnyLine)
<1>1. inbox[p] \in Seq(AnyLine)
  BY DEF ProgramType
<1>2. inbox[p] \o <<>> = inbox[p]
  BY <1>1, ConcatEmptySeq
<1>3. Sight(p)'.c = Sight(p).c /\ Keeps(Sight(p), Sight(p)')
  BY TakenKept DEF Sight
<1>4. ASSUME Sight(p).c \in {"IN_GAME", "IN_GAME_WAIT"}
      PROVE  /\ Sight(p)'.round = Sight(p).round /\ Sight(p)'.phase = Sight(p).phase
             /\ Leaves(Sight(p), Sight(p)', Sight(p).playing)
  <2>1. p \in Players
    BY <1>4 DEF Sight, Players, PlayersIn, InState, Player
  <2>2. Sight(p)'.round = Sight(p).round
    BY <2>1 DEF Sight
  <2> QED BY <2>1, <2>2, OnlyDesertersLeave
<1>5. Later(Sight(p), Sight(p)')
  BY <1>3, <1>4 DEF Later
<1>6. Aside(p) => Aside(p)'
  BY DEF Aside, ProgramKept
<1>7. Says(p, <<>>)
  BY <1>2, <1>5, <1>6 DEF Says, Moved
<1> QED BY <1>7, Listens

(* What holds of every inbox holds of them all. *)
LEMMA AllListen ==
  ASSUME \A p \in Player : PlayerInv(p)' /\ inbox'[p] \in Seq(AnyLine),
         inbox' = [p \in Player |-> inbox'[p]]
  PROVE  inbox' \in [Player -> Seq(AnyLine)] /\ \A p \in Player : PlayerInv(p)'
OBVIOUS

(* The phase of the game is in the state machine alone. *)
LEMMA PhaseKept ==
  ASSUME NEW p, (state = "ROUND" /\ pc = "event") <=> (state' = "ROUND" /\ pc' = "event")
  PROVE  Sight(p)'.phase = Sight(p).phase
BY DEF Sight

(* A handler gives every player an inbox. *)
LEMMA SendIsForAll ==
  ASSUME NEW STATE broadcast, NEW STATE answer, Send(broadcast, answer)
  PROVE  inbox' = [p \in Player |-> inbox'[p]]
<1> DEFINE f(p) == IF ended[p] = "no" THEN inbox[p] \o broadcast[p] \o News(p) \o answer[p]
                                      ELSE <<>>
<1>1. inbox' = [p \in Player |-> f(p)]
  BY DEF Send
<1> HIDE DEF f
<1> QED BY <1>1

-----------------------------------------------------------------------------
(* Steps of the server that no player hears of *)

(* A handler that says nothing, and leaves the players as they are *)
LEMMA Quiet ==
  ASSUME IInv, Send(Nothing, Nothing), ServerOnly, Players' = Players,
         \A p \in Player : cstate'[p] = cstate[p] /\ name'[p] = name[p],
         (state = "ROUND" /\ pc = "event") <=> (state' = "ROUND" /\ pc' = "event")
  PROVE  /\ ProgramType' /\ \A p \in Player : PlayerInv(p)'
         /\ deserters' # {} => Lost'
<1>1. ProgramType /\ \A p \in Player : PlayerInv(p)
  BY DEF IInv, SessionInv
<1>2. UNCHANGED <<round_counter, pending, place, ended, memory, deserters>>
  BY DEF ServerOnly, program
<1>3. NumbersKept /\ DesertersKept /\ (deserters' # {} => Lost')
  BY <1>2 DEF NumbersKept, DesertersKept, Settled, Lost, IInv, SessionInv
<1>4. ASSUME NEW p \in Player PROVE PlayerInv(p)' /\ inbox'[p] \in Seq(AnyLine)
  <2>1. ProgramKept(p)
    BY <1>2 DEF ProgramKept
  <2>2. inbox'[p] = IF ended[p] = "no" THEN inbox[p] ELSE <<>>
    BY <1>1, SendNothing, ToOthers
  <2>3. \A r \in Players' : name'[r] = name[r]
    BY PlayersKnown
  <2>4. Sight(p)'.phase = Sight(p).phase
    BY PhaseKept
  <2> QED BY <1>1, <1>2, <1>3, <2>1, <2>2, <2>3, <2>4, Bystander
<1>5. inbox' = [p \in Player |-> inbox'[p]]
  BY SendIsForAll
<1>6. inbox' \in [Player -> Seq(AnyLine)] /\ \A p \in Player : PlayerInv(p)'
  BY <1>4, <1>5, AllListen
<1> QED BY <1>1, <1>2, <1>3, <1>6 DEF ProgramType

(* The supervisor's steps and the loop's own are of that kind. *)
LEMMA QuietSteps ==
  ASSUME IInv,
         \/ TakeSeat \/ Supervise \/ Halt
         \/ /\ LobbyEnter \/ BeforeRoundEnter \/ BeforeRoundExit
            /\ Send(Nothing, Nothing) /\ ServerOnly
  PROVE  SessionInv'
<1> USE SupervisorAssumption
<1>0. /\ TypeOK /\ SupervisorInv /\ RoundInv /\ Supervisor \notin Player
      /\ Players \subseteq Player
  BY PlayersKnown DEF IInv, SessionInv, Player
<1>1. Send(Nothing, Nothing) /\ ServerOnly /\ round_counter' = round_counter
  BY DEF TakeSeat, Supervise, Halt, ServerOnly
<1>2. CASE TakeSeat
  <2>1. /\ Idle /\ UNCHANGED <<state, pc, next_state>>
        /\ cstate' \in {[cstate EXCEPT ![Supervisor] = "CONNECTED"],
                        [cstate EXCEPT ![Supervisor] = "SUPERVISOR"]}
        /\ name' \in {name, [name EXCEPT ![Supervisor] = 0]}
    BY <1>2 DEF TakeSeat, Connect, Auth, Allowed, GameUnchanged, fsm
  <2>2. \A p \in Player : cstate'[p] = cstate[p] /\ name'[p] = name[p]
    BY <1>0, <2>1 DEF TypeOK, Player
  <2>3. cstate'[Supervisor] \in {"CONNECTED", "SUPERVISOR"} /\ name'[Supervisor] \in {NoName, 0}
    BY <1>0, <2>1 DEF TypeOK, SupervisorInv
  <2>4. Players' = Players
    BY <1>0, <2>2, <2>3 DEF Players, PlayersIn, InState, Player, SupervisorInv
  <2>5. SupervisorInv' /\ RoundInv'
    BY <1>0, <1>1, <2>1, <2>3 DEF SupervisorInv, RoundInv
  <2> QED BY <1>1, <2>1, <2>2, <2>4, <2>5, Quiet DEF SessionInv
<1>3. CASE Supervise \/ Halt
  <2>1. /\ Idle /\ UNCHANGED <<state, pc, cstate, name>>
        /\ pc = "event"
    BY <1>3 DEF Supervise, Halt, Start, Step, Run, Pause, Allowed, CommandUnchanged, Idle
  <2>2. Players' = Players
    BY <2>1 DEF Players
  <2>3. SupervisorInv' /\ RoundInv'
    BY <1>0, <1>1, <2>1 DEF SupervisorInv, RoundInv
  <2> QED BY <1>1, <2>1, <2>2, <2>3, Quiet DEF SessionInv
<1>4. CASE LobbyEnter \/ BeforeRoundEnter \/ BeforeRoundExit
  <2>1. UNCHANGED <<cstate, name>>
    BY <1>4 DEF LobbyEnter, BeforeRoundEnter, BeforeRoundExit
  <2>2. Players' = Players
    BY <2>1 DEF Players
  <2>3. (state = "ROUND" /\ pc = "event") <=> (state' = "ROUND" /\ pc' = "event")
    BY <1>4 DEF LobbyEnter, BeforeRoundEnter, BeforeRoundExit, Entering, Exiting
  <2>4. RoundInv'
    BY <1>0, <1>1, <1>4 DEF LobbyEnter, BeforeRoundEnter, BeforeRoundExit, Entering, Exiting,
                            RoundInv
  <2>5. SupervisorInv'
    BY <1>0, <2>1 DEF SupervisorInv
  <2> QED BY <1>1, <2>1, <2>2, <2>3, <2>4, <2>5, Quiet DEF SessionInv
<1> QED BY <1>2, <1>3, <1>4

-----------------------------------------------------------------------------
(* Steps of the server that the players hear of *)

(* The clients listen; the rest is what the server does for itself. *)
LEMMA Heard ==
  ASSUME IInv, NEW STATE broadcast, NEW STATE answer, Send(broadcast, answer),
         UNCHANGED <<pending, place, ended, memory>>,
         deserters' \in {deserters, {}},
         \A p \in Player : PlayerInv(p)' /\ inbox'[p] \in Seq(AnyLine)
  PROVE  /\ ProgramType' /\ \A p \in Player : PlayerInv(p)'
         /\ deserters' # {} => Lost'
<1>1. inbox' = [p \in Player |-> inbox'[p]]
  BY SendIsForAll
<1>2. inbox' \in [Player -> Seq(AnyLine)] /\ \A p \in Player : PlayerInv(p)'
  BY <1>1, AllListen
<1>3. deserters' # {} => Lost'
  BY DEF Lost, IInv, SessionInv
<1> QED BY <1>2, <1>3 DEF ProgramType, IInv, SessionInv

(* Broadcasts and the news of a state are listened to, if they are a move. *)
LEMMA ListensToNews ==
  ASSUME IInv, NEW p \in Player, NEW STATE broadcast, NEW STATE answer,
         Send(broadcast, answer), ProgramKept(p), NumbersKept,
         broadcast[p] \in Seq(ServerLine), answer[p] = <<>>,
         cstate[p] \notin {"NONE", "IN_LOBBY"},
         cstate'[p] \notin {cstate[p], "NONE"}, cstate'[p] \in ClientState,
         Running(p) => Moved(Sight(p), Sight(p)',
                             Append(broadcast[p], Told(StateStr[cstate'[p]])))
  PROVE  PlayerInv(p)' /\ inbox'[p] \in Seq(AnyLine)
<1> DEFINE u == Append(broadcast[p], Told(StateStr[cstate'[p]]))
<1>1. ProgramType /\ PlayerInv(p)
  BY DEF IInv, SessionInv
<1>2. ended[p] = "no" => inbox'[p] = inbox[p] \o u
  BY <1>1, SendNews
<1>3. ended[p] # "no" => inbox'[p] = <<>>
  BY DEF Send
<1> HIDE DEF u
<1>4. Running(p) => Moved(Sight(p), Sight(p)', u)
  BY DEF u
<1>5. PICK w : w = u
  OBVIOUS
<1>6. Says(p, w)
  BY <1>2, <1>3, <1>4, <1>5 DEF Says, Aside
<1> QED BY <1>1, <1>6, Listens

(* lobby_on_exit: the ready ones hear that the game begins. *)
LEMMA GameBeginsStep ==
  ASSUME IInv, GameBegins, TypeOK', NamesIdentify'
  PROVE  SessionInv'
<1>0. /\ TypeOK /\ SupervisorInv /\ RoundInv /\ ProgramType /\ Players \subseteq Player
      /\ \A p \in Player : PlayerInv(p)
  BY PlayersKnown DEF IInv, SessionInv
<1>1. /\ state = "LOBBY" /\ pc = "event" /\ pc' = "exited" /\ state' = "LOBBY"
      /\ cstate' = [c \in Client |-> IF c \in Ready THEN "IN_GAME_WAIT" ELSE cstate[c]]
      /\ name' = name /\ round_counter' = 0 /\ deserters' = {}
      /\ UNCHANGED <<pending, place, ended, memory>>
      /\ Send(Nothing, Nothing)
  BY DEF GameBegins, LobbyExit, Exiting, program
<1>2. Players = {}
  BY <1>1 DEF IInv, CountInv, InGame
<1>3. NumbersKept
  BY <1>0, <1>1 DEF NumbersKept, Settled, Unnamed, Player, Lost
<1>4. ASSUME NEW p \in Player PROVE PlayerInv(p)' /\ inbox'[p] \in Seq(AnyLine)
  <2>1. ProgramKept(p) /\ p \in Client
    BY <1>1 DEF ProgramKept, Player
  <2>2. CASE p \in Ready
    <3>1. cstate[p] = "IN_LOBBY_ACK" /\ cstate'[p] = "IN_GAME_WAIT"
      BY <1>1, <2>1, <2>2 DEF Ready, InState
    <3>2. Keeps(Sight(p), Sight(p)')
      BY <1>3, TakenKept
    <3>3. Sight(p)'.playing \subseteq Name
      <4> SUFFICES ASSUME NEW q \in Players' PROVE name'[q] \in Name
        BY DEF Sight
      <4>1. q \in Client /\ cstate'[q] \in {"IN_GAME", "IN_GAME_WAIT"}
        BY DEF Players, PlayersIn, InState
      <4> QED BY <4>1 DEF TypeOK, NamesIdentify
    <3>4. <<Told("game")>> = Append(<<>>, Told("game")) /\ <<>> \in Seq(ServerLine)
      BY EmptySeq
    <3>5. Begins(Sight(p), Sight(p)', <<Told("game")>>)
      BY <1>1, <3>1, <3>2, <3>3 DEF Begins, Sight
    <3>6. StateStr[cstate'[p]] = "game"
      BY <3>1 DEF StateStr
    <3>7. Nothing[p] = <<>>
      BY ToOthers
    <3>8. Moved(Sight(p), Sight(p)', Append(Nothing[p], Told(StateStr[cstate'[p]])))
      BY <3>4, <3>5, <3>6, <3>7 DEF Moved
    <3> QED BY <1>1, <1>3, <2>1, <3>1, <3>4, <3>7, <3>8, ListensToNews
  <2>3. CASE p \notin Ready
    <3>1. cstate'[p] = cstate[p]
      BY <1>1, <2>1, <2>3
    <3>2. inbox'[p] = IF ended[p] = "no" THEN inbox[p] ELSE <<>>
      BY <1>0, <1>1, <3>1, SendNothing, ToOthers
    <3> QED BY <1>0, <1>2, <1>3, <2>1, <3>1, <3>2, Bystander
  <2> QED BY <2>2, <2>3
<1>5. ProgramType' /\ (\A p \in Player : PlayerInv(p)') /\ (deserters' # {} => Lost')
  BY <1>1, <1>4, Heard
<1>6. SupervisorInv' /\ RoundInv'
  BY <1>0, <1>1, SupervisorAssumption, RoundsAssumption
     DEF SupervisorInv, RoundInv, Ready, InState
<1> QED BY <1>5, <1>6 DEF SessionInv

(* round_on_enter: the players hear of the market, then that it is their turn. *)
LEMMA RoundBeginsStep ==
  ASSUME IInv, RoundBegins
  PROVE  SessionInv'
<1>0. /\ TypeOK /\ SupervisorInv /\ RoundInv /\ ProgramType /\ Players \subseteq Player
      /\ \A p \in Player : PlayerInv(p)
  BY PlayersKnown DEF IInv, SessionInv
<1>1. /\ pc = "exited" /\ next_state = "ROUND"
      /\ cstate' = [c \in Client |->
                      IF cstate[c] = "IN_GAME_WAIT" THEN "IN_GAME" ELSE cstate[c]]
      /\ name' = name /\ round_counter' = round_counter
      /\ UNCHANGED <<pending, place, ended, memory, deserters>>
      /\ Send(ToPlayers(<<Market>>), Nothing)
  BY DEF RoundBegins, RoundEnter, Entering, ServerOnly, program
<1>2. Active = {} /\ Players' = Players
  BY <1>0, <1>1 DEF IInv, TurnInv, InRound, Players, PlayersIn, InState
<1>3. NumbersKept /\ DesertersKept
  BY <1>0, <1>1, <1>2 DEF NumbersKept, DesertersKept, Settled, Unnamed, Player, Lost
<1>4. ASSUME NEW p \in Player PROVE PlayerInv(p)' /\ inbox'[p] \in Seq(AnyLine)
  <2>1. ProgramKept(p) /\ p \in Client
    BY <1>1 DEF ProgramKept, Player
  <2>2. CASE cstate[p] = "IN_GAME_WAIT"
    <3>1. p \in Players /\ cstate'[p] = "IN_GAME"
      BY <1>1, <2>1, <2>2 DEF Players, PlayersIn, InState
    <3>2. Keeps(Sight(p), Sight(p)')
      BY <1>3, TakenKept
    <3>3. Leaves(Sight(p), Sight(p)', Sight(p).playing)
      <4>1. Players' \subseteq Players /\ \A r \in Players' : name'[r] = name[r]
        BY <1>1, <1>2
      <4> QED BY <1>3, <4>1, OnlyDesertersLeave
    <3>4. round_counter \in Nat /\ Market \in ServerLine /\ <<Market>> \in Seq(ServerLine)
      <4>1. round_counter \in Nat
        BY <1>0, RoundsAssumption DEF RoundInv
      <4>2. Market \in ServerLine
        BY <4>1, LineTypes DEF Market
      <4> QED BY <4>1, <4>2, TwoMore, EmptySeq
    <3>5. Opens(Sight(p), Sight(p)', Append(<<Market>>, Told("game_active")))
      BY <1>1, <2>2, <3>1, <3>2, <3>3, <3>4 DEF Opens, Sight, Market
    <3>6. StateStr[cstate'[p]] = "game_active"
      BY <3>1 DEF StateStr
    <3>7. ToPlayers(<<Market>>)[p] = <<Market>> /\ Nothing[p] = <<>>
      BY <3>1, ToOthers
    <3>8. Moved(Sight(p), Sight(p)',
                Append(ToPlayers(<<Market>>)[p], Told(StateStr[cstate'[p]])))
      BY <3>5, <3>6, <3>7 DEF Moved
    <3> QED BY <1>1, <1>3, <2>1, <2>2, <3>1, <3>4, <3>7, <3>8, ListensToNews
  <2>3. CASE cstate[p] # "IN_GAME_WAIT"
    <3>1. cstate'[p] = cstate[p] /\ p \notin Players
      BY <1>1, <1>2, <2>1, <2>3 DEF Players, PlayersIn, Active, InState
    <3>2. inbox'[p] = IF ended[p] = "no" THEN inbox[p] ELSE <<>>
      BY <1>0, <1>1, <3>1, SendNothing, ToOthers
    <3> QED BY <1>0, <1>3, <2>1, <3>1, <3>2, Bystander
  <2> QED BY <2>2, <2>3
<1>5. ProgramType' /\ (\A p \in Player : PlayerInv(p)') /\ (deserters' # {} => Lost')
  BY <1>1, <1>4, Heard
<1>6. SupervisorInv' /\ RoundInv'
  BY <1>0, <1>1, SupervisorAssumption DEF SupervisorInv, RoundInv
<1> QED BY <1>5, <1>6 DEF SessionInv

(* round_on_exit: finances and bankrupts, and the lobby for those who are out. *)
LEMMA RoundClosesStep ==
  ASSUME IInv, NEW bankrupt \in SUBSET Players, RoundCloses(bankrupt), TypeOK'
  PROVE  SessionInv'
<1> DEFINE cs == Removed(cstate, bankrupt)
           n  == Minus(n_players, Cardinality(bankrupt))
           B  == {name[c] : c \in bankrupt}
           broadcast == ToPlayers(<<Finance>> \o Line(bankrupt # {}, Bankrupt(bankrupt)))
<1>0. /\ TypeOK /\ SupervisorInv /\ RoundInv /\ ProgramType /\ Players \subseteq Player
      /\ \A p \in Player : PlayerInv(p)
  BY PlayersKnown DEF IInv, SessionInv
<1>1. /\ state = "ROUND" /\ pc = "event" /\ loop_finished
      /\ pc' = "exited" /\ state' = "ROUND" /\ name' = name
      /\ CheckPlayers(cs, n)
      /\ round_counter' = round_counter + 1
      /\ UNCHANGED <<pending, place, ended, memory, deserters>>
      /\ Send(broadcast, Nothing)
      /\ round_counter + 1 >= MaxRounds => Cardinality(Players \ bankrupt) < 2
  BY DEF RoundCloses, RoundExit, Exiting, program
<1>2. Active = {} /\ Players \in SUBSET Client
  BY <1>1, ActiveArePlayers DEF IInv, TurnInv, InRound
<1>3. /\ cs \in [Client -> ClientState] /\ PlayersIn(cs) = Players \ bankrupt
      /\ \A c \in Client : cs[c] = IF c \in bankrupt THEN "IN_LOBBY" ELSE cstate[c]
  BY <1>0 DEF TypeOK, Removed, Players, PlayersIn, InState
<1>4. n \in CountT /\ n = Cardinality(PlayersIn(cs))
  BY <1>1, <1>2, <1>3, CountKept, ClientSets DEF IInv, CountInv, InGame
<1> HIDE DEF cs, n
<1>5. \A c \in Client : \/ cstate'[c] = cs[c]
                        \/ c \in PlayersIn(cs) /\ cstate'[c] = "IN_LOBBY"
  BY <1>1, <1>3, <1>4, CheckPlayersMoves DEF PlayersIn, InState
<1>6. \/ n >= 2 /\ Players' = PlayersIn(cs) /\ NoSwitch
      \/ n < 2 /\ Players' = {} /\ SwitchState("LOBBY")
  BY <1>1, <1>3, <1>4, CheckPlayersCount
<1>7. NumbersKept
  BY <1>0, <1>1, <1>3, <1>5 DEF NumbersKept, Settled, Unnamed, Player, PlayersIn, InState, Lost
<1>8. /\ round_counter \in Nat /\ round_counter < MaxRounds
      /\ round_counter + 1 \in Nat
  BY <1>0, <1>1, RoundsAssumption DEF RoundInv
<1>9. B \in SUBSET Name /\ (B = {} <=> bankrupt = {})
  BY PlayersKnown
<1>10. ASSUME NEW p \in Player PROVE PlayerInv(p)' /\ inbox'[p] \in Seq(AnyLine)
  <2>1. ProgramKept(p) /\ p \in Client
    BY <1>1 DEF ProgramKept, Player
  <2>2. CASE p \in Players
    <3> DEFINE g == Sight(p)
               h == Sight(p)'
    <3>1. cstate[p] = "IN_GAME_WAIT"
      BY <1>2, <2>1, <2>2 DEF Active, Players, PlayersIn, InState
    <3>2. /\ g.c = "IN_GAME_WAIT" /\ g.round = round_counter /\ g.phase = "round"
          /\ h.c = cstate'[p] /\ h.round = round_counter + 1 /\ h.phase = "between"
          /\ Keeps(g, h) /\ B \in SUBSET g.playing
      BY <1>1, <1>7, <3>1, TakenKept DEF Sight
    <3>3. broadcast[p] = Closing(g, B) /\ broadcast[p] \in Seq(ServerLine)
      <4>1. broadcast[p] = <<Finance>> \o Line(bankrupt # {}, Bankrupt(bankrupt))
        BY <2>2, ToOthers
      <4>2. Finance \in ServerLine /\ Bankrupt(bankrupt) \in ServerLine
        BY <1>8, <1>9, LineTypes DEF Finance, Bankrupt
      <4>3. Closing(g, B) = IF bankrupt = {} THEN <<Finance>>
                                             ELSE Append(<<Finance>>, Bankrupt(bankrupt))
        BY <1>9, <3>2 DEF Closing, Finance, Bankrupt
      <4> HIDE DEF broadcast, g, B
      <4>4. <<Finance>> \in Seq(ServerLine)
        BY <4>2, TwoMore, EmptySeq
      <4>5. CASE bankrupt = {}
        <5>1. broadcast[p] = <<Finance>> \o <<>>
          BY <4>1, <4>5 DEF Line
        <5> QED BY <4>3, <4>4, <4>5, <5>1, ConcatEmptySeq
      <4>6. CASE bankrupt # {}
        <5>1. broadcast[p] = <<Finance>> \o <<Bankrupt(bankrupt)>>
          BY <4>1, <4>6 DEF Line
        <5>2. <<Finance>> \o <<Bankrupt(bankrupt)>> = Append(<<Finance>>, Bankrupt(bankrupt))
          BY <4>2, <4>4, TwoMore
        <5>3. Append(<<Finance>>, Bankrupt(bankrupt)) \in Seq(ServerLine)
          BY <4>2, <4>4, AppendProperties
        <5> QED BY <4>3, <4>6, <5>1, <5>2, <5>3
      <4> QED BY <4>5, <4>6
    <3>4. CASE cstate'[p] = "IN_GAME_WAIT"
      <4>1. p \in Players'
        BY <2>1, <3>4 DEF Players, PlayersIn, InState
      <4>2. Players' = Players \ bankrupt
        BY <1>3, <1>6, <4>1
      <4>3. Leaves(g, h, g.playing \ B)
        <5>1. h.playing = {name[r] : r \in Players \ bankrupt}
          BY <1>1, <4>2 DEF Sight
        <5>2. ASSUME NEW q \in Players \ bankrupt PROVE name[q] \notin B
          <6> SUFFICES ASSUME NEW r \in bankrupt, name[q] = name[r] PROVE FALSE
            OBVIOUS
          <6> QED BY <1>2, PlayersKnown, NamesAreNumbers
        <5>3. h.gone = g.gone /\ g.playing = {name[r] : r \in Players}
          BY <1>1 DEF Sight
        <5>4. g.playing \ B \subseteq {name[r] : r \in Players \ bankrupt}
          BY <5>3
        <5> HIDE DEF B, g, h
        <5> QED BY <5>1, <5>2, <5>3, <5>4 DEF Leaves
      <4> HIDE DEF g, h, B, broadcast
      <4>5. Closes(g, h, Closing(g, B), B)
        BY <1>8, <3>2, <3>4, <4>3 DEF Closes
      <4>6. Moved(g, h, broadcast[p])
        BY <1>9, <3>3, <4>5 DEF Moved
      <4>7. ended[p] = "no" => inbox'[p] = inbox[p] \o broadcast[p]
        BY <1>0, <1>1, <3>1, <3>3, <3>4, SendData, ToOthers
      <4>8. ended[p] # "no" => inbox'[p] = <<>>
        BY <1>1 DEF Send
      <4>9. PICK w : w = broadcast[p]
        OBVIOUS
      <4>10. Says(p, w)
        BY <2>1, <3>1, <4>6, <4>7, <4>8, <4>9 DEF Says, g, h, Aside
      <4> QED BY <1>0, <1>7, <4>10, Listens
    <3>5. CASE cstate'[p] = "IN_LOBBY"
      <4> HIDE DEF g, h, B, broadcast
      <4>1. Closes(g, h, Append(Closing(g, B), Told("lobby")), B)
        BY <1>8, <3>2, <3>5 DEF Closes
      <4>2. StateStr[cstate'[p]] = "lobby"
        BY <3>5 DEF StateStr
      <4>3. Moved(g, h, Append(broadcast[p], Told(StateStr[cstate'[p]])))
        BY <1>9, <3>3, <4>1, <4>2 DEF Moved
      <4> QED BY <1>1, <1>7, <2>1, <3>1, <3>3, <3>5, <4>3, ListensToNews, ToOthers DEF g, h
    <3> QED BY <1>3, <1>5, <2>1, <3>1, <3>4, <3>5
  <2>3. CASE p \notin Players
    <3>1. cstate'[p] = cstate[p]
      BY <1>3, <1>5, <2>1, <2>3
    <3>2. inbox'[p] = IF ended[p] = "no" THEN inbox[p] ELSE <<>>
      BY <1>0, <1>1, <2>3, <3>1, SendNothing, ToOthers
    <3> QED BY <1>0, <1>7, <2>1, <2>3, <3>1, <3>2, Bystander
  <2> QED BY <2>2, <2>3
<1>11. ProgramType' /\ (\A p \in Player : PlayerInv(p)') /\ (deserters' # {} => Lost')
  BY <1>1, <1>10, Heard
<1>12. SupervisorInv'
  BY <1>0, <1>1, <1>3, <1>5, SupervisorAssumption DEF SupervisorInv, PlayersIn, InState, Player
<1>13. RoundInv'
  <2>1. round_counter + 1 = MaxRounds => n < 2
    BY <1>1, <1>3, <1>4
  <2>2. n \in Nat
    BY <1>4, UIntModPositive DEF CountT
  <2>3. round_counter + 1 = MaxRounds => next_state' = "LOBBY"
    BY <1>6, <2>1, <2>2 DEF SwitchState
  <2>4. round_counter + 1 \in 0 .. MaxRounds
    BY <1>8, RoundsAssumption
  <2>5. round_counter + 1 < MaxRounds \/ round_counter + 1 = MaxRounds
    BY <1>8, RoundsAssumption
  <2> QED BY <1>1, <2>3, <2>4, <2>5 DEF RoundInv
<1> QED BY <1>11, <1>12, <1>13 DEF SessionInv

(* EV_DISCONNECT: the players stay in the game, or the last of them has won it. *)
LEMMA DropStep ==
  ASSUME IInv, NEW q \in Player, Drop(q), TypeOK'
  PROVE  SessionInv'
<1> DEFINE leaver == IF name[q] # NoName THEN {q} \cap Players ELSE {}
           left   == [Removed(cstate, leaver) EXCEPT ![q] = "NONE"]
           n      == Minus(n_players, Cardinality(leaver))
<1>0. /\ TypeOK /\ SupervisorInv /\ RoundInv /\ ProgramType /\ Players \subseteq Player
      /\ \A p \in Player : PlayerInv(p)
  BY PlayersKnown DEF IInv, SessionInv
<1>1. /\ Idle /\ UNCHANGED <<state, pc>>
      /\ ended[q] # "no" /\ cstate[q] # "NONE"
      /\ name' = [name EXCEPT ![q] = NoName]
      /\ deserters' = deserters \cup {name[r] : r \in Players \cap {q}}
      /\ UNCHANGED <<round_counter, pending, place, ended, memory>>
      /\ Send(Nothing, Nothing)
      /\ IF state \in {"ROUND", "BEFORE_ROUND"} THEN CheckPlayers(left, n)
                                                ELSE cstate' = left
  BY DEF Drop, Disconnect, ServerOnly, program
<1>2. leaver = {q} \cap Players /\ Players \in SUBSET Client /\ q \in Client
  BY PlayersKnown, ActiveArePlayers DEF Unnamed, Player
<1>3. /\ left \in [Client -> ClientState] /\ PlayersIn(left) = Players \ {q}
      /\ \A c \in Client : left[c] = IF c = q THEN "NONE" ELSE cstate[c]
  BY <1>0, <1>2 DEF TypeOK, Removed, Players, PlayersIn, InState
<1>4. n \in CountT /\ (state # "LOBBY" => n = Cardinality(PlayersIn(left)))
  <2>1. PlayersIn(left) = Players \ leaver /\ leaver \in SUBSET Players
    BY <1>2, <1>3
  <2>2. n \in CountT
    BY <1>0, <1>2, ClientSets, CountInt, MinusType DEF TypeOK
  <2> QED BY <1>2, <2>1, <2>2, CountKept DEF IInv, CountInv, InGame
<1> HIDE DEF left, n
<1>5. \A c \in Client : \/ cstate'[c] = left[c]
                        \/ c \in PlayersIn(left) /\ cstate'[c] = "IN_LOBBY"
  BY <1>1, <1>3, <1>4, CheckPlayersMoves DEF PlayersIn, InState
<1>6. Players' = PlayersIn(left) \/ Players' = {}
  <2>1. CASE state \in {"ROUND", "BEFORE_ROUND"}
    BY <1>1, <1>3, <1>4, <2>1, CheckPlayersCount
  <2>2. CASE state \notin {"ROUND", "BEFORE_ROUND"}
    BY <1>1, <2>2 DEF Players
  <2> QED BY <2>1, <2>2
<1>7. NumbersKept
  BY <1>1, <1>3, <1>5 DEF NumbersKept, Settled, Unnamed, Player, PlayersIn, InState, Lost
<1>7a. q \in Players => Lost /\ Lost'
  <2>1. q \in Players => cstate[q] \notin {"NONE", "IN_LOBBY"}
    BY DEF Players, PlayersIn, InState
  <2>2. q \in Players => Lost
    BY <1>0, <1>1, <2>1 DEF PlayerInv, Aside
  <2> QED BY <1>7, <2>2 DEF NumbersKept
<1>8. ASSUME NEW p \in Player PROVE PlayerInv(p)' /\ inbox'[p] \in Seq(AnyLine)
  <2>1. CASE p = q
    <3>1. /\ inbox'[p] = <<>> /\ name'[p] = NoName
          /\ place'[p] = place[p] /\ ended'[p] = ended[p] /\ memory'[p] = memory[p]
      BY <1>0, <1>1, <2>1 DEF Send, TypeOK, Player
    <3>2. ~Running(p)
      BY <1>0, <1>1, <2>1 DEF PlayerInv
    <3>3. Sight(p).taken \subseteq Sight(p)'.taken
      BY <1>7, TakenKept
    <3>4. PlayerInv(p)
      BY <1>0
    <3>5. Lost' \/ Aside(p)'
      <4>1. Lost => Lost'
        BY <1>7 DEF NumbersKept
      <4>2. cstate'[p] = "NONE"
        BY <1>2, <1>3, <1>5, <2>1 DEF PlayersIn, InState
      <4> QED BY <1>1, <2>1, <3>1, <3>4, <4>1, <4>2 DEF PlayerInv, Aside
    <3> QED BY <1>1, <2>1, <3>1, <3>2, <3>3, <3>4, <3>5, EmptySeq DEF PlayerInv, Running
  <2>2. CASE p # q
    <3>1. ProgramKept(p) /\ p \in Client /\ name'[p] = name[p]
      BY <1>0, <1>1, <2>2 DEF ProgramKept, TypeOK, Player
    <3>2. CASE cstate'[p] = cstate[p]
      <4>1. inbox'[p] = IF ended[p] = "no" THEN inbox[p] ELSE <<>>
        BY <1>0, <1>1, <3>2, SendNothing, ToOthers
      <4>2. ASSUME p \in Players
            PROVE  /\ Players' = Players \ {q} /\ DesertersKept
                   /\ \A r \in Players' : name'[r] = name[r]
        <5>1. p \in Players'
          BY <3>1, <3>2, <4>2 DEF Players, PlayersIn, InState
        <5>2. Players' = Players \ {q}
          BY <1>3, <1>6, <5>1
        <5>3. \A r \in Players' : name'[r] = name[r]
          BY <1>0, <1>1, <1>2, <5>2 DEF TypeOK
        <5>4. DesertersKept
          BY <1>1, <5>2 DEF DesertersKept
        <5> QED BY <5>2, <5>3, <5>4
      <4>3. Sight(p)'.phase = Sight(p).phase
        BY <1>1, PhaseKept
      <4> QED BY <1>0, <1>1, <1>7, <3>1, <3>2, <4>1, <4>2, <4>3, Bystander
    <3>3. CASE cstate'[p] # cstate[p]
      <4>1. cstate'[p] = "IN_LOBBY" /\ cstate[p] \in {"IN_GAME", "IN_GAME_WAIT"}
        BY <1>3, <1>5, <2>2, <3>1, <3>3 DEF PlayersIn, InState
      <4>2. Wins(Sight(p), Sight(p)', <<Told("lobby")>>)
        <5>1. Lost'
          <6>1. q \in Players
            <7> SUFFICES ASSUME q \notin Players PROVE FALSE
              OBVIOUS
            <7>1. state \in {"ROUND", "BEFORE_ROUND"}
              BY <1>1, <1>3, <2>2, <3>1, <3>3
            <7>2. Cardinality(Players) >= 2 /\ PlayersIn(left) = Players
              BY <1>1, <1>3, <7>1 DEF IInv, CountInv, InGame
            <7>3. Players' = PlayersIn(left)
              <8>1. CheckPlayers(left, n) /\ n \in CountT /\ n = Cardinality(PlayersIn(left))
                BY <1>1, <1>4, <7>1
              <8>2. n \in Nat /\ ~(n < 2)
                <9>1. n \in Nat
                  BY <8>1, UIntModAssumption DEF CountT
                <9>2. n >= 2
                  BY <7>2, <8>1
                <9> QED BY <9>1, <9>2
              <8> QED BY <1>3, <8>1, <8>2, CheckPlayersCount
            <7>4. p \in Players /\ p \notin Players'
              BY <3>1, <4>1 DEF Players, PlayersIn, InState
            <7> QED BY <7>2, <7>3, <7>4
          <6> QED BY <1>7a, <6>1
        <5>2. Sight(p)'.lost
          BY <5>1 DEF Sight
        <5>3. Keeps(Sight(p), Sight(p)')
          BY <1>7, TakenKept
        <5> QED BY <4>1, <5>2, <5>3 DEF Wins, Sight
      <4>3. /\ StateStr[cstate'[p]] = "lobby" /\ Nothing[p] = <<>>
            /\ <<Told("lobby")>> = Append(<<>>, Told("lobby")) /\ <<>> \in Seq(ServerLine)
        BY <4>1, ToOthers, EmptySeq DEF StateStr
      <4>4. Moved(Sight(p), Sight(p)', Append(Nothing[p], Told(StateStr[cstate'[p]])))
        BY <4>2, <4>3 DEF Moved
      <4> QED BY <1>1, <1>7, <3>1, <4>1, <4>3, <4>4, ListensToNews
    <3> QED BY <3>2, <3>3
  <2> QED BY <2>1, <2>2
<1>9. ProgramType' /\ (\A p \in Player : PlayerInv(p)') /\ (deserters' # {} => Lost')
  <2>1. inbox' = [p \in Player |-> inbox'[p]]
    BY <1>1, SendIsForAll
  <2>2. inbox' \in [Player -> Seq(AnyLine)] /\ \A p \in Player : PlayerInv(p)'
    BY <1>8, <2>1, AllListen
  <2>3. deserters' # {} => Lost'
    BY <1>1, <1>7, <1>7a DEF NumbersKept, IInv, SessionInv
  <2> QED BY <1>0, <1>1, <2>2, <2>3 DEF ProgramType
<1>10. SupervisorInv' /\ RoundInv'
  <2>1. Supervisor # q /\ Supervisor \in Client
    BY SupervisorAssumption DEF Player
  <2>2. cstate'[Supervisor] = cstate[Supervisor] /\ name'[Supervisor] = name[Supervisor]
    BY <1>0, <1>1, <1>3, <1>5, <2>1 DEF SupervisorInv, PlayersIn, InState, TypeOK
  <2> QED BY <1>0, <1>1, <2>2 DEF SupervisorInv, RoundInv, Idle
<1> QED BY <1>9, <1>10 DEF SessionInv

-----------------------------------------------------------------------------
(* A client comes, and is answered *)

(* What the server does for one client p, the others do not notice. *)
LEMMA OthersUnserved ==
  ASSUME IInv, NEW p \in Player, NEW STATE s, Send(Nothing, To(p, s)),
         UNCHANGED <<state, pc, round_counter, ended, memory, deserters>>, Players' = Players,
         \A q \in Player \ {p} : /\ cstate'[q] = cstate[q] /\ name'[q] = name[q]
                                 /\ place'[q] = place[q] /\ pending'[q] = pending[q],
         p \in Players => name'[p] = name[p],
         cstate[p] \notin Unnamed => cstate'[p] \notin Unnamed
  PROVE  /\ NumbersKept /\ (deserters' # {} => Lost')
         /\ \A q \in Player \ {p} : PlayerInv(q)' /\ inbox'[q] \in Seq(AnyLine)
<1>1. ProgramType /\ (\A q \in Player : PlayerInv(q)) /\ Players \subseteq Player
  BY PlayersKnown DEF IInv, SessionInv
<1>2. NumbersKept
  <2>0. Lost => Lost'
    BY DEF Lost
  <2> SUFFICES ASSUME NEW r \in Player, Settled(r)
               PROVE  Settled(r)' /\ memory'[r].number = memory[r].number
    BY <2>0 DEF NumbersKept
  <2>1. cstate[r] \notin Unnamed => cstate'[r] \notin Unnamed
    OBVIOUS
  <2> QED BY <2>1 DEF Settled
<1>3. DesertersKept /\ (deserters' # {} => Lost')
  BY <1>2 DEF DesertersKept, NumbersKept, IInv, SessionInv
<1>4. ASSUME NEW q \in Player \ {p}
      PROVE  PlayerInv(q)' /\ inbox'[q] \in Seq(AnyLine)
  <2>1. ProgramKept(q)
    BY DEF ProgramKept
  <2>2. inbox'[q] = IF ended[q] = "no" THEN inbox[q] ELSE <<>>
    BY <1>1, SendNothing, ToOthers
  <2>3. \A r \in Players' : name'[r] = name[r]
    BY <1>1
  <2>4. Sight(q)'.phase = Sight(q).phase
    BY PhaseKept
  <2> QED BY <1>1, <1>2, <1>3, <2>1, <2>2, <2>3, <2>4, Bystander
<1> QED BY <1>2, <1>3, <1>4

(* EV_CONNECT: a process connects and is asked to log in. *)
LEMMA LaunchStep ==
  ASSUME IInv, NEW p \in Player, Launch(p)
  PROVE  SessionInv'
<1>0. /\ TypeOK /\ SupervisorInv /\ RoundInv /\ ProgramType /\ Players \subseteq Player
      /\ PlayerInv(p) /\ p \in Client
  BY PlayersKnown DEF IInv, SessionInv, Player
<1>1. /\ UNCHANGED <<state, pc, next_state, round_counter, ended, memory, pending, name,
                      deserters>>
      /\ cstate[p] = "NONE" /\ cstate' = [cstate EXCEPT ![p] = "CONNECTED"]
      /\ place[p] = "off" /\ ended[p] = "no" /\ place' = [place EXCEPT ![p] = "auth"]
      /\ Send(Nothing, Nothing)
  BY DEF Launch, Connect, GameUnchanged, fsm
<1>2. Send(Nothing, To(p, <<>>))
  <2>1. To(p, <<>>) = Nothing
    BY DEF To, Nothing
  <2> QED BY <1>1, <2>1
<1>3. Players' = Players /\ p \notin Players
  BY <1>0, <1>1 DEF TypeOK, Players, PlayersIn, InState
<1>4. ASSUME NEW q \in Player \ {p}
      PROVE  /\ cstate'[q] = cstate[q] /\ name'[q] = name[q]
             /\ place'[q] = place[q] /\ pending'[q] = pending[q]
  BY <1>0, <1>1 DEF TypeOK, ProgramType, Player
<1>5. /\ NumbersKept /\ (deserters' # {} => Lost')
      /\ \A q \in Player \ {p} : PlayerInv(q)' /\ inbox'[q] \in Seq(AnyLine)
  BY <1>1, <1>2, <1>3, <1>4, OthersUnserved DEF Unnamed
<1>6. /\ cstate'[p] = "CONNECTED" /\ place'[p] = "auth" /\ pending[p] = "none"
      /\ inbox[p] = <<>> /\ memory[p] = NewMemory
  BY <1>0, <1>1 DEF PlayerInv, Running, TypeOK, ProgramType
<1>7. inbox'[p] = <<Told("auth")>> /\ inbox'[p] \in Seq(ServerLine)
  <2>1. StateStr[cstate'[p]] = "auth" /\ Nothing[p] = <<>> /\ <<>> \in Seq(ServerLine)
    BY <1>6, ToOthers, EmptySeq DEF StateStr
  <2>2. /\ inbox'[p] = <<>> \o Append(<<>>, Told("auth"))
        /\ Told("auth") \in ServerLine
    <3>1. /\ Nothing[p] \in Seq(ServerLine) /\ cstate'[p] \notin {cstate[p], "NONE"}
          /\ cstate'[p] \in ClientState
      BY <1>1, <1>6, <2>1
    <3>2. /\ inbox'[p] = inbox[p] \o Append(Nothing[p], Told(StateStr[cstate'[p]]))
          /\ Told(StateStr[cstate'[p]]) \in ServerLine
      BY <1>0, <1>1, <2>1, <3>1, SendNews
    <3> QED BY <1>6, <2>1, <3>2
  <2>3. <<Told("auth")>> = Append(<<>>, Told("auth"))
    OBVIOUS
  <2>4. <<Told("auth")>> \in Seq(ServerLine)
    BY <2>1, <2>2, TwoMore
  <2> QED BY <2>2, <2>3, <2>4, ConcatEmptySeq
<1>8. Unanswered(p)'
  <2>1. memory'[p].m_eventQueue \o inbox'[p] = <<Told("auth")>>
    BY <1>1, <1>6, <1>7, ConcatEmptySeq DEF NewMemory
  <2>2. Story(Sight(p)', "auth", Info(p)', memory'[p].constants, <<Told("auth")>>)
    BY <1>6 DEF Story, Sight
  <2> QED BY <1>1, <1>6, <1>7, <2>1, <2>2, PlaceSets DEF Unanswered
<1>9. PlayerInv(p)'
  <2>1. Sight(p).taken \subseteq Sight(p)'.taken
    BY <1>5, TakenKept
  <2> QED BY <1>0, <1>1, <1>6, <1>8, <2>1 DEF PlayerInv, Running
<1>10. inbox'[p] \in Seq(AnyLine)
  BY <1>7, LinesAreLines
<1>11. inbox' = [q \in Player |-> inbox'[q]]
  BY <1>1, SendIsForAll
<1>12. \A q \in Player : PlayerInv(q)' /\ inbox'[q] \in Seq(AnyLine)
  BY <1>5, <1>9, <1>10
<1>13. inbox' \in [Player -> Seq(AnyLine)] /\ \A q \in Player : PlayerInv(q)'
  BY <1>11, <1>12, AllListen
<1>14. ProgramType'
  BY <1>0, <1>1, <1>13, PlaceSets DEF ProgramType
<1>15. SupervisorInv' /\ RoundInv'
  BY <1>0, <1>1, SupervisorAssumption DEF SupervisorInv, RoundInv, Player, TypeOK
<1> QED BY <1>5, <1>13, <1>14, <1>15 DEF SessionInv

(* The answer is put behind what was on the wire. *)
LEMMA AnsweredNow ==
  ASSUME IInv, NEW p \in Player, place'[p] = place[p], memory'[p] = memory[p],
         pending'[p] = "none", NEW w \in Seq(ServerLine), NEW a \in AnswerLine,
         inbox'[p] = w \o <<a>>,
         Answer(Sight(p)', place[p], memory[p].number, Info(p), memory[p].constants,
                a, memory[p].m_eventQueue \o w)
  PROVE  Answered(p)' /\ inbox'[p] \in Seq(AnyLine)
<1> DEFINE r == w \o <<a>>
           i == Len(w) + 1
<1>1. i \in 1 .. Len(r) /\ r[i] = a /\ Without(r, i) = w
  BY AnswerLast
<1>2. Info(p)' = Info(p)
  BY DEF Info
<1>3. r \in Seq(AnyLine)
  <2>1. w \in Seq(AnyLine) /\ a \in AnyLine
    BY LinesAreLines
  <2>2. <<a>> \in Seq(AnyLine)
    BY <2>1, TwoMore
  <2> QED BY <2>1, <2>2, ConcatTwice
<1> HIDE DEF r, i
<1>4. inbox'[p] = r
  BY DEF r
<1>5. Answered(p)'
  BY <1>1, <1>2, <1>4 DEF Answered
<1> QED BY <1>3, <1>4, <1>5

(* The first list of the game's names is right. *)
LEMMA ComingNamed ==
  ASSUME NEW g, NEW v \in Seq(ServerLine), Coming(g, NewInfo, Everybody, v)
  PROVE  Coming(g, NewInfo, g.playing, v)
<1> PICK n \in 0 .. Len(v), k \in InfoType :
      /\ Learns(NewInfo, v, n, k)
      /\ \/ n = Len(v) /\ Tells(g, k, Everybody)
         \/ n + 1 = Len(v) /\ v[n + 1] = Told("game_active") /\ TurnInfo(g, k, Everybody)
         \/ n + 1 = Len(v) /\ v[n + 1] = Told("lobby") /\ g.c = "IN_LOBBY"
         \/ /\ n + 2 = Len(v) /\ g.c = "IN_LOBBY" /\ g.lost
            /\ v[n + 1] = Told("game_active") /\ v[n + 2] = Told("lobby")
  BY DEF Coming
<1>1. k.known = {}
  BY NewInfoType, LearnsKnown
<1>2. NamesRight(g, k, g.playing)
  BY <1>1 DEF NamesRight
<1>3. /\ Tells(g, k, Everybody) => Tells(g, k, g.playing)
      /\ TurnInfo(g, k, Everybody) => TurnInfo(g, k, g.playing)
  BY <1>2 DEF Tells, TurnInfo
<1> QED BY <1>3 DEF Coming

(* The server has not moved. *)
LEMMA SightKept ==
  ASSUME UNCHANGED <<vars, round_counter, deserters, ended, memory>>, NEW p
  PROVE  Sight(p)' = Sight(p)
BY DEF Sight, Lost, Settled, Players, PlayersIn, InState, vars, fsm

(* Which places a command comes from *)
LEMMA IssuedFor ==
  ASSUME NEW x \in DOMAIN Issued
  PROVE  /\ Issued[x] # "none"
         /\ Issued[x] = "auth" => x = "login"
         /\ Issued[x] = "ready" => x \in {"signup", "end"}
         /\ Issued[x] = "lsgame" => x \in {"list", "look"}
         /\ Issued[x] = BotCommand => x = "turn"
BY DEF Issued, BotCommand

(* A name that another client has is taken. *)
LEMMA NameTaken ==
  ASSUME IInv, NEW p \in Player, NEW d \in Client, name[d] = memory[p].number
  PROVE  memory[p].number \in Sight(p).taken
<1>1. memory[p].number \in Name \ {0}
  BY NumbersFit DEF IInv, SessionInv
<1>2. name[d] # NoName /\ d \in Player
  BY <1>1, NamesAreNumbers DEF IInv, SessionInv, SupervisorInv, Player
<1>3. Settled(d) /\ memory[d].number = memory[p].number
  BY <1>2, PlayersKnown DEF IInv, SessionInv, PlayerInv, Settled
<1> QED BY <1>2, <1>3 DEF Sight

(* The command of a program that waits for its answer is answered. *)
LEMMA AnsweredInPlace ==
  ASSUME IInv, NEW p \in Player, Running(p), Unanswered(p), Idle,
         UNCHANGED <<vars, round_counter, deserters, program>>, pending'[p] = "none",
         NEW STATE a, a \in AnswerLine, Send(Nothing, To(p, <<a>>)),
         Answer(Sight(p), place[p], memory[p].number, Info(p), memory[p].constants, a,
                memory[p].m_eventQueue \o inbox[p])
  PROVE  Answered(p)' /\ inbox'[p] \in Seq(AnyLine)
<1>1. ProgramType /\ ended[p] = "no" /\ inbox[p] \in Seq(ServerLine)
  BY DEF IInv, SessionInv, PlayerInv, Unanswered
<1>2. UNCHANGED <<place, ended, memory, cstate>>
  BY DEF program, vars
<1>3. inbox'[p] = inbox[p] \o <<a>>
  BY <1>1, <1>2, SendAnswer
<1>4. Sight(p)' = Sight(p)
  BY <1>2, SightKept
<1> PICK b : b = a
  OBVIOUS
<1> PICK w : w = inbox[p]
  OBVIOUS
<1> QED BY <1>1, <1>2, <1>3, <1>4, AnsweredNow

(* Whatever a running program has asked for, the answer is one it can take. *)
LEMMA ServedProgram ==
  ASSUME IInv, NEW p \in Player, Running(p), Serve(p), NumbersKept, Players' = Players,
         state' = state, pc' = pc
  PROVE  Answered(p)' /\ inbox'[p] \in Seq(AnyLine)
<1> DEFINE g == Sight(p)
           h == Sight(p)'
           q == memory[p].m_eventQueue
           info == Info(p)
           consts == memory[p].constants
           num == memory[p].number
           x == place[p]
           s == inbox[p]
           t == q \o s
<1>0. /\ TypeOK /\ ProgramType /\ Players \subseteq Player /\ PlayerInv(p) /\ p \in Client
  BY PlayersKnown DEF IInv, SessionInv, Player
<1>1. /\ pending[p] # "none" /\ pending'[p] = "none"
      /\ UNCHANGED <<round_counter, place, ended, memory, deserters>>
  BY <1>0 DEF Serve, program, BotCommand, ProgramType
<1>2. Unanswered(p) /\ ended[p] = "no"
  BY <1>0, <1>1 DEF PlayerInv, Answered
<1>3. /\ x \in DOMAIN Issued /\ pending[p] = Issued[x]
      /\ s \in Seq(ServerLine) /\ Story(g, x, info, consts, t)
  BY <1>1, <1>2 DEF Unanswered
<1>4. /\ q \in Seq(ServerLine) /\ info \in InfoType /\ consts \in SUBSET Name
      /\ t \in Seq(ServerLine)
  <2>1. q \in Seq(ServerLine) /\ info \in InfoType /\ consts \in SUBSET Name
    BY <1>0 DEF ProgramType, MemoryType, Info
  <2> HIDE DEF q, s
  <2>2. t \in Seq(ServerLine)
    BY <1>3, <2>1, ConcatTwice
  <2> QED BY <2>1, <2>2
<1>5. Ack({}) \in AnswerLine /\ Fail \in AnswerLine /\ Ack({})[1] = "ack"
  BY DEF AnswerLine, Ack
<1> HIDE DEF g, h, q, info, consts, num, x, s, t
<1>6. CASE pending[p] = "auth"
  <2>1. x = "login"
    BY <1>3, <1>6, IssuedFor
  <2>2. g.c = "CONNECTED" /\ t = <<>>
    BY <1>3, <2>1 DEF Story, OnTurn
  <2>3. CASE \E d \in Client : name[d] = memory[p].number
    <3>1. Refuse(p)
      BY <1>6, <2>3 DEF Serve, BotCommand
    <3>2. num \in g.taken
      BY <2>3, NameTaken DEF num, g
    <3>3. Answer(g, x, num, info, consts, Fail, t)
      BY <1>3, <2>1, <3>2 DEF Answer
    <3> QED BY <1>1, <1>2, <1>5, <3>1, <3>3, AnsweredInPlace
            DEF g, num, q, info, consts, x, s, t, Refuse, program
  <2>4. CASE ~\E d \in Client : name[d] = memory[p].number
    <3>1. Auth(p, memory[p].number, "IN_LOBBY") /\ Done(p, {})
      BY <1>6, <2>4 DEF Serve, BotCommand
    <3>2. cstate[p] = "CONNECTED" /\ cstate'[p] = "IN_LOBBY"
      BY <1>0, <3>1 DEF Auth, Allowed, TypeOK
    <3>3. StateStr[cstate'[p]] = "lobby"
      BY <3>2 DEF StateStr
    <3>4. inbox'[p] = (s \o <<Told("lobby")>>) \o <<Ack({})>>
      BY <1>0, <1>2, <3>1, <3>2, <3>3, SendAnswer DEF Done, s
    <3>5. Told("lobby") \in ServerLine /\ <<Told("lobby")>> \in Seq(ServerLine)
      BY LineTypes, TwoMore, EmptySeq DEF StateName
    <3> PICK w : w = s \o <<Told("lobby")>>
      OBVIOUS
    <3>6. w \in Seq(ServerLine) /\ q \o w = t \o <<Told("lobby")>>
      BY <1>3, <1>4, <3>5, ConcatTwice DEF t
    <3>7. q \o w = <<Told("lobby")>>
      BY <2>2, <3>5, <3>6, ConcatEmptySeq
    <3>8. Story(h, "lobby", info, consts, q \o w)
      BY <3>2, <3>7 DEF Story, h, Sight
    <3>9. Answer(h, x, num, info, consts, Ack({}), q \o w)
      BY <1>5, <2>1, <3>8 DEF Answer
    <3> QED BY <1>1, <1>5, <3>4, <3>6, <3>9, AnsweredNow
            DEF h, num, q, info, consts, x
  <2> QED BY <2>3, <2>4
<1>7. CASE pending[p] = "ready"
  <2>1. x \in {"signup", "end"}
    BY <1>3, <1>7, IssuedFor
  <2>2. \/ g.c = "IN_LOBBY" /\ (x = "signup" => t = <<>>)
                            /\ (x = "end" => t = <<Told("lobby")>> /\ g.lost)
        \/ g.c = "IN_GAME" /\ x = "end" /\ t = <<>> /\ TurnInfo(g, info, consts)
                           /\ info.known # {}
    BY <1>3, <2>1, LineTypes DEF Story, InTurn, OnTurn, TurnInfo
  <2>3. cstate[p] = g.c
    BY DEF g, Sight
  <2>4. (ReadyInLobby(p) \/ ReadyInGame(p)) /\ Done(p, {})
    BY <1>7, <2>2, <2>3 DEF Serve, BotCommand
  <2>5. /\ cstate'[p] = IF cstate[p] = "IN_LOBBY" THEN "IN_LOBBY_ACK" ELSE "IN_GAME_WAIT"
        /\ name' = name
    BY <1>0, <2>4 DEF ReadyInLobby, ReadyInGame, Allowed, TypeOK
  <2> DEFINE l == Told(StateStr[cstate'[p]])
  <2>6. l = IF cstate[p] = "IN_LOBBY" THEN Told("lobby_ready") ELSE Told("game")
    BY <2>5 DEF StateStr
  <2>7. inbox'[p] = (s \o <<l>>) \o <<Ack({})>>
    BY <1>0, <1>2, <2>2, <2>3, <2>4, <2>5, SendAnswer DEF Done, s
  <2> HIDE DEF l
  <2>8. l \in ServerLine /\ <<l>> \in Seq(ServerLine)
    BY <2>6, LineTypes, TwoMore, EmptySeq DEF StateName
  <2> PICK w : w = s \o <<l>>
    OBVIOUS
  <2>9. w \in Seq(ServerLine) /\ q \o w = t \o <<l>>
    BY <1>3, <1>4, <2>8, ConcatTwice DEF t
  <2>10. Answer(h, x, num, info, consts, Ack({}), q \o w)
    <3>1. CASE x = "signup"
      <4>1. q \o w = <<l>> /\ l = Told("lobby_ready")
        BY <2>2, <2>3, <2>6, <2>8, <2>9, <3>1, ConcatEmptySeq
      <4>2. h.c = "IN_LOBBY_ACK"
        BY <2>2, <2>3, <2>5, <3>1 DEF h, Sight
      <4>3. <<l>> # <<>> /\ Head(<<l>>) = l /\ Tail(<<l>>) = <<>>
        OBVIOUS
      <4>4. Story(h, "lobby_ready", info, consts, q \o w)
        BY <4>1, <4>2, <4>3 DEF Story, SignedUp
      <4> QED BY <1>5, <3>1, <4>4 DEF Answer
    <3>2. CASE x = "end" /\ g.c = "IN_LOBBY"
      <4>1. t # <<>> /\ Head(t) = Told("lobby")
        <5> DEFINE ll == Told("lobby")
        <5>1. t = <<ll>>
          BY <2>2, <3>2
        <5> HIDE DEF ll
        <5>2. t # <<>> /\ Head(t) = ll
          BY <5>1
        <5> QED BY <5>2 DEF ll
      <4>2. t \o <<l>> # <<>> /\ Head(t \o <<l>>) = Told("lobby")
        BY <1>4, <2>8, <4>1, BehindHead
      <4>3. h.lost
        BY <1>1, <2>2, <3>2 DEF g, h, Sight, Lost
      <4>4. Story(h, "game_again", [info EXCEPT !.transactions = <<>>], consts, q \o w)
        BY <2>9, <4>2, <4>3 DEF Story
      <4> QED BY <1>5, <3>2, <4>4 DEF Answer
    <3>3. CASE x = "end" /\ g.c = "IN_GAME"
      <4> DEFINE k == [info EXCEPT !.transactions = <<>>]
      <4>1. q \o w = <<l>> /\ l = Told("game") /\ TurnInfo(g, info, consts) /\ info.known # {}
        BY <2>2, <2>3, <2>6, <2>8, <2>9, <3>3, ConcatEmptySeq
      <4>2. <<l>> # <<>> /\ Head(<<l>>) = l /\ Tail(<<l>>) = <<>>
        OBVIOUS
      <4>3. /\ k \in InfoType /\ k.known = info.known /\ k.dead = info.dead
            /\ k.transactions = <<>>
        BY <1>4, EmptySeq DEF InfoType
      <4>4. p \in Active
        BY <1>0, <2>3, <3>3 DEF Active, InState
      <4>5. state = "ROUND" /\ pc = "event"
        BY <4>4 DEF IInv, TurnInv, InRound
      <4>6. h.c = "IN_GAME_WAIT" /\ h.phase = "round"
        BY <2>3, <2>5, <3>3, <4>5 DEF h, Sight
      <4>7. h.playing = g.playing /\ h.gone = g.gone
        BY <1>1, <2>5 DEF g, h, Sight
      <4> HIDE DEF k
      <4>8. NamesRight(h, k, consts)
        BY <4>1, <4>3, <4>7 DEF TurnInfo, NamesRight
      <4>9. Tells(h, k, consts)
        BY <4>1, <4>3, <4>6, <4>8 DEF Tells
      <4>10. Coming(h, k, consts, <<>>)
        <5>1. Learns(k, <<>>, 0, k) /\ Len(<<>>) = 0
          BY <4>3, LearnsNone
        <5> QED BY <4>3, <4>9, <5>1 DEF Coming
      <4>11. Story(h, "game_again", k, consts, q \o w)
        BY <4>1, <4>2, <4>10 DEF Story
      <4> QED BY <1>5, <3>3, <4>11 DEF Answer, k
    <3> QED BY <2>1, <2>2, <3>1, <3>2, <3>3
  <2> QED BY <1>1, <1>5, <2>7, <2>9, <2>10, AnsweredNow DEF h, num, q, info, consts, x
<1>8. CASE pending[p] = "lsgame"
  <2>1. x \in {"list", "look"}
    BY <1>3, <1>8, IssuedFor
  <2> DEFINE names == {name[c] : c \in Players}
  <2>2. Idle /\ UNCHANGED vars /\ Done(p, names)
    BY <1>8 DEF Serve, BotCommand
  <2>3. names = g.playing /\ names \subseteq Name
    BY PlayingNamed DEF g, Sight
  <2> HIDE DEF names
  <2>4. Ack(names) \in AnswerLine /\ Ack(names)[1] = "ack" /\ Ack(names)[2] = names
    BY <2>3 DEF AnswerLine, Ack
  <2>5. Answer(g, x, num, info, consts, Ack(names), t)
    <3>1. CASE x = "list"
      <4>1. Coming(g, NewInfo, names, t)
        BY <1>3, <1>4, <2>3, <3>1, ComingNamed DEF Story, OnTurn
      <4> QED BY <2>4, <3>1, <4>1 DEF Answer, Story
    <3>2. CASE x = "look"
      <4> DEFINE k == UpdatePlayerList(info, names)
      <4>1. InTurn(g, info, consts, t)
        BY <1>3, <3>2 DEF Story, OnTurn
      <4>2. ASSUME t = <<>>, TurnInfo(g, info, consts)
            PROVE  TurnInfo(g, k, consts) /\ k.known # {}
        <5>1. CASE info.known # {}
          BY <4>2, <5>1 DEF UpdatePlayerList
        <5>2. CASE info.known = {}
          <6>1. /\ k.known = names /\ k.dead = {} /\ k.market = info.market
                /\ k.transactions = info.transactions
            BY <1>4, <5>2 DEF UpdatePlayerList, InfoType
          <6>2. names # {}
            <7>1. p \in Players
              BY <1>0, <4>2 DEF TurnInfo, g, Sight, Players, PlayersIn, InState
            <7> QED BY <7>1 DEF names
          <6> HIDE DEF k
          <6>3. consts # Everybody
            BY <1>4, NamesAreNumbers DEF Everybody
          <6>4. NamesRight(g, k, consts)
            BY <2>3, <4>2, <5>2, <6>1, <6>2, <6>3 DEF NamesRight, TurnInfo
          <6> QED BY <4>2, <6>1, <6>2, <6>4 DEF TurnInfo
        <5> QED BY <5>1, <5>2
      <4>3. Story(g, "turn", k, consts, t)
        <5> HIDE DEF k
        <5> QED BY <4>1, <4>2 DEF Story, InTurn, OnTurn, TurnInfo
      <4> QED BY <2>4, <3>2, <4>3 DEF Answer
    <3> QED BY <2>1, <3>1, <3>2
  <2> QED BY <1>1, <1>2, <2>2, <2>4, <2>5, AnsweredInPlace
          DEF g, num, q, info, consts, x, s, t, Done, program
<1>9. CASE pending[p] = BotCommand
  <2>1. x = "turn"
    BY <1>3, <1>9, IssuedFor
  <2>2. Idle /\ UNCHANGED vars /\ (Done(p, {}) \/ Refuse(p))
    BY <1>9 DEF Serve, BotCommand
  <2>3. ASSUME NEW a PROVE Answer(g, x, num, info, consts, a, t)
    BY <1>3, <2>1 DEF Answer, Story, OnTurn
  <2> QED BY <1>1, <1>2, <1>5, <2>2, <2>3, AnsweredInPlace
          DEF g, num, q, info, consts, x, s, t, Done, Refuse, program
<1> QED BY <1>6, <1>7, <1>8, <1>9 DEF Serve

(* EV_COMMAND, of a running program or of one that has ended since *)
LEMMA ServeStep ==
  ASSUME IInv, NEW p \in Player, Serve(p)
  PROVE  SessionInv'
<1>0. /\ TypeOK /\ SupervisorInv /\ RoundInv /\ ProgramType /\ Players \subseteq Player
      /\ PlayerInv(p) /\ p \in Client /\ p # Supervisor /\ Supervisor \in Client
  BY PlayersKnown, SupervisorAssumption DEF IInv, SessionInv, Player
<1>1. /\ UNCHANGED <<round_counter, place, ended, memory, deserters>>
      /\ pending' = [pending EXCEPT ![p] = "none"]
  BY DEF Serve, program
<1>2. /\ UNCHANGED <<state, pc>>
      /\ pc = "exited" => UNCHANGED next_state
      /\ cstate' \in {cstate, [cstate EXCEPT ![p] = "IN_LOBBY"],
                      [cstate EXCEPT ![p] = "IN_LOBBY_ACK"],
                      [cstate EXCEPT ![p] = "IN_GAME_WAIT"]}
      /\ name' = name \/ /\ cstate[p] = "CONNECTED" /\ cstate'[p] = "IN_LOBBY"
                         /\ name' = [name EXCEPT ![p] = memory[p].number]
      /\ cstate[p] \notin Unnamed => cstate'[p] \notin Unnamed
      /\ p \in Players <=> cstate'[p] \in {"IN_GAME", "IN_GAME_WAIT"}
  <2>1. CASE UNCHANGED vars
    BY <1>0, <2>1 DEF vars, fsm, Players, PlayersIn, InState
  <2>2. CASE Auth(p, memory[p].number, "IN_LOBBY")
    BY <1>0, <2>2 DEF Auth, Allowed, GameUnchanged, fsm, TypeOK, Unnamed, Players,
                      PlayersIn, InState
  <2>3. CASE ReadyInLobby(p)
    BY <1>0, <2>3 DEF ReadyInLobby, Allowed, GameUnchanged, fsm, TypeOK, Unnamed, Players,
                      PlayersIn, InState
  <2>4. CASE ReadyInGame(p)
    BY <1>0, <2>4 DEF ReadyInGame, Allowed, Idle, TypeOK, Unnamed, Players,
                      PlayersIn, InState
  <2> QED BY <2>1, <2>2, <2>3, <2>4 DEF Serve, Refuse
<1>3. \A q \in Client \ {p} : cstate'[q] = cstate[q] /\ name'[q] = name[q]
  BY <1>0, <1>2 DEF TypeOK
<1>4. Players' = Players
  BY <1>0, <1>2, <1>3 DEF Players, PlayersIn, InState
<1>5. p \in Players => name'[p] = name[p]
  BY <1>0, <1>2 DEF Players, PlayersIn, InState
<1>6. name'[p] # NoName => name'[p] = memory[p].number
  BY <1>0, <1>2 DEF PlayerInv, TypeOK
<1>7. \E s : Send(Nothing, To(p, s))
  BY DEF Serve, Done, Refuse
<1>8. /\ NumbersKept /\ (deserters' # {} => Lost')
      /\ \A q \in Player \ {p} : PlayerInv(q)' /\ inbox'[q] \in Seq(AnyLine)
  <2>1. PICK s : Send(Nothing, To(p, s))
    BY <1>7
  <2>2. \A q \in Player \ {p} : /\ cstate'[q] = cstate[q] /\ name'[q] = name[q]
                                /\ place'[q] = place[q] /\ pending'[q] = pending[q]
    BY <1>0, <1>1, <1>3 DEF ProgramType, Player
  <2> QED BY <1>1, <1>2, <1>4, <1>5, <2>1, <2>2, OthersUnserved
<1>9. PlayerInv(p)' /\ inbox'[p] \in Seq(AnyLine)
  <2>1. Sight(p).taken \subseteq Sight(p)'.taken
    BY <1>8, TakenKept
  <2>2. CASE Running(p)
    <3>1. Answered(p)' /\ inbox'[p] \in Seq(AnyLine)
      BY <1>2, <1>4, <1>8, <2>2, ServedProgram
    <3>2. Running(p)' /\ ended'[p] = "no"
      BY <1>0, <1>1, <2>2 DEF PlayerInv, Running
    <3> QED BY <1>0, <1>1, <1>6, <2>1, <3>1, <3>2 DEF PlayerInv
  <2>3. CASE ~Running(p)
    <3>1. ended[p] # "no"
      <4>1. pending[p] # "none"
        BY <1>0 DEF Serve, BotCommand
      <4> QED BY <1>0, <2>3, <4>1 DEF PlayerInv
    <3>2. inbox'[p] = <<>>
      BY <1>7, <3>1 DEF Send
    <3>3. ~Running(p)' /\ ended'[p] # "no"
      BY <1>1, <2>3, <3>1 DEF Running
    <3>4. Lost'
      <4>1. ~Aside(p)
        BY DEF Aside, Serve, BotCommand
      <4> QED BY <1>0, <1>8, <3>1, <4>1 DEF PlayerInv, NumbersKept
    <3> QED BY <1>0, <1>1, <1>6, <2>1, <3>2, <3>3, <3>4, EmptySeq DEF PlayerInv
  <2> QED BY <2>2, <2>3
<1>10. inbox' = [q \in Player |-> inbox'[q]]
  <2>1. PICK s : Send(Nothing, To(p, s))
    BY <1>7
  <2> QED BY <2>1, SendIsForAll
<1>11. inbox' \in [Player -> Seq(AnyLine)] /\ \A q \in Player : PlayerInv(q)'
  BY <1>8, <1>9, <1>10, AllListen
<1>12. ProgramType'
  BY <1>0, <1>1, <1>11 DEF ProgramType
<1>13. SupervisorInv' /\ RoundInv'
  BY <1>0, <1>1, <1>2, <1>3 DEF SupervisorInv, RoundInv
<1> QED BY <1>8, <1>11, <1>12, <1>13 DEF SessionInv

-----------------------------------------------------------------------------
(* Steps of a client's program *)

(* The others and the server do not notice. *)
LEMMA OthersRun ==
  ASSUME IInv, NEW p \in Player, UNCHANGED <<vars, round_counter, deserters>>,
         \A q \in Player \ {p} :
           /\ place'[q] = place[q] /\ ended'[q] = ended[q] /\ memory'[q] = memory[q]
           /\ pending'[q] = pending[q] /\ inbox'[q] = inbox[q],
         ended[p] # "no" => ended'[p] = ended[p],
         Settled(p) => memory'[p].number = memory[p].number
  PROVE  /\ NumbersKept /\ (deserters' # {} => Lost')
         /\ \A q \in Player \ {p} : PlayerInv(q)' /\ inbox'[q] \in Seq(AnyLine)
         /\ SupervisorInv' /\ RoundInv'
<1>1. ProgramType /\ (\A q \in Player : PlayerInv(q)) /\ SupervisorInv /\ RoundInv
  BY DEF IInv, SessionInv
<1>2. UNCHANGED <<cstate, name, state, pc, next_state>>
  BY DEF vars, fsm
<1>3. \A r \in Player : ended[r] # "no" => ended'[r] = ended[r]
  OBVIOUS
<1>4. Players' = Players
  BY <1>2 DEF Players
<1>5. NumbersKept /\ DesertersKept /\ (deserters' # {} => Lost')
  <2>1. Lost => Lost'
    BY <1>3 DEF Lost
  <2>2. deserters # {} => Lost
    BY DEF IInv, SessionInv
  <2> QED BY <1>2, <1>3, <1>4, <2>1, <2>2 DEF NumbersKept, DesertersKept, Settled
<1>6. ASSUME NEW q \in Player \ {p}
      PROVE  PlayerInv(q)' /\ inbox'[q] \in Seq(AnyLine)
  <2>1. ProgramKept(q) /\ inbox'[q] = inbox[q]
    BY <1>2 DEF ProgramKept
  <2>2. Sight(q)'.phase = Sight(q).phase
    BY <1>2, PhaseKept
  <2> QED BY <1>1, <1>2, <1>4, <1>5, <2>1, <2>2, Bystander
<1>7. SupervisorInv' /\ RoundInv'
  BY <1>1, <1>2 DEF SupervisorInv, RoundInv
<1> QED BY <1>5, <1>6, <1>7

(* A program that comes to its end keeps the number. *)
LEMMA Ended ==
  ASSUME IInv, NEW p \in Player, Running(p), UNCHANGED <<vars, round_counter, deserters>>,
         NEW how \in {"crash", "over", "not listed", "overrun"}, End(p, how),
         \/ how = "crash" \/ Lost
         \/ /\ how \in {"over", "not listed"}
            /\ cstate[p] \in {"NONE", "IN_LOBBY"} /\ pending[p] = "none",
         NEW s \in Seq(AnyLine), inbox' = [inbox EXCEPT ![p] = s]
  PROVE  SessionInv'
<1>1. ProgramType /\ PlayerInv(p) /\ ended[p] = "no"
  BY DEF IInv, SessionInv, PlayerInv
<1>2. /\ ended'[p] = how /\ place'[p] = "off" /\ pending' = pending
      /\ memory'[p] = [NewMemory EXCEPT !.number = memory[p].number]
      /\ memory'[p].number = memory[p].number /\ inbox'[p] = s
      /\ memory[p].number \in Nat \ {0}
  BY <1>1 DEF End, ProgramType, NewMemory, MemoryType
<1>3. \A q \in Player \ {p} :
        /\ place'[q] = place[q] /\ ended'[q] = ended[q] /\ memory'[q] = memory[q]
        /\ pending'[q] = pending[q] /\ inbox'[q] = inbox[q]
  BY <1>1 DEF End, ProgramType
<1>4. /\ NumbersKept /\ (deserters' # {} => Lost')
      /\ \A q \in Player \ {p} : PlayerInv(q)' /\ inbox'[q] \in Seq(AnyLine)
      /\ SupervisorInv' /\ RoundInv'
  BY <1>1, <1>2, <1>3, OthersRun
<1>5. PlayerInv(p)'
  <2>1. Sight(p).taken \subseteq Sight(p)'.taken
    BY <1>4, TakenKept
  <2>2. name'[p] = name[p] /\ cstate'[p] = cstate[p]
    BY DEF vars
  <2>3. Lost' \/ Aside(p)'
    <3>1. how = "crash" => Lost'
      BY <1>2 DEF Lost
    <3>2. Lost => Lost'
      BY <1>4 DEF NumbersKept
    <3> QED BY <1>2, <2>2, <3>1, <3>2 DEF Aside
  <2> QED BY <1>1, <1>2, <2>1, <2>2, <2>3 DEF PlayerInv, Running
<1>6. ProgramType'
  <2>1. memory'[p] \in MemoryType
    BY <1>2, NewInfoType, EmptySeq DEF NewMemory, MemoryType
  <2> QED BY <1>1, <1>2, <2>1 DEF ProgramType, End
<1> QED BY <1>4, <1>5, <1>6 DEF SessionInv

(* A process dies. *)
LEMMA CrashStep ==
  ASSUME IInv, NEW p \in Player, Crash(p)
  PROVE  SessionInv'
<1>1. UNCHANGED <<vars, round_counter, deserters>> /\ End(p, "crash") /\ Running(p)
  BY DEF Crash
<1>2. inbox' = [inbox EXCEPT ![p] = <<>>] /\ <<>> \in Seq(AnyLine)
  BY EmptySeq DEF Crash
<1> QED BY <1>1, <1>2, Ended

(* What is settled does not see what the program does. *)
LEMMA SightUnmoved ==
  ASSUME UNCHANGED <<vars, round_counter, deserters, ended>>, NEW p,
         \A r \in Player : Settled(r) => memory'[r].number = memory[r].number
  PROVE  Sight(p)' = Sight(p)
<1>1. UNCHANGED <<cstate, name, state, pc>> /\ Players' = Players
  BY DEF vars, fsm, Players
<1>2. \A r \in Player : Settled(r)' <=> Settled(r)
  BY <1>1 DEF Settled
<1>3. Lost' <=> Lost
  BY DEF Lost
<1>4. {r \in Player : Settled(r)}' = {r \in Player : Settled(r)}
  BY <1>2
<1>5. \A r \in {q \in Player : Settled(q)} : memory'[r].number = memory[r].number
  OBVIOUS
<1>7. Sight(p)'.taken = Sight(p).taken
  BY <1>4, <1>5 DEF Sight
<1>8. Sight(p)'.gone = Sight(p).gone /\ Sight(p)'.lost = Sight(p).lost
  BY <1>3 DEF Sight
<1>9. /\ Sight(p)'.c = Sight(p).c /\ Sight(p)'.round = Sight(p).round
      /\ Sight(p)'.phase = Sight(p).phase /\ Sight(p)'.playing = Sight(p).playing
  BY <1>1 DEF Sight
<1> QED BY <1>7, <1>8, <1>9 DEF Sight

(* The program goes on with the memory m, at the place y, with s to read.   *)
LEMMA Advance ==
  ASSUME IInv, NEW p \in Player, Running(p), UNCHANGED <<vars, round_counter, deserters, ended>>,
         NEW y \in DOMAIN After, NEW m \in MemoryType, NEW s \in Seq(AnyLine),
         NEW w \in {"none", "auth", "ready", "lsgame", BotCommand},
         place' = [place EXCEPT ![p] = y], pending' = [pending EXCEPT ![p] = w],
         memory' = [memory EXCEPT ![p] = m], inbox' = [inbox EXCEPT ![p] = s],
         \/ m.number = memory[p].number
         \/ /\ cstate[p] \in Unnamed /\ memory[p].number \in Sight(p).taken
            /\ m.number = memory[p].number + 1,
         Sight(p)' = Sight(p) => Unanswered(p)' \/ Answered(p)'
  PROVE  SessionInv'
<1>1. ProgramType /\ PlayerInv(p) /\ ended[p] = "no"
  BY DEF IInv, SessionInv, PlayerInv
<1>2. place'[p] = y /\ pending'[p] = w /\ memory'[p] = m /\ inbox'[p] = s /\ ended' = ended
  BY <1>1 DEF ProgramType
<1>3. \A q \in Player \ {p} :
        /\ place'[q] = place[q] /\ ended'[q] = ended[q] /\ memory'[q] = memory[q]
        /\ pending'[q] = pending[q] /\ inbox'[q] = inbox[q]
  BY <1>1 DEF ProgramType
<1>4. Settled(p) => memory'[p].number = memory[p].number
  BY <1>1, <1>2 DEF Settled
<1>5. /\ NumbersKept /\ (deserters' # {} => Lost')
      /\ \A q \in Player \ {p} : PlayerInv(q)' /\ inbox'[q] \in Seq(AnyLine)
      /\ SupervisorInv' /\ RoundInv'
  BY <1>2, <1>3, <1>4, OthersRun
<1>6. Sight(p)' = Sight(p)
  BY <1>3, <1>4, SightUnmoved
<1>7. Running(p)'
  BY <1>2, PlaceSets DEF Running
<1>8. name'[p] # NoName => name'[p] = m.number
  <2>1. name' = name
    BY DEF vars
  <2>2. name[p] # NoName => cstate[p] \notin Unnamed
    BY PlayersKnown
  <2> QED BY <1>1, <2>1, <2>2 DEF PlayerInv
<1>9. 1 .. m.number - 1 \subseteq Sight(p).taken
  <2>1. memory[p].number \in Nat \ {0}
    BY <1>1 DEF ProgramType, MemoryType
  <2>2. 1 .. memory[p].number - 1 \subseteq Sight(p).taken
    BY <1>1 DEF PlayerInv
  <2>3. CASE m.number = memory[p].number
    BY <2>2, <2>3
  <2>4. CASE memory[p].number \in Sight(p).taken /\ m.number = memory[p].number + 1
    <3> DEFINE k == memory[p].number
    <3>1. m.number - 1 = k /\ k \in Nat \ {0}
      BY <2>1, <2>4
    <3> HIDE DEF k
    <3>2. \A j \in 1 .. k : j \in 1 .. k - 1 \/ j = k
      BY <3>1
    <3>3. 1 .. k - 1 \subseteq Sight(p).taken /\ k \in Sight(p).taken
      BY <2>2, <2>4 DEF k
    <3> QED BY <3>1, <3>2, <3>3
  <2> QED BY <2>3, <2>4
<1>10. PlayerInv(p)'
  BY <1>1, <1>2, <1>6, <1>7, <1>8, <1>9 DEF PlayerInv
<1>11. ProgramType'
  BY <1>1 DEF ProgramType
<1> QED BY <1>5, <1>10, <1>11 DEF SessionInv

(* It goes to a place where it waits for what is told, or for an answer. *)
LEMMA Proceeds ==
  ASSUME IInv, NEW p \in Player, Running(p), UNCHANGED <<vars, round_counter, deserters>>,
         NEW y \in DOMAIN After, NEW m \in MemoryType, Goto(p, y, m),
         NEW s \in Seq(ServerLine), inbox' = [inbox EXCEPT ![p] = s],
         \/ m.number = memory[p].number
         \/ /\ cstate[p] \in Unnamed /\ memory[p].number \in Sight(p).taken
            /\ m.number = memory[p].number + 1,
         Story(Sight(p), y, m.m_gameInfo, m.constants, m.m_eventQueue \o s)
  PROVE  SessionInv'
<1> DEFINE w == IF y \in DOMAIN Issued THEN Issued[y] ELSE "none"
<1>1. w \in {"none", "auth", "ready", "lsgame", BotCommand}
  BY DEF Issued
<1>2. /\ place' = [place EXCEPT ![p] = y] /\ pending' = [pending EXCEPT ![p] = w]
      /\ memory' = [memory EXCEPT ![p] = m] /\ ended' = ended
  BY DEF Goto
<1>3. place'[p] = y /\ pending'[p] = w /\ memory'[p] = m /\ inbox'[p] = s
  BY <1>2 DEF IInv, SessionInv, ProgramType
<1>4. Info(p)' = m.m_gameInfo
  BY <1>3 DEF Info
<1>5. Sight(p)' = Sight(p) => Unanswered(p)'
  BY <1>3, <1>4 DEF Unanswered
<1> HIDE DEF w
<1>6. s \in Seq(AnyLine)
  BY LinesAreLines
<1> QED BY <1>1, <1>2, <1>5, <1>6, Advance

(* Where a state is awaited, no command is on its way. *)
LEMMA AwaitedPlace ==
  ASSUME NEW p \in Player, Running(p), PlayerInv(p), place[p] \in DOMAIN Awaited
  PROVE  Unanswered(p) /\ ended[p] = "no"
BY PlaceSets DEF PlayerInv, Answered, Answer

(* waitForState reads data, the state it waits for, or the end of the game. *)
LEMMA WaitForStateStep ==
  ASSUME IInv, NEW p \in Player, WaitForState(p)
  PROVE  SessionInv'
<1> DEFINE g == Sight(p)
           q == memory[p].m_eventQueue
           info == Info(p)
           consts == memory[p].constants
           x == place[p]
           s == inbox[p]
           t == q \o s
           line == Head(t)
           m == [memory[p] EXCEPT !.m_eventQueue = IF @ = <<>> THEN @ ELSE Tail(@)]
           r == IF q = <<>> THEN Tail(s) ELSE s
<1>0. ProgramType /\ PlayerInv(p) /\ x \in DOMAIN Awaited /\ Running(p)
  BY DEF IInv, SessionInv, WaitForState
<1>1. Unanswered(p) /\ ended[p] = "no"
  BY <1>0, AwaitedPlace
<1>2. /\ s \in Seq(ServerLine) /\ Story(g, x, info, consts, t) /\ t # <<>>
      /\ inbox' = [inbox EXCEPT ![p] = IF q = <<>> THEN Tail(@) ELSE @]
      /\ UNCHANGED <<vars, round_counter, deserters>>
      /\ \/ line[1] = "+" /\ Stay(p, [m EXCEPT !.m_gameInfo = Consume(@, line)])
         \/ line[1] = "$" /\ line[2] = Awaited[x] /\ Proceed(p, m)
         \/ /\ line[1] = "$" /\ line[2] # Awaited[x]
            /\ End(p, IF x \notin InLoop THEN "exception"
                      ELSE IF line[2] = "lobby" THEN "over" ELSE "assert")
         \/ line[1] \notin {"$", "+"} /\ End(p, "assert")
  BY <1>1 DEF Unanswered, WaitForState
<1>3. inbox' = [inbox EXCEPT ![p] = r]
  BY <1>2
<1>4. memory[p] \in MemoryType
  BY <1>0 DEF ProgramType
<1>5. q \in Seq(ServerLine) /\ info \in InfoType /\ consts \in SUBSET Name
  BY <1>4 DEF MemoryType, Info
<1> DEFINE z == IF q = <<>> THEN q ELSE Tail(q)
<1>6. r \in Seq(ServerLine) /\ z \in Seq(ServerLine) /\ z \o r = Tail(t)
      /\ t \in Seq(ServerLine)
  <2>0. z = IF q = <<>> THEN <<>> ELSE Tail(q)
    OBVIOUS
  <2>00. z \o r = IF q = <<>> THEN <<>> \o Tail(s) ELSE Tail(q) \o s
    OBVIOUS
  <2> HIDE DEF q, s, z
  <2>1. t \in Seq(ServerLine)
    BY <1>2, <1>5, ConcatTwice
  <2>2. CASE q = <<>>
    <3>1. t = s /\ s # <<>>
      BY <1>2, <2>2, ConcatEmptySeq
    <3>2. Tail(s) \in Seq(ServerLine)
      BY <1>2, <3>1, HeadTailProperties
    <3>3. <<>> \o Tail(s) = Tail(s)
      BY <3>2, ConcatEmptySeq
    <3> HIDE DEF t
    <3> QED BY <1>5, <2>0, <2>00, <2>1, <2>2, <3>1, <3>2, <3>3
  <2>3. CASE q # <<>>
    <3>1. Tail(t) = Tail(q) \o s /\ Tail(q) \in Seq(ServerLine)
      BY <1>2, <1>5, <2>3, BehindHead
    <3> HIDE DEF t
    <3> QED BY <1>2, <2>0, <2>00, <2>1, <2>3, <3>1
  <2> QED BY <2>2, <2>3
<1>7. /\ m \in MemoryType /\ m.m_eventQueue = z /\ m.number = memory[p].number
      /\ m.m_gameInfo = info /\ m.constants = consts
  <2> HIDE DEF z
  <2>1. m = [memory[p] EXCEPT !.m_eventQueue = z]
    BY DEF z
  <2> HIDE DEF m
  <2> QED BY <1>4, <1>6, <2>1 DEF MemoryType, Info
<1> HIDE DEF g, q, info, consts, x, s, t, line, m, r, z
<1>8. PICK rr, mm : rr = r /\ mm = m
  OBVIOUS
<1>9. line = Head(t)
  BY DEF line
<1>10. \/ /\ line[1] = "+"
          /\ Consume(info, line) \in InfoType
          /\ Story(g, x, Consume(info, line), consts, Tail(t))
       \/ /\ line = Told(Awaited[x])
          /\ \A y \in After[x] : Story(g, y, info, consts, Tail(t))
       \/ /\ x \in InLoop /\ line = Told("lobby") /\ Awaited[x] # "lobby"
          /\ g.lost \/ g.c = "IN_LOBBY"
  BY <1>0, <1>2, <1>5, <1>6, <1>9, StoryRead
<1>11. \A l : Told(l)[1] = "$" /\ Told(l)[2] = l
  BY LineTypes
<1>12. CASE /\ line[1] = "+" /\ Consume(info, line) \in InfoType
            /\ Story(g, x, Consume(info, line), consts, Tail(t))
  <2>1. Stay(p, [m EXCEPT !.m_gameInfo = Consume(@, line)])
    BY <1>2, <1>12
  <2> PICK k : k = Consume(info, line)
    OBVIOUS
  <2> PICK n : n = [m EXCEPT !.m_gameInfo = k]
    OBVIOUS
  <2>2. [m EXCEPT !.m_gameInfo = Consume(@, line)] = [m EXCEPT !.m_gameInfo = k]
    BY <1>7
  <2>3. Stay(p, n)
    BY <2>1, <2>2
  <2>4. /\ n \in MemoryType /\ n.number = memory[p].number /\ n.m_gameInfo = k
        /\ n.constants = consts /\ n.m_eventQueue = z
    BY <1>7, <1>12 DEF MemoryType
  <2>5. Goto(p, x, n)
    <3>1. pending[p] = "none" /\ x \notin DOMAIN Issued
      BY <1>0, <1>1, PlaceSets DEF Unanswered, x
    <3>2. place' = [place EXCEPT ![p] = x] /\ pending' = [pending EXCEPT ![p] = "none"]
      BY <1>0, <2>3, <3>1 DEF Stay, ProgramType, x
    <3> QED BY <2>3, <3>1, <3>2 DEF Goto, Stay
  <2>6. Story(Sight(p), x, n.m_gameInfo, n.constants, n.m_eventQueue \o r)
    BY <1>6, <1>12, <2>4 DEF g
  <2> PICK y : y = x
    OBVIOUS
  <2> QED BY <1>0, <1>2, <1>3, <1>6, <1>8, <2>4, <2>5, <2>6, PlaceSets, Proceeds
<1>13. CASE /\ line = Told(Awaited[x])
            /\ \A y \in After[x] : Story(g, y, info, consts, Tail(t))
  <2>1. Proceed(p, m)
    BY <1>2, <1>11, <1>13
  <2> PICK y \in After[x] : Goto(p, y, m)
    BY <2>1 DEF Proceed, x
  <2>2. y \in DOMAIN After
    BY <1>0, PlaceSets DEF After, OnTurn
  <2>3. Story(Sight(p), y, m.m_gameInfo, m.constants, m.m_eventQueue \o r)
    BY <1>6, <1>7, <1>13 DEF g
  <2> QED BY <1>0, <1>2, <1>3, <1>6, <1>7, <1>8, <2>2, <2>3, Proceeds
<1>14. CASE /\ x \in InLoop /\ line = Told("lobby") /\ Awaited[x] # "lobby"
            /\ g.lost \/ g.c = "IN_LOBBY"
  <2>1. End(p, "over")
    BY <1>2, <1>11, <1>14
  <2>2. r \in Seq(AnyLine)
    BY <1>6, LinesAreLines
  <2>3. Lost \/ (cstate[p] \in {"NONE", "IN_LOBBY"} /\ pending[p] = "none")
    <3>1. pending[p] = "none"
      BY <1>0, <1>1, PlaceSets DEF Unanswered, x
    <3> QED BY <1>14, <3>1 DEF g, Sight
  <2> QED BY <1>0, <1>2, <1>3, <1>8, <2>1, <2>2, <2>3, Ended
<1> QED BY <1>10, <1>12, <1>13, <1>14

(* What Unanswered and Answered say, with q and r for the queue and the wire *)
Awaits(p, q, r) ==
  \/ /\ Unanswered(p) /\ r \in Seq(ServerLine)
     /\ Story(Sight(p), place[p], Info(p), memory[p].constants, q \o r)
  \/ /\ Answered(p)
     /\ \E i \in 1 .. Len(r) :
          /\ r[i] \in AnswerLine /\ Without(r, i) \in Seq(ServerLine)
          /\ Answer(Sight(p), place[p], memory[p].number, Info(p),
                    memory[p].constants, r[i], q \o Without(r, i))

(* What is met before the answer is put off, and the program stays. *)
LEMMA PutOff ==
  ASSUME IInv, NEW p \in Player, Running(p), UNCHANGED <<vars, round_counter, deserters>>,
         NEW s \in Seq(AnyLine), inbox[p] = s, s # <<>>, Head(s) \in ServerLine,
         inbox' = [inbox EXCEPT ![p] = Tail(@)],
         Stay(p, [memory[p] EXCEPT !.m_eventQueue = Append(@, Head(s))]),
         place[p] \in DOMAIN Issued,
         \A q \in Seq(ServerLine) :
           q = Append(memory[p].m_eventQueue, Head(s)) => Awaits(p, q, Tail(s))
  PROVE  SessionInv'
<1>1. ProgramType /\ PlayerInv(p)
  BY DEF IInv, SessionInv
<1>2. /\ memory[p] \in MemoryType /\ memory[p].m_eventQueue \in Seq(ServerLine)
      /\ pending[p] \in {"none", "auth", "ready", "lsgame", BotCommand}
  BY <1>1 DEF ProgramType, MemoryType
<1>3. PICK q : q = Append(memory[p].m_eventQueue, Head(s))
  OBVIOUS
<1>4. q \in Seq(ServerLine)
  BY <1>2, <1>3, AppendProperties
<1>5. PICK m : m = [memory[p] EXCEPT !.m_eventQueue = q]
  OBVIOUS
<1>6. /\ m \in MemoryType /\ m.m_eventQueue = q /\ m.number = memory[p].number
      /\ m.m_gameInfo = Info(p) /\ m.constants = memory[p].constants
  BY <1>2, <1>4, <1>5 DEF MemoryType, Info
<1>7. /\ memory' = [memory EXCEPT ![p] = m] /\ UNCHANGED <<place, pending, ended>>
  BY <1>2, <1>3, <1>5 DEF Stay
<1>8. PICK x, w : x = place[p] /\ w = pending[p]
  OBVIOUS
<1>9. place' = [place EXCEPT ![p] = x] /\ pending' = [pending EXCEPT ![p] = w]
  BY <1>1, <1>7, <1>8 DEF ProgramType
<1>10. PICK r : r = Tail(s)
  OBVIOUS
<1>11. r \in Seq(AnyLine)
  BY <1>10, HeadTailProperties
<1>12. inbox' = [inbox EXCEPT ![p] = r]
  BY <1>1, <1>10 DEF ProgramType
<1>13. /\ place'[p] = x /\ pending'[p] = w /\ memory'[p] = m /\ inbox'[p] = r
       /\ Info(p)' = Info(p)
  BY <1>1, <1>6, <1>7, <1>8, <1>12 DEF ProgramType, Info
<1>14. ASSUME Sight(p)' = Sight(p) PROVE Unanswered(p)' \/ Answered(p)'
  <2>1. Awaits(p, q, r)
    BY <1>3, <1>4, <1>10
  <2>2. CASE /\ Unanswered(p) /\ r \in Seq(ServerLine)
             /\ Story(Sight(p), place[p], Info(p), memory[p].constants, q \o r)
    <3>1. Unanswered(p)'
      BY <1>6, <1>8, <1>13, <1>14, <2>2 DEF Unanswered
    <3> QED BY <3>1
  <2>3. CASE /\ Answered(p)
             /\ \E i \in 1 .. Len(r) :
                  /\ r[i] \in AnswerLine /\ Without(r, i) \in Seq(ServerLine)
                  /\ Answer(Sight(p), place[p], memory[p].number, Info(p),
                            memory[p].constants, r[i], q \o Without(r, i))
    <3>1. Answered(p)'
      BY <1>6, <1>8, <1>13, <1>14, <2>3 DEF Answered
    <3> QED BY <3>1
  <2> QED BY <2>1, <2>2, <2>3 DEF Awaits
<1>15. x \in DOMAIN After /\ w \in {"none", "auth", "ready", "lsgame", BotCommand}
  BY <1>2, <1>8, PlaceSets
<1>16. UNCHANGED <<vars, round_counter, deserters, ended>> /\ memory' = [memory EXCEPT ![p] = m]
  BY <1>7
<1>17. \/ m.number = memory[p].number
       \/ /\ cstate[p] \in Unnamed /\ memory[p].number \in Sight(p).taken
          /\ m.number = memory[p].number + 1
  BY <1>6
<1>18. m \in MemoryType
  BY <1>6
<1> QED BY <1>9, <1>11, <1>12, <1>14, <1>15, <1>16, <1>17, <1>18, Advance

(* Of a game that is still on, a list that is right has all the players. *)
LEMMA ComingOf ==
  ASSUME NEW g, NEW names, NEW v, Coming(g, NewInfo, names, v)
  PROVE  \/ g.c = "IN_LOBBY"
         \/ g.c \in {"IN_GAME", "IN_GAME_WAIT"} /\ g.playing \subseteq names
BY DEF Coming, Tells, TurnInfo, NamesRight

(* The answer is met. *)
LEMMA MeetsAnswer ==
  ASSUME IInv, NEW p \in Player, Running(p), UNCHANGED <<vars, round_counter, deserters>>,
         NEW a \in AnswerLine, NEW s \in Seq(ServerLine),
         inbox' = [inbox EXCEPT ![p] = s],
         Answer(Sight(p), place[p], memory[p].number, Info(p), memory[p].constants, a,
                memory[p].m_eventQueue \o s),
         pending[p] = "none",
         \/ a[1] = "ack" /\ Acknowledged(p, a[2])
         \/ a[1] = "fail" /\ Refused(p)
  PROVE  SessionInv'
<1> DEFINE g == Sight(p)
           q == memory[p].m_eventQueue
           info == Info(p)
           consts == memory[p].constants
           num == memory[p].number
           x == place[p]
           t == q \o s
<1>1. ProgramType /\ PlayerInv(p) /\ memory[p] \in MemoryType
  BY DEF IInv, SessionInv, ProgramType
<1>2. /\ q \in Seq(ServerLine) /\ info \in InfoType /\ consts \in SUBSET Name
      /\ num \in Nat \ {0} /\ memory[p].m_gameInfo = info
  BY <1>1 DEF MemoryType, Info
<1>3. /\ a[1] = "ack" \/ a = Fail
      /\ a[1] = "ack" => a[2] \in SUBSET Name
      /\ Fail[1] = "fail" /\ a[1] \in {"ack", "fail"}
  BY AnswerTypes
<1>4. Answer(g, x, num, info, consts, a, t)
  OBVIOUS
<1>5. x \in {"login", "signup", "list", "look", "turn", "end"}
  BY <1>4 DEF Answer
<1>6. ASSUME NEW y, NEW m, Goto(p, y, m), y \in DOMAIN After, m \in MemoryType,
             \/ m.number = num
             \/ cstate[p] \in Unnamed /\ num \in g.taken /\ m.number = num + 1,
             m.m_eventQueue = q, Story(g, y, m.m_gameInfo, m.constants, t)
      PROVE  SessionInv'
  BY <1>6, Proceeds
<1>7. CASE a[1] = "ack"
  <2> DEFINE names == a[2]
             k == InfoReset(p, IF x = "look" THEN UpdatePlayerList(info, names) ELSE info)
             c == IF x = "list" THEN names ELSE consts
  <2>1. Acknowledged(p, names) /\ names \in SUBSET Name
    BY <1>3, <1>7
  <2>2. k = CASE x = "list" -> NewInfo
              [] x = "end"  -> [info EXCEPT !.transactions = <<>>]
              [] x = "look" -> UpdatePlayerList(info, names)
              [] OTHER -> info
    BY <1>5 DEF InfoReset
  <2>3. k \in InfoType
    BY <1>2, <1>5, <2>1, <2>2, NewInfoType, UpdateTypes
  <2>4. CASE x = "list" /\ num \notin names
    <3>1. End(p, "not listed")
      BY <2>1, <2>4 DEF Acknowledged
    <3>2. s \in Seq(AnyLine)
      BY LinesAreLines
    <3>3. cstate[p] = "IN_LOBBY"
      <4>1. Coming(g, NewInfo, names, t)
        BY <1>4, <1>7, <2>4 DEF Answer, Story, OnTurn
      <4>2. g.c = "IN_LOBBY" \/ (g.c \in {"IN_GAME", "IN_GAME_WAIT"} /\ g.playing \subseteq names)
        BY <4>1, ComingOf
      <4>3. g.c \in {"IN_GAME", "IN_GAME_WAIT"} => num \in g.playing
        <5> SUFFICES ASSUME cstate[p] \in {"IN_GAME", "IN_GAME_WAIT"} PROVE num \in g.playing
          BY DEF g, Sight
        <5>1. p \in Players
          BY DEF Players, PlayersIn, InState, Player
        <5>2. name[p] = num
          BY <5>1, PlayersKnown
        <5> QED BY <5>1, <5>2 DEF Sight
      <4>4. g.c = cstate[p]
        BY DEF Sight
      <4> QED BY <2>4, <4>2, <4>3, <4>4
    <3> QED BY <3>1, <3>2, <3>3, Ended
  <2>4a. CASE Overruns(p, k) /\ End(p, "overrun") /\ x = "look"
    <3>1. s \in Seq(AnyLine)
      BY LinesAreLines
    <3>2. Lost
      <4>1. Story(g, "turn", k, consts, t)
        BY <1>4, <1>7, <2>2, <2>4a DEF Answer
      <4>2. g.lost \/ (TurnInfo(g, k, consts) /\ k.known # {})
        <5> HIDE DEF g, k, consts, t
        <5>1. InTurn(g, k, consts, t) /\ (g.c = "IN_GAME" => k.known # {})
          BY <4>1 DEF Story, OnTurn
        <5> QED BY <5>1 DEF InTurn, TurnInfo
      <4>3. k.known # {} /\ TurnInfo(g, k, consts) => consts \subseteq k.known \cup g.gone
        BY DEF TurnInfo, NamesRight
      <4>4. ~(consts \subseteq k.known)
        BY <2>4a DEF Overruns
      <4>5. g.lost \/ g.gone # {}
        <5> HIDE DEF g, k, consts
        <5> QED BY <4>2, <4>3, <4>4
      <4>6. g.gone = deserters /\ g.lost = Lost
        BY DEF Sight
      <4> QED BY <4>5, <4>6 DEF IInv, SessionInv
    <3> QED BY <2>4a, <3>1, <3>2, Ended
  <2>5. CASE /\ ~(x = "list" /\ num \notin names)
             /\ ~(Overruns(p, k) /\ End(p, "overrun") /\ x = "look")
    <3>1. Proceed(p, [memory[p] EXCEPT !.m_gameInfo = k, !.constants = c])
      <4> DEFINE i == IF x = "look" THEN UpdatePlayerList(info, names) ELSE info
                 m == [memory[p] EXCEPT !.m_gameInfo = k, !.constants = c]
      <4>1. Proceed(p, m) \/ (Overruns(p, i) /\ End(p, "overrun"))
        BY <2>1, <2>5 DEF Acknowledged
      <4>2. x = "look" => k = i
        BY <2>2
      <4>3. Overruns(p, i) => x = "look"
        BY DEF Overruns
      <4> HIDE DEF i, k, m
      <4>4. Overruns(p, i) => Overruns(p, k)
        BY <4>2, <4>3
      <4>5. Proceed(p, m)
        BY <2>5, <4>1, <4>3, <4>4
      <4> QED BY <4>5 DEF m
    <3> HIDE DEF k, c
    <3>2. PICK y, m :
            /\ y \in After[x] /\ Goto(p, y, m)
            /\ m = [memory[p] EXCEPT !.m_gameInfo = k, !.constants = c]
      BY <3>1 DEF Proceed
    <3>3. /\ m \in MemoryType /\ m.number = num /\ m.m_eventQueue = q
          /\ m.m_gameInfo = k /\ m.constants = c
      BY <1>1, <1>2, <2>1, <2>3, <3>2 DEF MemoryType, c
    <3>4. y \in DOMAIN After
      BY <1>5, <3>2, PlaceSets DEF After, OnTurn
    <3>5. Story(g, y, k, c, t)
      <4> HIDE DEF g, info, consts, num, x, t, q
      <4>1. CASE x = "login"
        BY <1>3, <1>4, <1>7, <2>2, <3>2, <4>1 DEF Answer, After, c
      <4>2. CASE x = "signup"
        BY <1>3, <1>4, <1>7, <2>2, <3>2, <4>2 DEF Answer, After, c
      <4>3. CASE x = "list"
        BY <1>3, <1>4, <1>7, <2>2, <3>2, <4>3 DEF Answer, After, c
      <4>4. CASE x = "look"
        <5>1. Story(g, "turn", k, c, t)
          BY <1>3, <1>4, <1>7, <2>2, <3>2, <4>4 DEF Answer, c
        <5>2. y \in OnTurn
          BY <3>2, <4>4 DEF After
        <5> QED BY <5>1, <5>2 DEF Story, OnTurn
      <4>5. CASE x = "turn"
        BY <1>3, <1>4, <1>7, <2>2, <3>2, <4>5 DEF Answer, After, c
      <4>6. CASE x = "end"
        BY <1>3, <1>4, <1>7, <2>2, <3>2, <4>6 DEF Answer, After, c
      <4> QED BY <1>5, <4>1, <4>2, <4>3, <4>4, <4>5, <4>6 DEF x
    <3> QED BY <1>6, <3>2, <3>3, <3>4, <3>5
  <2> QED BY <2>4, <2>4a, <2>5
<1>8. CASE a[1] = "fail"
  <2>1. Refused(p) /\ a[1] # "ack"
    BY <1>3, <1>8
  <2>2. CASE x = "login"
    <3>1. num \in g.taken /\ Story(g, "login", info, consts, t)
      BY <1>4, <2>1, <2>2 DEF Answer
    <3>2. cstate[p] \in Unnamed
      BY <3>1 DEF Story, OnTurn, g, Sight, Unnamed
    <3>3. PICK m : m = [memory[p] EXCEPT !.number = NextName(@)] /\ Goto(p, "login", m)
      BY <2>1, <2>2 DEF Refused
    <3>4. /\ m \in MemoryType /\ m.number = num + 1 /\ m.m_eventQueue = q
          /\ m.m_gameInfo = info /\ m.constants = consts
      BY <1>1, <1>2, <3>3 DEF MemoryType, NextName
    <3>5. "login" \in DOMAIN After
      BY PlaceSets
    <3> QED BY <1>6, <3>1, <3>2, <3>3, <3>4, <3>5
  <2>3. CASE x = "turn"
    <3>1. Story(g, "end", info, consts, t)
      BY <1>4, <2>1, <2>3 DEF Answer
    <3>2. PICK y, m : y \in After[x] /\ m = memory[p] /\ Goto(p, y, m)
      BY <2>1, <2>3 DEF Refused, Proceed
    <3>3. y = "end" /\ y \in DOMAIN After
      BY <2>3, <3>2, PlaceSets DEF After
    <3>4. m.number = num /\ m.m_eventQueue = q /\ m.m_gameInfo = info /\ m.constants = consts
      BY <1>2, <3>2
    <3> QED BY <1>1, <1>6, <3>1, <3>2, <3>3, <3>4
  <2> QED BY <1>4, <1>5, <2>1, <2>2, <2>3 DEF Answer
<1> QED BY <1>3, <1>7, <1>8

(* execCommand puts off what is told, until it meets the answer. *)
LEMMA ExecCommandStep ==
  ASSUME IInv, NEW p \in Player, ExecCommand(p)
  PROVE  SessionInv'
<1> DEFINE g == Sight(p)
           x == place[p]
           info == Info(p)
           consts == memory[p].constants
           num == memory[p].number
           queue == memory[p].m_eventQueue
<1>0. /\ ProgramType /\ PlayerInv(p) /\ x \in DOMAIN Issued /\ Running(p)
      /\ UNCHANGED <<vars, round_counter, deserters>> /\ inbox[p] # <<>>
      /\ inbox' = [inbox EXCEPT ![p] = Tail(@)]
  BY DEF IInv, SessionInv, ExecCommand
<1>1. PICK s : s = inbox[p]
  OBVIOUS
<1>2. s \in Seq(AnyLine) /\ s # <<>> /\ queue \in Seq(ServerLine)
  BY <1>0, <1>1 DEF ProgramType, MemoryType
<1>3. \/ Head(s)[1] = "ack" /\ Acknowledged(p, Head(s)[2])
      \/ Head(s)[1] = "fail" /\ Refused(p)
      \/ /\ Head(s)[1] \in {"$", "+"}
         /\ Stay(p, [memory[p] EXCEPT !.m_eventQueue = Append(@, Head(s))])
  BY <1>1 DEF ExecCommand
<1>4. inbox' = [inbox EXCEPT ![p] = Tail(s)]
  BY <1>0, <1>1
<1> HIDE DEF g, x, info, consts, num, queue
<1>5. CASE Unanswered(p)
  <2>1. s \in Seq(ServerLine) /\ Story(g, x, info, consts, queue \o s)
    BY <1>1, <1>5 DEF Unanswered, g, x, info, consts, queue
  <2>2. /\ Head(s) \in ServerLine /\ Tail(s) \in Seq(ServerLine)
        /\ Append(queue, Head(s)) \o Tail(s) = queue \o s
    BY <1>2, <2>1, HeadTailProperties, LineMoved
  <2>3. Head(s)[1] \in {"$", "+"}
    BY <2>2, LineTypes
  <2>4. \A q \in Seq(ServerLine) : q = Append(queue, Head(s)) => Awaits(p, q, Tail(s))
    BY <1>5, <2>1, <2>2 DEF Awaits, g, x, info, consts
  <2> QED BY <1>0, <1>1, <1>2, <1>3, <2>2, <2>3, <2>4, PutOff DEF queue, x
<1>6. CASE Answered(p)
  <2>1. PICK i \in 1 .. Len(s) :
          /\ s[i] \in AnswerLine /\ Without(s, i) \in Seq(ServerLine)
          /\ Answer(g, x, num, info, consts, s[i], queue \o Without(s, i))
    BY <1>1, <1>6 DEF Answered, g, x, info, consts, num, queue
  <2>2. CASE i = 1
    <3>1. Without(s, 1) = Tail(s) /\ Head(s) = s[1]
      BY <1>2, ReadAnswer
    <3>2. PICK a, r : a = Head(s) /\ r = Tail(s)
      OBVIOUS
    <3>3. /\ a \in AnswerLine /\ r \in Seq(ServerLine)
          /\ Answer(g, x, num, info, consts, a, queue \o r)
      BY <2>1, <2>2, <3>1, <3>2
    <3>4. a[1] \in {"ack", "fail"}
      BY <3>3, AnswerTypes
    <3>5. \/ a[1] = "ack" /\ Acknowledged(p, a[2])
          \/ a[1] = "fail" /\ Refused(p)
      BY <1>3, <3>2, <3>4
    <3>6. inbox' = [inbox EXCEPT ![p] = r]
      BY <1>4, <3>2
    <3>7. pending[p] = "none"
      BY <1>6 DEF Answered
    <3> QED BY <1>0, <3>3, <3>5, <3>6, <3>7, MeetsAnswer DEF g, x, num, info, consts, queue
  <2>3. CASE i # 1
    <3>1. /\ Head(s) \in ServerLine /\ Tail(s) \in Seq(AnyLine)
          /\ i - 1 \in 1 .. Len(Tail(s)) /\ Tail(s)[i - 1] = s[i]
          /\ Without(Tail(s), i - 1) \in Seq(ServerLine)
          /\ Append(queue, Head(s)) \o Without(Tail(s), i - 1) = queue \o Without(s, i)
      BY <1>2, <2>1, <2>3, ReadBefore
    <3>2. Head(s)[1] \in {"$", "+"}
      BY <3>1, LineTypes
    <3>3. ASSUME NEW q \in Seq(ServerLine), q = Append(queue, Head(s))
          PROVE  Awaits(p, q, Tail(s))
      <4>1. PICK j, r : j = i - 1 /\ r = Tail(s)
        OBVIOUS
      <4>2. /\ j \in 1 .. Len(r) /\ r[j] \in AnswerLine /\ Without(r, j) \in Seq(ServerLine)
            /\ Answer(g, x, num, info, consts, r[j], q \o Without(r, j))
        BY <2>1, <3>1, <3>3, <4>1
      <4> QED BY <1>6, <4>1, <4>2 DEF Awaits, g, x, num, info, consts
    <3> QED BY <1>0, <1>1, <1>2, <1>3, <3>1, <3>2, <3>3, PutOff DEF queue, x
  <2> QED BY <2>2, <2>3
<1> QED BY <1>0, <1>5, <1>6 DEF PlayerInv

-----------------------------------------------------------------------------
(* The specification *)

(* In the beginning nobody is there. *)
LEMMA SessionInitOK == SessionInit => IInv
<1> SUFFICES ASSUME SessionInit PROVE IInv
  OBVIOUS
<1> USE DEF SessionInit
<1>1. TypeOK /\ NamesIdentify /\ ~abort_game
  BY GarbageAssumption DEF Init, TypeOK, CountT, NamesIdentify
<1>2. CountInv /\ TurnInv
  BY DEF Init, CountInv, TurnInv, InGame, InRound, Idle, Players, Active, PlayersIn, InState
<1>3. SupervisorInv /\ RoundInv
  BY RoundsAssumption, SupervisorAssumption DEF Init, SupervisorInv, RoundInv
<1>4. NewMemory \in MemoryType /\ NewMemory.number = 1
  BY NewInfoType, EmptySeq DEF NewMemory, MemoryType
<1>5. <<>> \in Seq(AnyLine)
  BY EmptySeq
<1>6. ProgramType
  BY <1>4, <1>5 DEF ProgramType
<1>7. ASSUME NEW p \in Player PROVE PlayerInv(p)
  <2>1. /\ place[p] = "off" /\ ended[p] = "no" /\ inbox[p] = <<>> /\ pending[p] = "none"
        /\ memory[p] = NewMemory /\ cstate[p] = "NONE" /\ name[p] = NoName
    BY DEF Init, Player
  <2>2. 1 .. memory[p].number - 1 = {}
    BY <1>4, <2>1
  <2> QED BY <2>1, <2>2 DEF PlayerInv, Running
<1> QED BY <1>1, <1>2, <1>3, <1>6, <1>7 DEF IInv, SessionInv

(* A step of the whole is one of the server, or leaves it alone. *)
LEMMA ServerStep ==
  IInv /\ [SessionNext]_allVars => [Next]_vars /\ abort_game' = abort_game
<1> SUFFICES ASSUME IInv, [SessionNext]_allVars
             PROVE  [Next]_vars /\ abort_game' = abort_game
  OBVIOUS
<1> USE DEF Next, Command, Loop
<1>1. Supervisor \in Client /\ Player \subseteq Client /\ 0 \in Name
  <2>1. Cardinality(Client) \in Nat \ {0}
    BY SupervisorAssumption, ClientAssumption, FS_CardinalityType, FS_EmptySet
  <2>2. 0 \in Name
    BY <2>1, NameAssumption2
  <2> QED BY <2>2, SupervisorAssumption DEF Player
<1>2. CASE TakeSeat
  BY <1>1, <1>2 DEF TakeSeat, Connect, Auth, GameUnchanged, flags
<1>3. CASE Supervise
  BY <1>1, <1>3 DEF Supervise, Start, Step, Run, flags
<1>4. CASE Halt
  BY <1>1, <1>4 DEF Halt, Pause
<1>5. CASE GameBegins \/ RoundBegins
  BY <1>5 DEF GameBegins, RoundBegins, LobbyExit, RoundEnter, flags
<1>6. ASSUME NEW bankrupt \in SUBSET Players, RoundCloses(bankrupt)
      PROVE  [Next]_vars /\ abort_game' = abort_game
  BY <1>6 DEF RoundCloses, RoundExit, flags
<1>7. CASE (LobbyEnter \/ BeforeRoundEnter \/ BeforeRoundExit) /\ Send(Nothing, Nothing)
            /\ ServerOnly
  BY <1>7 DEF LobbyEnter, BeforeRoundEnter, BeforeRoundExit, flags
<1>8. ASSUME NEW p \in Player, Launch(p)
      PROVE  [Next]_vars /\ abort_game' = abort_game
  BY <1>1, <1>8 DEF Launch, Connect, GameUnchanged, flags
<1>9. ASSUME NEW p \in Player, Drop(p)
      PROVE  [Next]_vars /\ abort_game' = abort_game
  BY <1>1, <1>9 DEF Drop, Disconnect, flags
<1>10. ASSUME NEW p \in Player, Serve(p)
       PROVE  [Next]_vars /\ abort_game' = abort_game
  <2>1. memory[p].number \in Name
    BY NumbersFit DEF IInv, SessionInv
  <2>2. \/ Auth(p, memory[p].number, "IN_LOBBY")
        \/ ReadyInLobby(p) \/ ReadyInGame(p) \/ UNCHANGED vars
    BY <1>10 DEF Serve, Refuse
  <2> QED BY <1>1, <2>1, <2>2
          DEF Auth, ReadyInLobby, ReadyInGame, GameUnchanged, flags, vars
<1>11. ASSUME NEW p \in Player, WaitForState(p) \/ ExecCommand(p) \/ Crash(p)
       PROVE  [Next]_vars /\ abort_game' = abort_game
  BY <1>11 DEF WaitForState, ExecCommand, Crash, vars, flags
<1>12. CASE UNCHANGED allVars
  BY <1>12 DEF allVars, vars, flags
<1> QED BY <1>2, <1>3, <1>4, <1>5, <1>6, <1>7, <1>8, <1>9, <1>10, <1>11, <1>12
        DEF SessionNext, Server

(* Every step keeps the invariant: one case for each action. *)
LEMMA IInvStep == IInv /\ [SessionNext]_allVars => IInv'
<1> SUFFICES ASSUME IInv, [SessionNext]_allVars PROVE IInv'
  OBVIOUS
<1>1. [Next]_vars /\ ~abort_game'
  BY ServerStep DEF IInv
<1>2. TypeOK' /\ NamesIdentify'
  BY <1>1, TypeStep, NamesStep DEF IInv
<1>3. CountInv' /\ TurnInv'
  BY <1>1, CountInvStep, TurnInvStep DEF IInv
<1>4. SessionInv'
  <2>1. CASE TakeSeat \/ Supervise \/ Halt
    BY <2>1, QuietSteps
  <2>2. CASE (LobbyEnter \/ BeforeRoundEnter \/ BeforeRoundExit) /\ Send(Nothing, Nothing)
              /\ ServerOnly
    BY <2>2, QuietSteps
  <2>3. CASE GameBegins
    BY <1>2, <2>3, GameBeginsStep
  <2>4. CASE RoundBegins
    BY <2>4, RoundBeginsStep
  <2>5. ASSUME NEW bankrupt \in SUBSET Players, RoundCloses(bankrupt) PROVE SessionInv'
    BY <1>2, <2>5, RoundClosesStep
  <2>6. ASSUME NEW p \in Player, Launch(p) \/ Drop(p) \/ Serve(p) PROVE SessionInv'
    BY <1>2, <2>6, LaunchStep, DropStep, ServeStep
  <2>7. ASSUME NEW p \in Player, WaitForState(p) \/ ExecCommand(p) \/ Crash(p)
        PROVE  SessionInv'
    BY <2>7, WaitForStateStep, ExecCommandStep, CrashStep
  <2>8. CASE UNCHANGED allVars
    <3>1. /\ UNCHANGED <<vars, round_counter, deserters, ended, memory>>
          /\ UNCHANGED <<place, pending, inbox, cstate, name, state, next_state, pc>>
      BY <2>8 DEF allVars, wire, program, vars, fsm
    <3>2. SupervisorInv' /\ RoundInv' /\ ProgramType' /\ (deserters' # {} => Lost')
      BY <3>1 DEF Lost, IInv, SessionInv, SupervisorInv, RoundInv, ProgramType
    <3>3. ASSUME NEW p \in Player PROVE PlayerInv(p)'
      <4>1. Sight(p)' = Sight(p)
        BY <3>1, SightKept
      <4>2. PlayerInv(p)
        BY DEF IInv, SessionInv
      <4>3. (Unanswered(p)' <=> Unanswered(p)) /\ (Answered(p)' <=> Answered(p))
        BY <3>1, <4>1 DEF Unanswered, Answered, Info
      <4>4. (Lost' <=> Lost) /\ (Aside(p)' <=> Aside(p))
        BY <3>1 DEF Lost, Aside
      <4> QED BY <3>1, <4>1, <4>2, <4>3, <4>4 DEF PlayerInv, Running
    <3> QED BY <3>2, <3>3 DEF SessionInv
  <2> QED BY <2>1, <2>2, <2>3, <2>4, <2>5, <2>6, <2>7, <2>8 DEF SessionNext, Server
<1> QED BY <1>1, <1>2, <1>3, <1>4 DEF IInv

(* It therefore holds always. *)
LEMMA IInvHolds == SessionSpec => []IInv
BY SessionInitOK, IInvStep, PTL DEF SessionSpec

-----------------------------------------------------------------------------
(* Theorems *)

(* The server among its clients is the server of ServerFSM: whatever is     *)
(* proved of that one holds in a session, without aborts.                   *)
THEOREM ServerInSession == SessionSpec => Spec
<1>1. SessionInit => Init
  BY DEF SessionInit
<1>2. IInv /\ [SessionNext]_allVars => [Next]_vars
  BY ServerStep
<1> QED BY <1>1, <1>2, IInvHolds, PTL DEF SessionSpec, Spec

(* Every variable keeps its type, and there are names enough: the search of *)
(* a client that counts up from the first ends before they run out.         *)
THEOREM SessionTypeCorrect == SessionSpec => []SessionTypeOK
<1>1. IInv => SessionTypeOK
  <2> SUFFICES ASSUME IInv PROVE SessionTypeOK
    OBVIOUS
  <2>1. ProgramType /\ RoundInv /\ \A p \in Player : PlayerInv(p)
    BY DEF IInv, SessionInv
  <2>2. ASSUME NEW p \in Player
        PROVE  /\ memory[p].number \in Name \ {0}
               /\ memory[p].constants \subseteq Name
               /\ Info(p).dead \subseteq Info(p).known
    <3>1. memory[p].number \in Name \ {0}
      BY <2>1, NumbersFit
    <3>2. memory[p] \in MemoryType
      BY <2>1 DEF ProgramType
    <3> QED BY <3>1, <3>2 DEF MemoryType, InfoType, Info
  <2> QED BY <2>1, <2>2 DEF SessionTypeOK, ProgramType, RoundInv
<1> QED BY <1>1, IInvHolds, PTL

(* A client's process ends by itself only because its game is over: no      *)
(* assertion fails, no refusal and no state comes where nothing catches it; *)
(* unless somebody has crashed, nor does its bot read behind m_players.     *)
THEOREM NobodyIsSurprised == SessionSpec => []NoSurprise
<1>1. IInv => NoSurprise
  <2> SUFFICES ASSUME IInv, NEW p \in Player
               PROVE  \/ ended[p] \in {"no", "crash", "over", "not listed"}
                      \/ ended[p] = "overrun" /\ Lost
    BY DEF NoSurprise, Lost
  <2>1. PlayerInv(p) /\ ended[p] \in {"no", "crash", "over", "not listed", "overrun"}
    BY DEF IInv, SessionInv, ProgramType
  <2>2. ended[p] = "overrun" => Lost
    BY <2>1 DEF PlayerInv, Aside
  <2> QED BY <2>1, <2>2
<1> QED BY <1>1, IInvHolds, PTL

(* What the bot that decides has before it, and that its list is made. *)
LEMMA Decides ==
  ASSUME IInv, NEW p \in Player, Deciding(p)
  PROVE  /\ TurnInfo(Sight(p), Info(p), memory[p].constants)
         /\ Info(p).known # {}
<1>1. /\ Running(p) /\ PlayerInv(p) /\ Sight(p).c = "IN_GAME"
      /\ place[p] = "turn" \/ (place[p] = "end" /\ pending[p] = "ready")
  BY DEF IInv, SessionInv, Deciding, Sight
<1>2. PICK x, t : x \in OnTurn /\ Story(Sight(p), x, Info(p), memory[p].constants, t)
  <2>1. CASE Unanswered(p)
    BY <1>1, <2>1 DEF Unanswered, OnTurn
  <2>2. CASE Answered(p)
    <3>1. place[p] = "turn"
      BY <1>1, <2>2 DEF Answered
    <3> QED BY <2>2, <3>1 DEF Answered, Answer, OnTurn
  <2> QED BY <1>1, <2>1, <2>2 DEF PlayerInv
<1>3. InTurn(Sight(p), Info(p), memory[p].constants, t) /\ Info(p).known # {}
  BY <1>1, <1>2 DEF Story, OnTurn
<1> QED BY <1>1, <1>3 DEF InTurn

(* A bot in its turn knows the market of this round. *)
THEOREM MarketIsFresh == SessionSpec => []MarketFresh
<1>1. IInv => MarketFresh
  BY Decides DEF MarketFresh, TurnInfo, Sight
<1> QED BY <1>1, IInvHolds, PTL

(* It knows the transactions of the round before, and none that are older. *)
THEOREM FinancesAreFresh == SessionSpec => []FinancesFresh
<1>1. IInv => FinancesFresh
  BY Decides DEF FinancesFresh, TurnInfo, LastRound, Sight
<1> QED BY <1>1, IInvHolds, PTL

(* It counts as alive all who are in the game, and besides them deserters   *)
(* only, and so are those it has counted in onStart and does not know now.  *)
THEOREM ViewIsTrue == SessionSpec => []ViewTrue
<1>1. IInv => ViewTrue
  <2> SUFFICES ASSUME IInv, NEW p \in Player, Deciding(p)
               PROVE  LET playing == {name[q] : q \in Players}
                          alive   == Info(p).known \ Info(p).dead
                      IN  /\ playing \subseteq alive /\ alive \subseteq playing \cup deserters
                          /\ Info(p).known \subseteq memory[p].constants
                          /\ memory[p].constants \subseteq Info(p).known \cup deserters
    BY DEF ViewTrue
  <2>1. NamesRight(Sight(p), Info(p), memory[p].constants) /\ Info(p).known # {}
    BY Decides DEF TurnInfo
  <2>2. /\ Sight(p).playing = {name[q] : q \in Players}
        /\ Sight(p).gone = deserters
    BY DEF Sight
  <2> QED BY <2>1, <2>2 DEF NamesRight
<1> QED BY <1>1, IInvHolds, PTL
=============================================================================
