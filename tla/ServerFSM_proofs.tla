-------------------------- MODULE ServerFSM_proofs --------------------------
(***************************************************************************)
(* Proofs about ServerFSM, for every set of clients, every width of        *)
(* count_t the clients fit in and every content of fresh memory; and that  *)
(* it implements GameRound when the supervisors do not abort.              *)
(***************************************************************************)
EXTENDS ServerFSM, FiniteSetTheorems, TLAPS

USE DEF ServerState, ClientState

-----------------------------------------------------------------------------
(* Arithmetic of count_t and sizes of sets of clients *)

LEMMA UIntModPositive ==
  Cardinality(Client) \in Nat /\ UIntMod \in Nat /\ UIntMod > 1
  BY ClientAssumption, UIntModAssumption, FS_CardinalityType

(* Counters are integers. *)
LEMMA CountInt == CountT \subseteq Int
  BY UIntModPositive DEF CountT

(* A difference of two integers, reduced to count_t, is a count_t.          *)
LEMMA MinusType == \A a, b \in Int : Minus(a, b) \in CountT
  BY UIntModPositive DEF Minus, CountT

(* Between values of count_t, subtraction wraps around at most once.        *)
LEMMA MinusValue ==
  ASSUME NEW a \in CountT, NEW b \in CountT
  PROVE  Minus(a, b) = IF b <= a THEN a - b ELSE a - b + UIntMod
<1> DEFINE d == a - b
<1>1. d \in Int /\ d < UIntMod /\ -UIntMod < d
  BY UIntModPositive DEF CountT
<1>2. d >= 0 => d % UIntMod = d
  BY <1>1, UIntModPositive
<1>3. d < 0 => d % UIntMod = d + UIntMod
  <2> SUFFICES ASSUME d < 0 PROVE d % UIntMod = d + UIntMod
    OBVIOUS
  <2> HIDE DEF d
  <2>1. d % UIntMod \in 0 .. UIntMod - 1
    BY <1>1, UIntModPositive
  <2>2. \E q \in Int : d = q * UIntMod + (d % UIntMod)
    BY <1>1, UIntModPositive, Z3
  <2> QED BY <1>1, <2>1, <2>2, UIntModPositive, Z3
<1> QED BY <1>1, <1>2, <1>3 DEF Minus, CountT

(* Sets of clients are finite, and no larger than a count_t can hold.       *)
LEMMA ClientSets ==
  \A S \in SUBSET Client :
    /\ IsFiniteSet(S)
    /\ Cardinality(S) \in 0 .. Cardinality(Client)
    /\ Cardinality(S) \in CountT
<1>1. Cardinality(Client) \in Nat
  BY ClientAssumption, FS_CardinalityType
<1> SUFFICES ASSUME NEW S \in SUBSET Client
             PROVE  /\ IsFiniteSet(S)
                    /\ Cardinality(S) \in 0 .. Cardinality(Client)
                    /\ Cardinality(S) \in CountT
  OBVIOUS
<1>2. IsFiniteSet(S) /\ Cardinality(S) <= Cardinality(Client)
  BY ClientAssumption, FS_Subset
<1>3. Cardinality(S) \in Nat
  BY <1>2, FS_CardinalityType
<1> QED BY <1>1, <1>2, <1>3, UIntModAssumption DEF CountT

-----------------------------------------------------------------------------
(* Type correctness *)

(* game_check_players keeps the types of what it writes.                    *)
LEMMA CheckPlayersType ==
  ASSUME TypeOK,
         NEW cs \in [Client -> ClientState], NEW n \in CountT,
         CheckPlayers(cs, n)
  PROVE  /\ cstate' \in [Client -> ClientState]
         /\ n_players' \in CountT
         /\ next_state' \in ServerState /\ loop_finished' \in BOOLEAN
         /\ announced' \in {"nothing", "start", "end"}
         /\ fault' \in {"none", "assert", "overrun"}
<1>1. CASE n = 1 /\ \E winner \in PlayersIn(cs) : RemovePlayers(cs, {winner}, n)
  <2> PICK winner \in PlayersIn(cs) : RemovePlayers(cs, {winner}, n)
    BY <1>1
  <2>1. Cardinality({winner}) = 1
    BY FS_Singleton
  <2>2. n_players' \in CountT
    BY <2>1, CountInt, MinusType DEF RemovePlayers
  <2>3. cstate' \in [Client -> ClientState]
    BY DEF RemovePlayers, Removed
  <2>4. n # 0 /\ PlayersIn(cs) # {}
    BY <1>1
  <2> QED BY <1>1, <2>2, <2>3, <2>4 DEF CheckPlayers, SwitchState, TypeOK
<1>2. CASE ~(n = 1 /\ \E winner \in PlayersIn(cs) : RemovePlayers(cs, {winner}, n))
  BY <1>2 DEF CheckPlayers, SwitchState, NoSwitch, TypeOK
<1> QED BY <1>1, <1>2

(* What is no longer waited for is a count_t's difference.                  *)
LEMMA WaitforType ==
  ASSUME TypeOK, NEW cs, NEW P \in SUBSET Client
  PROVE  WaitforAfter(cs, P) \in CountT
<1> DEFINE S == {c \in P : state = "ROUND" /\ Removed(cs, P)[c] = "IN_GAME"}
<1>1. Cardinality(S) \in Int
  BY ClientSets, CountInt, S \subseteq Client
<1>2. n_waitfor \in Int
  BY CountInt DEF TypeOK
<1> QED BY <1>1, <1>2, MinusType DEF WaitforAfter

(* No handler breaks the types, whatever the malloc'ed counters held.       *)
LEMMA TypeStep == TypeOK /\ [Next]_vars => TypeOK'
<1> SUFFICES ASSUME TypeOK, [Next]_vars PROVE TypeOK'
  OBVIOUS
<1>1. ASSUME NEW c \in Client, Connect(c) PROVE TypeOK'
  BY <1>1 DEF TypeOK, Connect, GameUnchanged, fsm, counts, flags
<1>2. ASSUME NEW c \in Client, Disconnect(c) PROVE TypeOK'
  <2> DEFINE leaver == IF name[c] # NoName THEN {c} \cap Players ELSE {}
             left   == [Removed(cstate, leaver) EXCEPT ![c] = "NONE"]
             n      == Minus(n_players, Cardinality(leaver))
  <2>1. leaver \in SUBSET Client
    OBVIOUS
  <2>2. left \in [Client -> ClientState]
    BY DEF TypeOK, Removed
  <2>3. n \in CountT
    BY <2>1, ClientSets, CountInt, MinusType DEF TypeOK
  <2>4. n_waitfor' \in CountT
    BY <1>2, <2>1, WaitforType DEF Disconnect
  <2>5. name' \in [Client -> Name \cup {NoName}]
    BY <1>2 DEF Disconnect, TypeOK
  <2> HIDE DEF leaver, left, n
  <2>6. \/ CheckPlayers(left, n)
        \/ /\ cstate' = left /\ n_players' = n
           /\ NoSwitch /\ UNCHANGED <<announced, fault>>
    BY <1>2 DEF Disconnect, leaver, left, n
  <2>7. /\ cstate' \in [Client -> ClientState]
        /\ n_players' \in CountT
        /\ next_state' \in ServerState /\ loop_finished' \in BOOLEAN
        /\ announced' \in {"nothing", "start", "end"}
        /\ fault' \in {"none", "assert", "overrun"}
    BY <2>2, <2>3, <2>6, CheckPlayersType DEF NoSwitch, TypeOK
  <2>8. UNCHANGED <<state, pc, continuous_game, abort_game>>
    BY <1>2 DEF Disconnect, flags
  <2>9. left_behind' \subseteq Client
    BY <1>2 DEF Disconnect, LeftBehindBut, TypeOK
  <2> QED BY <2>4, <2>5, <2>7, <2>8, <2>9 DEF TypeOK
<1>3. ASSUME NEW c \in Client, Command(c) PROVE TypeOK'
  <2>1. ASSUME NEW nm \in Name, NEW role \in {"IN_LOBBY", "SUPERVISOR"},
               Auth(c, nm, role)
        PROVE  TypeOK'
    BY <2>1 DEF TypeOK, Auth, GameUnchanged, fsm, counts, flags
  <2>2. CASE ReadyInLobby(c)
    BY <2>2 DEF TypeOK, ReadyInLobby, GameUnchanged, fsm, counts, flags
  <2>3. CASE ReadyInGame(c)
    <3>1. n_waitfor' \in CountT
      BY <2>3, CountInt, MinusType DEF ReadyInGame, TypeOK
    <3> QED BY <2>3, <3>1 DEF TypeOK, ReadyInGame, SwitchState, NoSwitch, flags
  <2>4. CASE NotReady(c)
    BY <2>4 DEF TypeOK, NotReady, GameUnchanged, fsm, counts, flags
  <2>5. CASE Start(c) \/ Step(c)
    BY <2>5 DEF TypeOK, Start, Step, SwitchState, CommandUnchanged, counts, flags
  <2>6. CASE Run(c) \/ Abort(c)
    BY <2>6 DEF TypeOK, Run, Abort, SwitchState, CommandUnchanged, counts
  <2>7. CASE Pause(c)
    BY <2>7 DEF TypeOK, Pause, NoSwitch, CommandUnchanged, counts
  <2> QED BY <1>3, <2>1, <2>2, <2>3, <2>4, <2>5, <2>6, <2>7 DEF Command
<1>4. CASE LobbyExit
  <2>1. n_players' \in CountT
    BY <1>4, ClientSets DEF LobbyExit, Ready, InState
  <2> QED BY <1>4, <2>1 DEF TypeOK, LobbyExit
<1>5. CASE BeforeRoundExit
  BY <1>5 DEF TypeOK, BeforeRoundExit, counts, flags
<1>6. ASSUME NEW bankrupt \in SUBSET Players, RoundExit(bankrupt) PROVE TypeOK'
  <2> DEFINE n  == Minus(n_players, Cardinality(bankrupt))
             cs == Removed(cstate, bankrupt)
  <2>1. bankrupt \in SUBSET Client
    BY DEF Players, PlayersIn, InState
  <2>2. /\ n \in CountT
        /\ cs \in [Client -> ClientState]
    <3>1. n \in CountT
      BY <2>1, ClientSets, CountInt, MinusType DEF TypeOK
    <3> QED BY <3>1 DEF TypeOK, Removed
  <2>3. n_waitfor' \in CountT
    BY <1>6, <2>1, WaitforType DEF RoundExit
  <2> HIDE DEF n, cs
  <2>4. CheckPlayers(cs, n)
    BY <1>6 DEF RoundExit, n, cs
  <2>5. /\ cstate' \in [Client -> ClientState]
        /\ n_players' \in CountT
        /\ next_state' \in ServerState /\ loop_finished' \in BOOLEAN
        /\ announced' \in {"nothing", "start", "end"}
        /\ fault' \in {"none", "assert", "overrun"}
    BY <2>2, <2>4, CheckPlayersType
  <2> QED BY <1>6, <2>3, <2>5 DEF TypeOK, RoundExit, flags
<1>7. CASE OffersOverrun
  BY <1>7 DEF TypeOK, OffersOverrun, fsm, counts, flags
<1>8. CASE LobbyEnter
  BY <1>8 DEF TypeOK, LobbyEnter, Players, PlayersIn, InState, counts, flags
<1>9. CASE BeforeRoundEnter
  BY <1>9 DEF TypeOK, BeforeRoundEnter, counts, flags
<1>10. CASE RoundEnter
  BY <1>10 DEF TypeOK, RoundEnter, flags
<1>11. CASE UNCHANGED vars
  BY <1>11 DEF TypeOK, vars, fsm, counts, flags
<1> QED BY <1>1, <1>2, <1>3, <1>4, <1>5, <1>6, <1>7, <1>8, <1>9, <1>10, <1>11
        DEF Next, Loop

(* The types of all variables: server_fsm_new establishes them and no       *)
(* handler breaks them, whatever the malloc'ed counters held.               *)
THEOREM TypeCorrect == Spec => []TypeOK
<1>1. Init => TypeOK
  BY GarbageAssumption DEF Init, TypeOK, CountT
<1> QED BY <1>1, TypeStep, PTL DEF Spec

-----------------------------------------------------------------------------
(* Names *)

(* game_check_players only ever sends a player back to the lobby.           *)
LEMMA CheckPlayersMoves ==
  ASSUME NEW cs \in [Client -> ClientState], NEW n \in CountT,
         CheckPlayers(cs, n),
         NEW c \in Client
  PROVE  \/ cstate'[c] = cs[c]
         \/ cs[c] \in {"IN_GAME", "IN_GAME_WAIT"} /\ cstate'[c] = "IN_LOBBY"
<1>1. CASE \E winner \in PlayersIn(cs) : RemovePlayers(cs, {winner}, n)
  BY <1>1 DEF RemovePlayers, Removed, PlayersIn, InState
<1>2. CASE cstate' = cs
  BY <1>2
<1> QED BY <1>1, <1>2 DEF CheckPlayers

Unnamed == {"NONE", "CONNECTED"}

(* No handler gives a client a name that another has, or leaves a name behind. *)
LEMMA NamesStep == TypeOK /\ NamesIdentify /\ [Next]_vars => NamesIdentify'
<1> SUFFICES ASSUME TypeOK, NamesIdentify, [Next]_vars PROVE NamesIdentify'
  OBVIOUS
<1>0. ASSUME name' = name,
             \A c \in Client : cstate'[c] \in Unnamed <=> cstate[c] \in Unnamed
      PROVE  NamesIdentify'
  BY <1>0 DEF NamesIdentify, Unnamed
<1>1. ASSUME NEW c \in Client, Connect(c) PROVE NamesIdentify'
  BY <1>0, <1>1 DEF Connect, TypeOK, Unnamed
<1>2. ASSUME NEW c \in Client, Disconnect(c) PROVE NamesIdentify'
  <2> DEFINE leaver == IF name[c] # NoName THEN {c} \cap Players ELSE {}
             left   == [Removed(cstate, leaver) EXCEPT ![c] = "NONE"]
             n      == Minus(n_players, Cardinality(leaver))
  <2>1. left \in [Client -> ClientState] /\ left[c] = "NONE"
    BY DEF TypeOK, Removed
  <2>2. \A d \in Client \ {c} : left[d] = cstate[d]
    BY DEF TypeOK, Removed
  <2>3. leaver \in SUBSET Client
    OBVIOUS
  <2>4. n \in CountT
    BY <2>3, ClientSets, CountInt, MinusType DEF TypeOK
  <2>5. name' = [name EXCEPT ![c] = NoName]
    BY <1>2 DEF Disconnect
  <2>6. CheckPlayers(left, n) \/ cstate' = left
    BY <1>2 DEF Disconnect
  <2> HIDE DEF leaver, left, n
  <2>7. ASSUME NEW d \in Client PROVE cstate'[d] \in Unnamed <=> left[d] \in Unnamed
    BY <2>1, <2>4, <2>6, CheckPlayersMoves DEF Unnamed
  <2> QED BY <2>1, <2>2, <2>5, <2>7 DEF NamesIdentify, Unnamed, TypeOK
<1>3. ASSUME NEW c \in Client, Command(c) PROVE NamesIdentify'
  <2>1. ASSUME NEW nm \in Name, NEW role \in {"IN_LOBBY", "SUPERVISOR"},
               Auth(c, nm, role)
        PROVE  NamesIdentify'
    <3>1. /\ name' = [name EXCEPT ![c] = nm]
          /\ cstate' = [cstate EXCEPT ![c] = role]
          /\ \A d \in Client : name[d] # nm
      BY <2>1 DEF Auth
    <3> QED BY <3>1, NameAssumption DEF NamesIdentify, TypeOK
  <2>2. CASE ReadyInLobby(c) \/ ReadyInGame(c) \/ NotReady(c)
    BY <1>0, <2>2 DEF ReadyInLobby, ReadyInGame, NotReady, Allowed, TypeOK, Unnamed
  <2>3. CASE Start(c) \/ Step(c) \/ Run(c) \/ Pause(c) \/ Abort(c)
    BY <1>0, <2>3 DEF Start, Step, Run, Pause, Abort, CommandUnchanged
  <2> QED BY <1>3, <2>1, <2>2, <2>3 DEF Command
<1>4. CASE LobbyExit
  BY <1>0, <1>4 DEF LobbyExit, Ready, InState, TypeOK, Unnamed
<1>5. ASSUME NEW bankrupt \in SUBSET Players, RoundExit(bankrupt)
      PROVE  NamesIdentify'
  <2> DEFINE n  == Minus(n_players, Cardinality(bankrupt))
             cs == Removed(cstate, bankrupt)
  <2>1. bankrupt \in SUBSET Client
    BY DEF Players, PlayersIn, InState
  <2>2. n \in CountT
    BY <2>1, ClientSets, CountInt, MinusType DEF TypeOK
  <2>3. cs \in [Client -> ClientState]
    BY DEF TypeOK, Removed
  <2>4. \A c \in Client : cs[c] \in Unnamed <=> cstate[c] \in Unnamed
    BY DEF Removed, Players, PlayersIn, InState, TypeOK, Unnamed
  <2>5. CheckPlayers(cs, n) /\ name' = name
    BY <1>5 DEF RoundExit
  <2> HIDE DEF n, cs
  <2>6. ASSUME NEW c \in Client PROVE cstate'[c] \in Unnamed <=> cs[c] \in Unnamed
    BY <2>2, <2>3, <2>5, CheckPlayersMoves DEF Unnamed
  <2> QED BY <1>0, <2>4, <2>5, <2>6
<1>6. CASE BeforeRoundExit \/ OffersOverrun \/ LobbyEnter \/ BeforeRoundEnter
  BY <1>0, <1>6 DEF BeforeRoundExit, OffersOverrun, LobbyEnter, BeforeRoundEnter
<1>7. CASE RoundEnter
  BY <1>0, <1>7 DEF RoundEnter, TypeOK, Unnamed
<1>8. CASE UNCHANGED vars
  BY <1>0, <1>8 DEF vars
<1> QED BY <1>1, <1>2, <1>3, <1>4, <1>5, <1>6, <1>7, <1>8 DEF Next, Loop

(* A client is named exactly while it is logged in, and no name is taken    *)
(* twice, whatever the order of logins, games and disconnects.              *)
THEOREM NamesIdentified == Spec => []NamesIdentify
<1>1. Init => NamesIdentify
  BY DEF Init, NamesIdentify
<1> QED BY <1>1, NamesStep, TypeCorrect, PTL DEF Spec

-----------------------------------------------------------------------------
(* The count of players, aborted games included *)

(* n lags behind the count p of players by k, the size of a set of clients. *)
Lags(n, p, k) == k \in 0 .. Cardinality(Client) /\ n = Minus(p, k)

(* The strengthening: between lobby_on_exit and the switch to the next      *)
(* state fsm->state is still the lobby, and the count must lag already.     *)
InGame == state # "LOBBY" \/ pc = "exited"

LagInv ==
  /\ InGame => n_players = Minus(Cardinality(Players), Cardinality(left_behind))
  /\ ~InGame => left_behind = Players
  /\ WinnerExists

(* The lag is the number of those left behind. *)
LEMMA LagIsLeft ==
  ASSUME TypeOK, LagInv, InGame
  PROVE  Lags(n_players, Cardinality(Players), Cardinality(left_behind))
  BY ClientSets DEF TypeOK, LagInv, Lags

(* Taking some of the players out, and as many off the counter, leaves the  *)
(* lag what it was.                                                         *)
LEMMA LagKept ==
  ASSUME NEW P \in SUBSET Client, NEW Q \in SUBSET P, NEW n \in CountT, NEW k,
         Lags(n, Cardinality(P), k)
  PROVE  Lags(Minus(n, Cardinality(Q)), Cardinality(P \ Q), k)
<1> DEFINE p == Cardinality(P)
           q == Cardinality(Q)
           N == Cardinality(Client)
<1>1. p \in 0 .. N /\ q \in 0 .. N /\ N \in Nat
  BY ClientSets, UIntModPositive
<1>2. q <= p /\ Cardinality(P \ Q) = p - q
  <2>1. IsFiniteSet(P)
    BY ClientSets
  <2>2. q <= p
    BY <2>1, FS_Subset
  <2>3. P \cap Q = Q
    OBVIOUS
  <2> QED BY <2>1, <2>2, <2>3, FS_Difference
<1> HIDE DEF p, q, N
<1>3. UIntMod \in Nat /\ N + 1 < UIntMod /\ k \in 0 .. N /\ n = Minus(p, k)
  BY UIntModAssumption, UIntModPositive DEF N, p, Lags
<1>4. /\ Minus(p, k) = IF k <= p THEN p - k ELSE p - k + UIntMod
      /\ Minus(n, q) = IF q <= n THEN n - q ELSE n - q + UIntMod
      /\ Minus(p - q, k) = IF k <= p - q THEN p - q - k ELSE p - q - k + UIntMod
  <2>1. p \in CountT /\ k \in CountT /\ q \in CountT /\ p - q \in CountT
    BY <1>1, <1>2, <1>3 DEF CountT
  <2> QED BY <2>1, MinusValue
<1>5. Minus(n, q) = Minus(p - q, k)
  BY <1>1, <1>2, <1>3, <1>4 DEF CountT
<1> QED BY <1>2, <1>3, <1>5 DEF Lags, p, q, N

(* A count of one that lags behind the players cannot do so with no player  *)
(* left: it would have to lag by more than there are clients.               *)
LEMMA OneIsSomebody ==
  ASSUME NEW P \in SUBSET Client, NEW k, Lags(1, Cardinality(P), k)
  PROVE  P # {}
<1> SUFFICES ASSUME P = {} PROVE FALSE
  OBVIOUS
<1>0. k \in 0 .. Cardinality(Client) /\ 1 = Minus(0, k)
  BY FS_EmptySet DEF Lags
<1>1. 0 \in CountT /\ k \in CountT
  BY <1>0, UIntModAssumption, UIntModPositive DEF CountT
<1>2. Minus(0, k) = IF k <= 0 THEN 0 - k ELSE 0 - k + UIntMod
  BY <1>1, MinusValue
<1> QED BY <1>0, <1>2, UIntModAssumption, UIntModPositive

(* game_check_players finds a winner, and keeps the lag.                    *)
LEMMA CheckPlayersLag ==
  ASSUME NEW cs \in [Client -> ClientState], NEW n \in CountT, NEW k,
         Lags(n, Cardinality(PlayersIn(cs)), k), CheckPlayers(cs, n)
  PROVE  fault' = fault /\ Lags(n_players', Cardinality(Players'), k)
<1>1. PlayersIn(cs) \in SUBSET Client
  BY DEF PlayersIn, InState
<1>2. CASE n = 1 /\ \E winner \in PlayersIn(cs) : RemovePlayers(cs, {winner}, n)
  <2> PICK winner \in PlayersIn(cs) : RemovePlayers(cs, {winner}, n)
    BY <1>2
  <2>1. Players' = PlayersIn(cs) \ {winner}
    BY DEF RemovePlayers, Removed, Players, PlayersIn, InState
  <2>2. n_players' = Minus(n, Cardinality({winner}))
    BY DEF RemovePlayers
  <2>3. Lags(n_players', Cardinality(Players'), k)
    BY <1>1, <2>1, <2>2, LagKept, {winner} \in SUBSET PlayersIn(cs)
  <2>4. fault' = fault
    BY <1>2 DEF CheckPlayers
  <2> QED BY <2>3, <2>4
<1>3. CASE ~(n = 1 /\ \E winner \in PlayersIn(cs) : RemovePlayers(cs, {winner}, n))
  <2>1. ~(n = 1 /\ PlayersIn(cs) = {})
    BY <1>1, OneIsSomebody
  <2>2. cstate' = cs /\ n_players' = n /\ fault' = fault
    BY <1>3, <2>1 DEF CheckPlayers
  <2>3. Players' = PlayersIn(cs)
    BY <2>2 DEF Players
  <2> QED BY <2>2, <2>3
<1> QED BY <1>2, <1>3

(* The inductive step of LagInv, which the theorems below share.            *)
LEMMA LagInvStep ==
  TypeOK /\ NamesIdentify /\ LagInv /\ [Next]_vars => LagInv'
<1> SUFFICES ASSUME TypeOK, NamesIdentify, LagInv, [Next]_vars PROVE LagInv'
  OBVIOUS
<1> USE DEF LagInv, WinnerExists
<1>0. ASSUME fault' = fault \/ fault' = "overrun", n_players' = n_players,
             InGame' = InGame, Players' = Players, left_behind' = left_behind
      PROVE  LagInv'
  BY <1>0
<1>1. ASSUME NEW c \in Client, Connect(c) PROVE LagInv'
  BY <1>0, <1>1 DEF Connect, GameUnchanged, fsm, counts, InGame, TypeOK, Players,
                    PlayersIn, InState
<1>2. ASSUME NEW c \in Client, Disconnect(c) PROVE LagInv'
  <2> DEFINE leaver == IF name[c] # NoName THEN {c} \cap Players ELSE {}
             left   == [Removed(cstate, leaver) EXCEPT ![c] = "NONE"]
             n      == Minus(n_players, Cardinality(leaver))
  <2>1. leaver = {c} \cap Players
    BY DEF NamesIdentify, Players, PlayersIn, InState
  <2>2. left \in [Client -> ClientState]
    BY DEF TypeOK, Removed
  <2>3. PlayersIn(left) = Players \ {c}
    BY <2>1 DEF Players, PlayersIn, InState, TypeOK, Removed
  <2>4. leaver \in SUBSET Players /\ Players \in SUBSET Client /\ Players \ {c} = Players \ leaver
    BY <2>1 DEF Players, PlayersIn, InState
  <2>5. n \in CountT
    BY <2>4, ClientSets, CountInt, MinusType DEF TypeOK
  <2>6. PICK k : k = Cardinality(left_behind)
    OBVIOUS
  <2>7. InGame => Lags(n, Cardinality(PlayersIn(left)), k)
    BY <2>3, <2>4, <2>6, LagIsLeft, LagKept DEF TypeOK
  <2>8. UNCHANGED <<state, pc>> /\ pc = "event" /\ left_behind' = LeftBehindBut(c)
    BY <1>2 DEF Disconnect, Idle
  <2>9. CASE state \in {"ROUND", "BEFORE_ROUND"}
    <3>1. CheckPlayers(left, n) /\ InGame /\ InGame' /\ left_behind' = left_behind
      BY <1>2, <2>8, <2>9 DEF Disconnect, InGame, LeftBehindBut
    <3> HIDE DEF leaver, left, n
    <3>2. fault' = fault /\ Lags(n_players', Cardinality(Players'), k)
      BY <2>2, <2>5, <2>7, <3>1, CheckPlayersLag
    <3>3. n_players' = Minus(Cardinality(Players'), Cardinality(left_behind'))
      BY <2>6, <3>1, <3>2 DEF Lags
    <3> QED BY <3>1, <3>2, <3>3
  <2>10. CASE state \notin {"ROUND", "BEFORE_ROUND"}
    <3>1. fault' = fault /\ cstate' = left
      BY <1>2, <2>10 DEF Disconnect
    <3>2. state = "LOBBY" /\ ~InGame /\ ~InGame'
      BY <2>8, <2>10 DEF InGame, TypeOK
    <3>3. Players' = Players \ {c}
      BY <2>3, <3>1 DEF Players
    <3>4. left_behind' = left_behind \ {c}
      BY <2>8, <3>2 DEF LeftBehindBut
    <3> QED BY <3>1, <3>2, <3>3, <3>4
  <2> QED BY <2>9, <2>10
<1>3. ASSUME NEW c \in Client, Command(c) PROVE LagInv'
  <2>1. ASSUME NEW nm \in Name, NEW role \in {"IN_LOBBY", "SUPERVISOR"},
               Auth(c, nm, role)
        PROVE  LagInv'
    BY <1>0, <2>1 DEF Auth, Allowed, GameUnchanged, fsm, counts, InGame, TypeOK,
                      Players, PlayersIn, InState
  <2>2. CASE ReadyInLobby(c) \/ NotReady(c)
    BY <1>0, <2>2 DEF ReadyInLobby, NotReady, Allowed, GameUnchanged, fsm, counts,
                      InGame, TypeOK, Players, PlayersIn, InState
  <2>3. CASE ReadyInGame(c)
    BY <1>0, <2>3 DEF ReadyInGame, Allowed, InGame, TypeOK, Players, PlayersIn, InState
  <2>4. CASE Start(c) \/ Step(c) \/ Run(c) \/ Pause(c) \/ Abort(c)
    BY <1>0, <2>4 DEF Start, Step, Run, Pause, Abort, CommandUnchanged, counts,
                      InGame, Players
  <2> QED BY <1>3, <2>1, <2>2, <2>3, <2>4 DEF Command
<1>4. CASE LobbyExit
  <2> DEFINE k == Cardinality(Players)
             r == Cardinality(Ready)
  <2>1. /\ Players \in SUBSET Client /\ Ready \in SUBSET Client
        /\ Players \cap Ready = {}
        /\ Players' = Players \cup Ready
        /\ InGame' /\ left_behind' = Players
    BY <1>4 DEF LobbyExit, Exiting, InGame, Players, PlayersIn, Ready, InState
  <2>2. /\ IsFiniteSet(Players) /\ IsFiniteSet(Ready)
        /\ k \in 0 .. Cardinality(Client)
        /\ Players \cup Ready \in SUBSET Client
    BY <2>1, ClientSets
  <2>3. Cardinality(Players \cup Ready) = k + r
    <3>1. Cardinality(Players \cup Ready) = k + r - Cardinality(Players \cap Ready)
      BY <2>2, FS_Union
    <3>2. Cardinality(Players \cap Ready) = 0
      BY <2>1, FS_EmptySet
    <3>3. k \in Nat /\ r \in Nat
      BY <2>2, FS_CardinalityType
    <3> QED BY <3>1, <3>2, <3>3
  <2>4. k + r \in CountT /\ k \in CountT /\ r \in Nat
    BY <2>1, <2>2, <2>3, ClientSets, UIntModPositive DEF CountT
  <2>6. n_players' = r /\ fault' = fault
    BY <1>4 DEF LobbyExit
  <2>7. Cardinality(Players') = k + r /\ Cardinality(left_behind') = k
    BY <2>1, <2>3
  <2> HIDE DEF k, r
  <2>5. Minus(k + r, k) = r
    <3>1. k \in Nat /\ k <= k + r /\ (k + r) - k = r
      BY <2>4 DEF CountT
    <3> QED BY <2>4, <3>1, MinusValue
  <2> QED BY <2>1, <2>5, <2>6, <2>7
<1>5. ASSUME NEW bankrupt \in SUBSET Players, RoundExit(bankrupt) PROVE LagInv'
  <2> DEFINE n  == Minus(n_players, Cardinality(bankrupt))
             cs == Removed(cstate, bankrupt)
  <2>1. Players \in SUBSET Client
    BY DEF Players, PlayersIn, InState
  <2>2. n \in CountT
    BY <2>1, ClientSets, CountInt, MinusType DEF TypeOK
  <2>3. cs \in [Client -> ClientState] /\ PlayersIn(cs) = Players \ bankrupt
    BY DEF TypeOK, Removed, Players, PlayersIn, InState
  <2>4. CheckPlayers(cs, n) /\ InGame /\ InGame' /\ left_behind' = left_behind
    BY <1>5 DEF RoundExit, Exiting, InGame
  <2>5. PICK k : k = Cardinality(left_behind)
    OBVIOUS
  <2>6. Lags(n, Cardinality(PlayersIn(cs)), k)
    BY <2>1, <2>3, <2>4, <2>5, LagIsLeft, LagKept DEF TypeOK
  <2> HIDE DEF n, cs
  <2>7. fault' = fault /\ Lags(n_players', Cardinality(Players'), k)
    BY <2>2, <2>3, <2>4, <2>6, CheckPlayersLag
  <2>8. n_players' = Minus(Cardinality(Players'), Cardinality(left_behind'))
    BY <2>4, <2>5, <2>7 DEF Lags
  <2> QED BY <2>4, <2>7, <2>8
<1>6. CASE BeforeRoundExit \/ OffersOverrun \/ BeforeRoundEnter
  BY <1>0, <1>6 DEF BeforeRoundExit, OffersOverrun, BeforeRoundEnter,
                    Exiting, Entering, fsm, counts, InGame, Players
<1>7. CASE LobbyEnter
  BY <1>7 DEF LobbyEnter, InGame, Players
<1>8. CASE RoundEnter
  BY <1>0, <1>8 DEF RoundEnter, Entering, InGame, TypeOK, Players, PlayersIn, InState
<1>9. CASE UNCHANGED vars
  BY <1>0, <1>9 DEF vars, fsm, counts, InGame, Players
<1> QED BY <1>1, <1>2, <1>3, <1>4, <1>5, <1>6, <1>7, <1>8, <1>9 DEF Next, Loop

(* The lag of the counter behind the players is as LagInv says, always. *)
LEMMA LagInvHolds == Spec => []LagInv
<1>1. Init => LagInv
  BY DEF Init, LagInv, InGame, WinnerExists, Players, PlayersIn, InState
<1> QED BY <1>1, LagInvStep, TypeCorrect, NamesIdentified, PTL DEF Spec

(* game_check_players's assertion never fails.                              *)
THEOREM WinnerFound == Spec => []WinnerExists
<1>1. LagInv => WinnerExists
  BY DEF LagInv
<1> QED BY <1>1, LagInvHolds, PTL

-----------------------------------------------------------------------------
(* The count of players while no game was ever aborted *)

CountInv ==
  ~abort_game =>
    /\ InGame => /\ n_players = Cardinality(Players)
                 /\ next_state = "LOBBY" => Players = {}
                 /\ next_state # "LOBBY" => Cardinality(Players) >= 2
    /\ ~InGame => Players = {}
    /\ ~InGame /\ loop_finished => Cardinality(Ready) >= 2 /\ next_state # "LOBBY"
    /\ announced = "start" <=> InGame /\ next_state # "LOBBY"
    /\ Idle /\ state # "LOBBY" => next_state # "LOBBY"

(* With an exact count, game_check_players lets a game of two or more go on *)
(* and empties any other.                                                   *)
LEMMA CheckPlayersCount ==
  ASSUME NEW cs \in [Client -> ClientState], NEW n \in CountT,
         n = Cardinality(PlayersIn(cs)), CheckPlayers(cs, n)
  PROVE  \/ /\ n >= 2
            /\ Players' = PlayersIn(cs) /\ n_players' = n
            /\ NoSwitch /\ UNCHANGED announced
         \/ /\ n < 2
            /\ Players' = {} /\ n_players' = Cardinality(Players')
            /\ SwitchState("LOBBY") /\ announced' = "end"
<1>1. PlayersIn(cs) \in SUBSET Client /\ IsFiniteSet(PlayersIn(cs))
  BY ClientSets DEF PlayersIn, InState
<1>2. CASE n = 0
  <2>1. PlayersIn(cs) = {}
    BY <1>1, <1>2, FS_EmptySet
  <2> QED BY <1>2, <2>1, FS_EmptySet DEF CheckPlayers, Players
<1>3. CASE n = 1
  <2>1. PICK x : PlayersIn(cs) = {x}
    BY <1>1, <1>3, FS_Singleton
  <2>2. RemovePlayers(cs, {x}, n) /\ announced' = "end" /\ SwitchState("LOBBY")
    BY <1>3, <2>1 DEF CheckPlayers
  <2>3. Players' = {}
    BY <2>1, <2>2 DEF RemovePlayers, Removed, Players, PlayersIn, InState
  <2>4. Minus(1, 1) = 0
    BY MinusValue, UIntModPositive DEF CountT
  <2>5. n_players' = 0
    BY <1>3, <2>2, <2>4, FS_Singleton DEF RemovePlayers
  <2> QED BY <1>3, <2>2, <2>3, <2>5, FS_EmptySet
<1>4. CASE n \notin {0, 1}
  <2>1. n >= 2
    BY <1>4 DEF CountT
  <2> QED BY <1>4, <2>1 DEF CheckPlayers, Players
<1> QED BY <1>2, <1>3, <1>4

(* An exact count stays exact when players are taken out.                   *)
LEMMA CountKept ==
  ASSUME NEW P \in SUBSET Client, NEW Q \in SUBSET P
  PROVE  Minus(Cardinality(P), Cardinality(Q)) = Cardinality(P \ Q)
<1> DEFINE p == Cardinality(P)
           q == Cardinality(Q)
<1>1. IsFiniteSet(P) /\ p \in CountT /\ q \in CountT
  BY ClientSets
<1>2. q <= p
  BY <1>1, FS_Subset
<1>3. Cardinality(P \ Q) = p - q
  BY <1>1, FS_Difference, P \cap Q = Q
<1> QED BY <1>1, <1>2, <1>3, MinusValue

(* Every step of a server that is not aborted keeps the counter exact. *)
LEMMA CountInvStep ==
  TypeOK /\ NamesIdentify /\ CountInv /\ [Next]_vars => CountInv'
<1> SUFFICES ASSUME TypeOK, NamesIdentify, CountInv, [Next]_vars, ~abort_game'
             PROVE  CountInv'
  BY DEF CountInv
<1> USE DEF CountInv
<1>0. ASSUME UNCHANGED <<state, pc, next_state, loop_finished, n_players, announced,
                         abort_game, fault>>,
             Players' = Players, Idle \/ Ready' = Ready
      PROVE  CountInv'
  BY <1>0 DEF InGame, Idle
<1>1. ASSUME NEW c \in Client, Connect(c) PROVE CountInv'
  <2>1. Players' = Players /\ Idle
    BY <1>1 DEF Connect, TypeOK, Players, PlayersIn, InState
  <2> QED BY <1>0, <1>1, <2>1 DEF Connect, GameUnchanged, fsm, counts, flags
<1>2. ASSUME NEW c \in Client, Disconnect(c) PROVE CountInv'
  <2> DEFINE leaver == IF name[c] # NoName THEN {c} \cap Players ELSE {}
             left   == [Removed(cstate, leaver) EXCEPT ![c] = "NONE"]
             n      == Minus(n_players, Cardinality(leaver))
  <2>1. leaver = {c} \cap Players
    BY DEF NamesIdentify, Players, PlayersIn, InState
  <2>2. left \in [Client -> ClientState]
    BY DEF TypeOK, Removed
  <2>3. PlayersIn(left) = Players \ leaver
    BY <2>1 DEF Players, PlayersIn, InState, TypeOK, Removed
  <2>4. leaver \in SUBSET Players /\ Players \in SUBSET Client
    BY <2>1 DEF Players, PlayersIn, InState
  <2>5. n \in CountT
    BY <2>4, ClientSets, CountInt, MinusType DEF TypeOK
  <2>6. UNCHANGED <<state, pc, abort_game>> /\ Idle
    BY <1>2 DEF Disconnect, flags
  <2>7. CASE state \in {"ROUND", "BEFORE_ROUND"}
    <3>1. CheckPlayers(left, n) /\ InGame /\ InGame'
      BY <1>2, <2>6, <2>7 DEF Disconnect, InGame
    <3>2. n = Cardinality(PlayersIn(left))
      BY <2>3, <2>4, <2>6, <3>1, CountKept
    <3> HIDE DEF leaver, left, n
    <3>3. \/ /\ Cardinality(Players') >= 2 /\ n_players' = Cardinality(Players')
             /\ NoSwitch /\ UNCHANGED announced
          \/ /\ Players' = {} /\ n_players' = Cardinality(Players')
             /\ SwitchState("LOBBY") /\ announced' = "end"
      BY <2>2, <2>5, <3>1, <3>2, CheckPlayersCount
    <3>4. next_state # "LOBBY"
      BY <2>6, <2>7
    <3> QED BY <2>6, <2>7, <3>1, <3>3, <3>4 DEF NoSwitch, SwitchState, Idle
  <2>8. CASE state \notin {"ROUND", "BEFORE_ROUND"}
    <3>1. state = "LOBBY" /\ ~InGame /\ ~InGame' /\ ~loop_finished
      BY <2>6, <2>8 DEF TypeOK, InGame, Idle
    <3>2. cstate' = left /\ NoSwitch /\ UNCHANGED <<announced, fault>>
      BY <1>2, <2>8 DEF Disconnect
    <3>3. Players' = {}
      BY <2>3, <2>6, <3>1, <3>2 DEF Players
    <3> QED BY <2>6, <3>1, <3>2, <3>3 DEF NoSwitch, Idle
  <2> QED BY <2>7, <2>8
<1>3. ASSUME NEW c \in Client, Command(c) PROVE CountInv'
  <2>1. ASSUME NEW nm \in Name, NEW role \in {"IN_LOBBY", "SUPERVISOR"},
               Auth(c, nm, role)
        PROVE  CountInv'
    <3>1. Players' = Players /\ Idle
      BY <2>1 DEF Auth, Allowed, TypeOK, Players, PlayersIn, InState
    <3> QED BY <1>0, <2>1, <3>1 DEF Auth, GameUnchanged, fsm, counts, flags
  <2>2. CASE ReadyInLobby(c) \/ NotReady(c)
    <3>1. Players' = Players /\ Idle
      BY <2>2 DEF ReadyInLobby, NotReady, Allowed, TypeOK, Players, PlayersIn, InState
    <3> QED BY <1>0, <2>2, <3>1
            DEF ReadyInLobby, NotReady, GameUnchanged, fsm, counts, flags
  <2>3. CASE ReadyInGame(c)
    <3>1. Players' = Players /\ Idle /\ Players # {}
      BY <2>3 DEF ReadyInGame, Allowed, TypeOK, Players, PlayersIn, InState
    <3>2. UNCHANGED <<state, pc, n_players, announced, abort_game, fault>>
      BY <2>3 DEF ReadyInGame, flags
    <3>3. SwitchState("BEFORE_ROUND") \/ NoSwitch
      BY <2>3 DEF ReadyInGame
    <3>4. state # "LOBBY" /\ next_state # "LOBBY"
      BY <3>1, <3>2 DEF InGame, Idle
    <3> QED BY <3>1, <3>2, <3>3, <3>4 DEF InGame, Idle, SwitchState, NoSwitch
  <2>4. CASE Start(c)
    <3>1. /\ Idle /\ state = "LOBBY" /\ Cardinality(Ready) >= 2
          /\ SwitchState("BEFORE_ROUND")
          /\ UNCHANGED <<state, pc, cstate, n_players, announced, fault, abort_game>>
      BY <2>4 DEF Start, Allowed, CommandUnchanged, counts, flags
    <3>2. Players' = Players /\ Ready' = Ready
      BY <3>1 DEF Players, Ready
    <3> QED BY <3>1, <3>2 DEF Idle, InGame, SwitchState
  <2>5. CASE Step(c) \/ Run(c)
    <3>1. /\ Idle /\ state = "BEFORE_ROUND" /\ SwitchState("ROUND")
          /\ UNCHANGED <<state, pc, cstate, n_players, announced, fault, abort_game>>
      BY <2>5 DEF Step, Run, Allowed, CommandUnchanged, counts, flags
    <3>2. Players' = Players
      BY <3>1 DEF Players
    <3> QED BY <3>1, <3>2 DEF Idle, InGame, SwitchState
  <2>6. CASE Pause(c)
    <3>1. Players' = Players /\ Ready' = Ready
      BY <2>6 DEF Pause, CommandUnchanged, Players, Ready
    <3> QED BY <1>0, <2>6, <3>1 DEF Pause, NoSwitch, CommandUnchanged, counts
  <2>7. CASE Abort(c)
    BY <2>7 DEF Abort
  <2> QED BY <1>3, <2>1, <2>2, <2>3, <2>4, <2>5, <2>6, <2>7 DEF Command
<1>4. CASE LobbyExit
  <2>1. /\ state = "LOBBY" /\ pc = "event" /\ loop_finished
        /\ pc' = "exited" /\ n_players' = Cardinality(Ready)
        /\ announced' = "start"
        /\ UNCHANGED <<next_state, abort_game>>
    BY <1>4 DEF LobbyExit, Exiting
  <2>2. Players = {} /\ Cardinality(Ready) >= 2 /\ next_state # "LOBBY"
    BY <2>1 DEF InGame
  <2>3. Players' = Ready
    BY <1>4, <2>2 DEF LobbyExit, Players, PlayersIn, Ready, InState
  <2> QED BY <2>1, <2>2, <2>3 DEF InGame, Idle
<1>5. ASSUME NEW bankrupt \in SUBSET Players, RoundExit(bankrupt) PROVE CountInv'
  <2> DEFINE n  == Minus(n_players, Cardinality(bankrupt))
             cs == Removed(cstate, bankrupt)
  <2>1. Players \in SUBSET Client
    BY DEF Players, PlayersIn, InState
  <2>2. n \in CountT
    BY <2>1, ClientSets, CountInt, MinusType DEF TypeOK
  <2>3. cs \in [Client -> ClientState] /\ PlayersIn(cs) = Players \ bankrupt
    BY DEF TypeOK, Removed, Players, PlayersIn, InState
  <2>4. /\ CheckPlayers(cs, n) /\ state = "ROUND" /\ pc' = "exited"
        /\ UNCHANGED <<state, abort_game>>
    BY <1>5 DEF RoundExit, Exiting, flags
  <2>5. n = Cardinality(PlayersIn(cs))
    BY <2>1, <2>3, <2>4, CountKept DEF InGame
  <2>6. n >= 2 => next_state # "LOBBY"
    <3> SUFFICES ASSUME next_state = "LOBBY" PROVE n < 2
      BY <2>2 DEF CountT
    <3>1. PlayersIn(cs) = {}
      BY <2>3, <2>4 DEF InGame
    <3> QED BY <2>5, <3>1, FS_EmptySet
  <2> HIDE DEF n, cs
  <2>7. \/ /\ n >= 2 /\ Cardinality(Players') >= 2 /\ n_players' = Cardinality(Players')
           /\ NoSwitch /\ UNCHANGED announced
        \/ /\ Players' = {} /\ n_players' = Cardinality(Players')
           /\ SwitchState("LOBBY") /\ announced' = "end"
    BY <2>2, <2>3, <2>4, <2>5, CheckPlayersCount
  <2> QED BY <2>4, <2>6, <2>7 DEF InGame, Idle, NoSwitch, SwitchState
<1>6. CASE BeforeRoundExit
  <2>1. Players' = Players
    BY <1>6 DEF BeforeRoundExit, Players
  <2> QED BY <1>6, <2>1 DEF BeforeRoundExit, Exiting, InGame, Idle, counts, flags
<1>7. CASE OffersOverrun
  <2>1. Players' = Players /\ Ready' = Ready
    BY <1>7 DEF OffersOverrun, Players, Ready
  <2> QED BY <1>7, <2>1 DEF OffersOverrun, Exiting, InGame, Idle, fsm, counts, flags
<1>8. CASE LobbyEnter \/ BeforeRoundEnter
  <2>1. Players' = Players
    BY <1>8 DEF LobbyEnter, BeforeRoundEnter, Players
  <2> QED BY <1>8, <2>1 DEF LobbyEnter, BeforeRoundEnter, Entering, InGame, Idle,
                            counts, flags
<1>9. CASE RoundEnter
  <2>1. Players' = Players
    BY <1>9 DEF RoundEnter, TypeOK, Players, PlayersIn, InState
  <2> QED BY <1>9, <2>1 DEF RoundEnter, Entering, InGame, Idle, flags
<1>10. CASE UNCHANGED vars
  <2>1. Players' = Players /\ Ready' = Ready
    BY <1>10 DEF vars, Players, Ready
  <2> QED BY <1>0, <1>10, <2>1 DEF vars, fsm, counts, flags
<1> QED BY <1>1, <1>2, <1>3, <1>4, <1>5, <1>6, <1>7, <1>8, <1>9, <1>10 DEF Next, Loop

(* It therefore is exact always, until an abort. *)
LEMMA CountInvHolds == Spec => []CountInv
<1>1. Init => CountInv
  BY DEF Init, CountInv, InGame, Idle, Players, PlayersIn, InState
<1> QED BY <1>1, CountInvStep, TypeCorrect, NamesIdentified, PTL DEF Spec

(* Until a game is aborted, n_players is exact whenever the server waits,   *)
(* and a game has two players at least.                                     *)
THEOREM PlayersCountedCorrectly == Spec => []PlayersCounted
<1>1. TypeOK /\ CountInv => PlayersCounted
  BY DEF CountInv, InGame, Idle, PlayersCounted
<1> QED BY <1>1, CountInvHolds, TypeCorrect, PTL

(* Until a game is aborted, offers[] has room for exactly the players.      *)
THEOREM OffersAlwaysFit == Spec => []OffersFit
<1>1. CountInv => OffersFit
  BY DEF CountInv, InGame, Exiting, OffersFit
<1> QED BY <1>1, CountInvHolds, PTL

(* Until a game is aborted, the supervisors know whether a game is on.      *)
THEOREM EndIsAnnounced == Spec => []EndAnnounced
<1>1. CountInv => EndAnnounced
  BY DEF CountInv, InGame, Idle, EndAnnounced
<1> QED BY <1>1, CountInvHolds, PTL

-----------------------------------------------------------------------------
(* Who is left behind *)

LeftByAbort == left_behind # {} => abort_game

(* Nobody is left behind but by an abort, which is remembered for ever.     *)
LEMMA LeftByAbortStep ==
  TypeOK /\ CountInv /\ LeftByAbort /\ [Next]_vars => LeftByAbort'
<1> SUFFICES ASSUME TypeOK, CountInv, LeftByAbort, [Next]_vars PROVE LeftByAbort'
  OBVIOUS
<1> USE DEF LeftByAbort
<1>0. ASSUME left_behind' \subseteq left_behind,
             abort_game' = abort_game \/ abort_game' = TRUE
      PROVE  LeftByAbort'
  BY <1>0
<1>1. ASSUME NEW c \in Client, Connect(c) \/ Disconnect(c) PROVE LeftByAbort'
  BY <1>0, <1>1 DEF Connect, Disconnect, LeftBehindBut, GameUnchanged, flags
<1>2. ASSUME NEW c \in Client, Command(c) PROVE LeftByAbort'
  <2>1. left_behind' = left_behind
    BY <1>2 DEF Command, Auth, ReadyInLobby, ReadyInGame, NotReady, Start, Step, Run,
                Pause, Abort, GameUnchanged, CommandUnchanged
  <2>2. abort_game' = abort_game \/ abort_game' = TRUE
    BY <1>2 DEF Command, Auth, ReadyInLobby, ReadyInGame, NotReady, Start, Step, Run,
                Pause, Abort, GameUnchanged, flags
  <2> QED BY <1>0, <2>1, <2>2
<1>3. CASE LobbyEnter
  <2>1. next_state = "LOBBY" /\ InGame /\ left_behind' = Players /\ abort_game' = abort_game
    BY <1>3 DEF LobbyEnter, Entering, InGame, flags
  <2> QED BY <2>1 DEF CountInv
<1>4. CASE LobbyExit \/ BeforeRoundExit \/ OffersOverrun \/ BeforeRoundEnter \/ RoundEnter
  BY <1>0, <1>4 DEF LobbyExit, BeforeRoundExit, OffersOverrun, BeforeRoundEnter,
                    RoundEnter, flags
<1>5. ASSUME NEW bankrupt \in SUBSET Players, RoundExit(bankrupt) PROVE LeftByAbort'
  BY <1>0, <1>5 DEF RoundExit, flags
<1>6. CASE UNCHANGED vars
  BY <1>0, <1>6 DEF vars, flags
<1> QED BY <1>1, <1>2, <1>3, <1>4, <1>5, <1>6 DEF Next, Loop

(* In a game n_players is the number of players less those whom aborts left *)
(* behind, and those are the players that the lobby finds in a game.        *)
THEOREM PlayersLagging == Spec => []PlayersLag
<1>1. Init => LeftByAbort
  BY DEF Init, LeftByAbort
<1>2. Spec => []LeftByAbort
  BY <1>1, LeftByAbortStep, CountInvHolds, TypeCorrect, PTL DEF Spec
<1>3. LagInv /\ LeftByAbort => PlayersLag
  BY DEF LagInv, LeftByAbort, InGame, Idle, PlayersLag
<1> QED BY <1>2, <1>3, LagInvHolds, PTL

-----------------------------------------------------------------------------
(* Continuous games *)

(* A handler outside the loop's on_enter: it neither changes the state nor   *)
(* takes back a switch, and one that starts a continuous game switches.     *)
Settles ==
  /\ state' = state
  /\ pc' = "event" => pc = "event"
  /\ loop_finished' = loop_finished \/ loop_finished' = TRUE
  /\ fault' = "none" => fault = "none"
  /\ continuous_game' = TRUE => continuous_game = TRUE \/ loop_finished' = TRUE

(* What only asks for the loop once more, in the same state, keeps it. *)
LEMMA SettlesKeeps ==
  ASSUME TypeOK, NoRestInContinuousGame, Settles
  PROVE  NoRestInContinuousGame'
BY DEF TypeOK, NoRestInContinuousGame, Idle, Settles

(* The server never rests before a round of a continuous game, whoever      *)
(* leaves and whatever the supervisors say in it.                           *)
THEOREM NeverRestsInContinuousGame == Spec => []NoRestInContinuousGame
<1>1. Init => NoRestInContinuousGame
  BY DEF Init, NoRestInContinuousGame
<1>2. TypeOK /\ NoRestInContinuousGame /\ [Next]_vars => NoRestInContinuousGame'
  <2> SUFFICES ASSUME TypeOK, NoRestInContinuousGame, [Next]_vars
               PROVE  NoRestInContinuousGame'
    OBVIOUS
  <2>0. Settles => NoRestInContinuousGame'
    BY SettlesKeeps
  <2>1. ASSUME NEW c \in Client, Connect(c) PROVE Settles
    BY <2>1 DEF Settles, Connect, GameUnchanged, fsm, flags
  <2>2. ASSUME NEW c \in Client, Disconnect(c) PROVE Settles
    <3>1. UNCHANGED <<state, pc, continuous_game>> /\ fault = "none"
      BY <2>2 DEF Disconnect, flags, Idle
    <3>2. loop_finished' = loop_finished \/ loop_finished' = TRUE
      BY <2>2 DEF Disconnect, CheckPlayers, SwitchState, NoSwitch
    <3> QED BY <3>1, <3>2 DEF Settles
  <2>3. ASSUME NEW c \in Client, Command(c) PROVE Settles
    <3>1. ASSUME NEW nm \in Name, NEW role \in {"IN_LOBBY", "SUPERVISOR"},
                 Auth(c, nm, role)
          PROVE  Settles
      BY <3>1 DEF Settles, Auth, GameUnchanged, fsm, flags
    <3>2. CASE ReadyInLobby(c) \/ NotReady(c)
      BY <3>2 DEF Settles, ReadyInLobby, NotReady, GameUnchanged, fsm, flags
    <3>3. CASE ReadyInGame(c)
      BY <3>3 DEF Settles, ReadyInGame, SwitchState, NoSwitch, flags
    <3>4. CASE Start(c) \/ Step(c)
      BY <3>4 DEF Settles, Start, Step, SwitchState, CommandUnchanged, flags
    <3>5. CASE Run(c) \/ Abort(c)
      BY <3>5 DEF Settles, Run, Abort, SwitchState, CommandUnchanged
    <3>6. CASE Pause(c)
      BY <3>6 DEF Settles, Pause, NoSwitch, CommandUnchanged
    <3> QED BY <2>3, <3>1, <3>2, <3>3, <3>4, <3>5, <3>6 DEF Command
  <2>4. ASSUME LobbyExit \/ BeforeRoundExit PROVE Settles
    <3>1. UNCHANGED <<state, loop_finished>> /\ pc = "event" /\ fault = "none"
      BY <2>4 DEF LobbyExit, BeforeRoundExit, Exiting
    <3>2. continuous_game' = FALSE \/ continuous_game' = continuous_game
      BY <2>4 DEF LobbyExit, BeforeRoundExit, flags
    <3> QED BY <3>1, <3>2 DEF Settles
  <2>5. ASSUME NEW bankrupt \in SUBSET Players, RoundExit(bankrupt) PROVE Settles
    <3>1. UNCHANGED <<state, continuous_game>> /\ pc = "event" /\ fault = "none"
      BY <2>5 DEF RoundExit, flags, Exiting
    <3>2. loop_finished' = loop_finished \/ loop_finished' = TRUE
      BY <2>5 DEF RoundExit, CheckPlayers, SwitchState, NoSwitch
    <3> QED BY <3>1, <3>2 DEF Settles
  <2>6. ASSUME OffersOverrun PROVE Settles
    <3>1. UNCHANGED <<state, pc, loop_finished, continuous_game>> /\ fault' # "none"
      BY <2>6 DEF OffersOverrun, fsm, flags
    <3> QED BY <3>1 DEF Settles
  <2>7. CASE LobbyEnter \/ RoundEnter
    BY <2>7 DEF LobbyEnter, RoundEnter, NoRestInContinuousGame
  <2>8. CASE BeforeRoundEnter
    BY <2>8 DEF BeforeRoundEnter, NoRestInContinuousGame, Idle, flags, TypeOK
  <2>9. ASSUME UNCHANGED vars PROVE Settles
    <3>1. UNCHANGED <<state, pc, loop_finished, continuous_game, fault>>
      BY <2>9 DEF vars, fsm, flags
    <3> QED BY <3>1 DEF Settles
  <2> QED BY <2>0, <2>1, <2>2, <2>3, <2>4, <2>5, <2>6, <2>7, <2>8, <2>9 DEF Next, Loop
<1> QED BY <1>1, <1>2, TypeCorrect, PTL DEF Spec

-----------------------------------------------------------------------------
(* Whose turn is on *)

InRound == state = "ROUND" /\ pc = "event" /\ ~loop_finished

(* Turns are on in a round only, and the counter never promises to be zero  *)
(* before they all are over: it may only wait for more than there are.      *)
TurnInv ==
  /\ MayAbort = FALSE => ~abort_game
  /\ ~abort_game => /\ ~InRound => Active = {}
                    /\ InRound => Cardinality(Active) <= n_waitfor

(* Whoever is in a turn is a player. *)
LEMMA ActiveArePlayers == Active \subseteq Players /\ Players \subseteq Client
  BY DEF Active, Players, PlayersIn, InState

(* The players whom game_remove_player takes out are in the lobby when it   *)
(* asks whether their turn was on: n_waitfor is left alone.                 *)
LEMMA WaitforIsKept ==
  ASSUME NEW cs, NEW P \in SUBSET Client, n_waitfor \in CountT
  PROVE  WaitforAfter(cs, P) = n_waitfor
<1> DEFINE S == {c \in P : state = "ROUND" /\ Removed(cs, P)[c] = "IN_GAME"}
<1>1. S = {}
  BY DEF Removed
<1>2. Cardinality(S) = 0
  BY <1>1, FS_EmptySet
<1>3. 0 \in CountT
  BY UIntModPositive DEF CountT
<1>4. Minus(n_waitfor, 0) = n_waitfor
  BY <1>3, MinusValue DEF CountT
<1> QED BY <1>2, <1>4 DEF WaitforAfter

(* game_check_players ends nobody's turn but the winner's.                  *)
LEMMA CheckPlayersActive ==
  ASSUME NEW cs \in [Client -> ClientState], NEW n \in CountT, CheckPlayers(cs, n)
  PROVE  Active' \subseteq InState(cs, {"IN_GAME"})
  BY CheckPlayersMoves DEF Active, InState

(* Every step keeps n_waitfor from falling below the turns that are open. *)
LEMMA TurnInvStep ==
  TypeOK /\ NamesIdentify /\ CountInv /\ TurnInv /\ [Next]_vars => TurnInv'
<1> SUFFICES ASSUME TypeOK, NamesIdentify, CountInv, TurnInv, [Next]_vars
             PROVE  TurnInv'
  OBVIOUS
<1> USE DEF TurnInv
<1>0. ASSUME UNCHANGED <<state, pc, loop_finished, n_waitfor, abort_game>>,
             Active' = Active
      PROVE  TurnInv'
  BY <1>0 DEF InRound
<1>1. ASSUME NEW c \in Client, Connect(c) PROVE TurnInv'
  <2>1. Active' = Active
    BY <1>1 DEF Connect, TypeOK, Active, InState
  <2> QED BY <1>0, <1>1, <2>1 DEF Connect, GameUnchanged, fsm, counts, flags
<1>2. ASSUME NEW c \in Client, Disconnect(c) PROVE TurnInv'
  <2> DEFINE leaver == IF name[c] # NoName THEN {c} \cap Players ELSE {}
             left   == [Removed(cstate, leaver) EXCEPT ![c] = "NONE"]
             n      == Minus(n_players, Cardinality(leaver))
  <2>1. leaver = {c} \cap Players
    BY DEF NamesIdentify, Players, PlayersIn, InState
  <2>2. left \in [Client -> ClientState]
    BY DEF TypeOK, Removed
  <2>3. /\ InState(left, {"IN_GAME"}) \subseteq Active
        /\ PlayersIn(left) = Players \ leaver
    BY <2>1 DEF Active, Players, PlayersIn, InState, TypeOK, Removed
  <2>4. leaver \in SUBSET Players /\ Players \in SUBSET Client
    BY <2>1 DEF Players, PlayersIn, InState
  <2>5. n \in CountT
    BY <2>4, ClientSets, CountInt, MinusType DEF TypeOK
  <2>6. /\ UNCHANGED <<state, pc, abort_game>> /\ Idle
        /\ n_waitfor' = WaitforAfter(cstate, leaver)
    BY <1>2 DEF Disconnect, flags
  <2>7. n_waitfor' = n_waitfor
    BY <2>4, <2>6, WaitforIsKept DEF TypeOK
  <2>8. \/ CheckPlayers(left, n) /\ state # "LOBBY"
        \/ cstate' = left /\ NoSwitch
    BY <1>2 DEF Disconnect
  <2>9. n = Cardinality(PlayersIn(left)) \/ abort_game \/ state = "LOBBY"
    BY <2>3, <2>4, <2>6, CountKept DEF CountInv, InGame
  <2> HIDE DEF leaver, left, n
  <2>10. Active' \subseteq Active
    <3>1. CASE CheckPlayers(left, n)
      BY <2>2, <2>3, <2>5, <3>1, CheckPlayersActive
    <3>2. CASE cstate' = left
      BY <2>3, <3>2 DEF Active
    <3> QED BY <2>8, <3>1, <3>2
  <2>11. NoSwitch \/ Active' = {} \/ abort_game
    <3>1. CASE CheckPlayers(left, n) /\ ~abort_game /\ state # "LOBBY"
      <4>1. NoSwitch \/ Players' = {}
        BY <2>2, <2>5, <2>9, <3>1, CheckPlayersCount
      <4> QED BY <4>1 DEF Active, Players, PlayersIn, InState
    <3> QED BY <2>8, <3>1
  <2>12. Cardinality(Active') <= Cardinality(Active)
    BY <2>10, ClientSets, ActiveArePlayers, FS_Subset
  <2>13. /\ Cardinality(Active) \in CountT /\ Cardinality(Active') \in CountT
         /\ n_waitfor \in CountT
    BY <2>10, ClientSets, ActiveArePlayers DEF TypeOK
  <2>14. Active' = {} => Cardinality(Active') = 0
    BY FS_EmptySet
  <2>15. CASE NoSwitch
    <3>1. ~abort_game /\ InRound => Cardinality(Active') <= n_waitfor'
      <4> HIDE DEF InRound
      <4> QED BY <2>7, <2>12, <2>13 DEF CountT
    <3>2. ~abort_game /\ ~InRound => Active' = {}
      BY <2>10
    <3> QED BY <2>6, <2>15, <3>1, <3>2 DEF InRound, NoSwitch
  <2>16. CASE Active' = {}
    BY <2>6, <2>7, <2>13, <2>14, <2>16 DEF CountT
  <2>17. CASE abort_game
    BY <2>6, <2>17
  <2> QED BY <2>11, <2>15, <2>16, <2>17
<1>3. ASSUME NEW c \in Client, Command(c) PROVE TurnInv'
  <2>1. ASSUME NEW nm \in Name, NEW role \in {"IN_LOBBY", "SUPERVISOR"},
               Auth(c, nm, role)
        PROVE  TurnInv'
    <3>1. Active' = Active
      BY <2>1 DEF Auth, Allowed, TypeOK, Active, InState
    <3> QED BY <1>0, <2>1, <3>1 DEF Auth, GameUnchanged, fsm, counts, flags
  <2>2. CASE ReadyInLobby(c) \/ NotReady(c)
    <3>1. Active' = Active
      BY <2>2 DEF ReadyInLobby, NotReady, Allowed, TypeOK, Active, InState
    <3> QED BY <1>0, <2>2, <3>1
            DEF ReadyInLobby, NotReady, GameUnchanged, fsm, counts, flags
  <2>3. CASE ReadyInGame(c)
    <3>1. /\ c \in Active /\ Active' = Active \ {c}
          /\ n_waitfor' = Minus(n_waitfor, 1)
          /\ IF n_waitfor' = 0 THEN SwitchState("BEFORE_ROUND") ELSE NoSwitch
          /\ UNCHANGED <<state, pc, abort_game>>
      BY <2>3 DEF ReadyInGame, Allowed, flags, TypeOK, Active, InState
    <3> SUFFICES ASSUME ~abort_game PROVE TurnInv'
      BY <3>1
    <3>2. InRound /\ Cardinality(Active) <= n_waitfor
      BY <3>1
    <3>3. IsFiniteSet(Active) /\ Cardinality(Active) \in Nat
      BY ClientSets, ActiveArePlayers, FS_CardinalityType
    <3>4. Cardinality(Active') = Cardinality(Active) - 1
      BY <3>1, <3>3, FS_RemoveElement
    <3>5. IsFiniteSet(Active') /\ Cardinality(Active') \in Nat
      BY <3>1, <3>3, FS_RemoveElement, FS_CardinalityType
    <3>6. n_waitfor' = n_waitfor - 1
      <4>1. n_waitfor \in CountT /\ 1 \in CountT
        BY UIntModPositive DEF TypeOK, CountT
      <4>2. 1 <= n_waitfor
        BY <3>2, <3>3, <3>4, <3>5, <4>1 DEF CountT
      <4> QED BY <3>1, <4>1, <4>2, MinusValue
    <3>7. Cardinality(Active') <= n_waitfor'
      BY <3>2, <3>3, <3>4, <3>6 DEF TypeOK, CountT
    <3>8. n_waitfor' = 0 => Active' = {}
      BY <3>5, <3>7, FS_EmptySet
    <3> QED BY <3>1, <3>2, <3>7, <3>8 DEF InRound, SwitchState, NoSwitch
  <2>4. CASE Start(c) \/ Step(c) \/ Run(c)
    <3>1. /\ UNCHANGED <<abort_game, cstate>> /\ Idle /\ state # "ROUND"
          /\ UNCHANGED state
      BY <2>4 DEF Start, Step, Run, Allowed, CommandUnchanged, flags
    <3> QED BY <3>1 DEF InRound, Active
  <2>5. CASE Pause(c)
    <3>1. Active' = Active
      BY <2>5 DEF Pause, CommandUnchanged, Active
    <3> QED BY <1>0, <2>5, <3>1 DEF Pause, NoSwitch, CommandUnchanged, counts
  <2>6. CASE Abort(c)
    BY <2>6 DEF Abort
  <2> QED BY <1>3, <2>1, <2>2, <2>3, <2>4, <2>5, <2>6 DEF Command
<1>4. CASE LobbyExit
  <2>1. Active' = Active /\ ~InRound /\ ~InRound' /\ UNCHANGED abort_game
    BY <1>4 DEF LobbyExit, Exiting, InRound, TypeOK, Active, Ready, InState
  <2> QED BY <2>1
<1>5. ASSUME NEW bankrupt \in SUBSET Players, RoundExit(bankrupt) PROVE TurnInv'
  <2> DEFINE n  == Minus(n_players, Cardinality(bankrupt))
             cs == Removed(cstate, bankrupt)
  <2>1. bankrupt \in SUBSET Client
    BY ActiveArePlayers
  <2>2. n \in CountT
    BY <2>1, ClientSets, CountInt, MinusType DEF TypeOK
  <2>3. cs \in [Client -> ClientState] /\ InState(cs, {"IN_GAME"}) \subseteq Active
    BY DEF TypeOK, Removed, Active, InState
  <2>4. /\ CheckPlayers(cs, n) /\ ~InRound /\ ~InRound' /\ UNCHANGED abort_game
    BY <1>5 DEF RoundExit, Exiting, InRound, flags
  <2> HIDE DEF n, cs
  <2>5. Active' \subseteq Active
    BY <2>2, <2>3, <2>4, CheckPlayersActive
  <2> QED BY <2>4, <2>5
<1>6. CASE BeforeRoundExit \/ OffersOverrun \/ LobbyEnter \/ BeforeRoundEnter
  <2>1. Active' = Active /\ ~InRound /\ ~InRound' /\ UNCHANGED abort_game
    BY <1>6 DEF BeforeRoundExit, OffersOverrun, LobbyEnter, BeforeRoundEnter,
                Exiting, Entering, InRound, Active, fsm, flags
  <2> QED BY <2>1
<1>7. CASE RoundEnter
  <2>1. /\ ~InRound /\ InRound' /\ UNCHANGED abort_game
        /\ n_waitfor' = n_players /\ InGame
    BY <1>7 DEF RoundEnter, Entering, InRound, InGame, flags
  <2> SUFFICES ASSUME ~abort_game PROVE TurnInv'
    BY <2>1
  <2>2. Active' = Players
    BY <1>7, <2>1 DEF RoundEnter, TypeOK, Active, Players, PlayersIn, InState
  <2>3. n_players = Cardinality(Players)
    BY <2>1 DEF CountInv
  <2>4. Cardinality(Players) \in Int
    BY ClientSets, CountInt, ActiveArePlayers
  <2> QED BY <2>1, <2>2, <2>3, <2>4
<1>8. CASE UNCHANGED vars
  <2>1. Active' = Active
    BY <1>8 DEF vars, Active
  <2> QED BY <1>0, <1>8, <2>1 DEF vars, fsm, counts, flags
<1> QED BY <1>1, <1>2, <1>3, <1>4, <1>5, <1>6, <1>7, <1>8 DEF Next, Loop

(* In count_t, w less k, less one more, is w - 1 less k; and it is zero only *)
(* if w - 1 is k.                                                           *)
LEMMA OneTurnLess ==
  ASSUME NEW w, NEW k, NEW n \in CountT,
         w \in 1 .. Cardinality(Client), k \in 0 .. Cardinality(Client),
         n = Minus(w, k)
  PROVE  /\ Minus(n, 1) = Minus(w - 1, k)
         /\ Minus(n, 1) = 0 => w - 1 = k
<1>1. UIntMod \in Nat /\ Cardinality(Client) \in Nat /\ Cardinality(Client) + 1 < UIntMod
  BY UIntModAssumption, UIntModPositive
<1>2. w \in CountT /\ k \in CountT /\ 1 \in CountT /\ w - 1 \in CountT
  BY <1>1 DEF CountT
<1>3. /\ Minus(w, k) = IF k <= w THEN w - k ELSE w - k + UIntMod
      /\ Minus(n, 1) = IF 1 <= n THEN n - 1 ELSE n - 1 + UIntMod
      /\ Minus(w - 1, k) = IF k <= w - 1 THEN w - 1 - k ELSE w - 1 - k + UIntMod
  BY <1>2, MinusValue
<1> QED BY <1>1, <1>2, <1>3 DEF CountT

(* A round waits for w turns less those of the players left behind, and w   *)
(* is no less than the turns that are open.                                 *)
WaitsFor(w) ==
  /\ w \in Cardinality(Active) .. Cardinality(Client)
  /\ n_waitfor = Minus(w, Cardinality(left_behind))

TurnLagInv ==
  /\ InRound => \E w : WaitsFor(w)
  /\ TurnsAwaited

(* Every step keeps what a round waits for above the turns that are open,   *)
(* but for the players left behind, whoever leaves.                         *)
LEMMA TurnLagStep ==
  TypeOK /\ NamesIdentify /\ LagInv /\ TurnLagInv /\ [Next]_vars => TurnLagInv'
<1> SUFFICES ASSUME TypeOK, NamesIdentify, LagInv, TurnLagInv, [Next]_vars
             PROVE  TurnLagInv'
  OBVIOUS
<1> USE DEF TurnLagInv
<1>0. ASSUME UNCHANGED <<state, pc, loop_finished, fault, n_waitfor, left_behind>>,
             Active' = Active, Idle \/ next_state' = next_state
      PROVE  TurnLagInv'
  BY <1>0 DEF InRound, TurnsAwaited, Exiting, Idle, WaitsFor
<1>0a. ASSUME pc' = "exited" \/ state' # "ROUND" \/ (fault' # "none" /\ loop_finished')
      PROVE  TurnLagInv'
  BY <1>0a DEF InRound, TurnsAwaited, Exiting
<1>1. ASSUME NEW c \in Client, Connect(c) PROVE TurnLagInv'
  <2>1. Active' = Active
    BY <1>1 DEF Connect, TypeOK, Active, InState
  <2> QED BY <1>0, <1>1, <2>1 DEF Connect, GameUnchanged, fsm, counts
<1>2. ASSUME NEW c \in Client, Disconnect(c) PROVE TurnLagInv'
  <2> DEFINE leaver == IF name[c] # NoName THEN {c} \cap Players ELSE {}
             left   == [Removed(cstate, leaver) EXCEPT ![c] = "NONE"]
             n      == Minus(n_players, Cardinality(leaver))
  <2>1. leaver \in SUBSET Client
    OBVIOUS
  <2>2. /\ left \in [Client -> ClientState]
        /\ InState(left, {"IN_GAME"}) \subseteq Active
    BY DEF TypeOK, Removed, Active, InState
  <2>3. n \in CountT
    BY <2>1, ClientSets, CountInt, MinusType DEF TypeOK
  <2>4. /\ UNCHANGED <<state, pc>> /\ Idle
        /\ n_waitfor' = n_waitfor
        /\ left_behind' = LeftBehindBut(c)
    BY <1>2, <2>1, WaitforIsKept DEF Disconnect, TypeOK
  <2> SUFFICES ASSUME state = "ROUND" PROVE TurnLagInv'
    BY <1>0a, <2>4
  <2>5. CheckPlayers(left, n)
    BY <1>2 DEF Disconnect
  <2> HIDE DEF leaver, left, n
  <2>6. Active' \subseteq Active
    BY <2>2, <2>3, <2>5, CheckPlayersActive
  <2>7. NoSwitch \/ (next_state' = "LOBBY" /\ loop_finished' = TRUE)
    BY <2>5 DEF CheckPlayers, SwitchState
  <2>8. left_behind' = left_behind /\ InRound
    BY <2>4 DEF LeftBehindBut, InRound, Idle, TypeOK
  <2>9. PICK w : WaitsFor(w)
    BY <2>8
  <2>10. /\ Cardinality(Active) \in Nat /\ Cardinality(Active') \in Nat
         /\ Cardinality(Active') <= Cardinality(Active)
         /\ Cardinality(Client) \in Nat
    BY <2>6, ClientSets, ActiveArePlayers, FS_Subset, FS_CardinalityType, UIntModPositive
  <2>11. WaitsFor(w)'
    BY <2>4, <2>8, <2>9, <2>10 DEF WaitsFor
  <2>12. TurnsAwaited'
    BY <2>4, <2>7 DEF TurnsAwaited, Exiting, Idle, NoSwitch
  <2> QED BY <2>11, <2>12
<1>3. ASSUME NEW c \in Client, Command(c) PROVE TurnLagInv'
  <2>1. ASSUME NEW nm \in Name, NEW role \in {"IN_LOBBY", "SUPERVISOR"},
               Auth(c, nm, role)
        PROVE  TurnLagInv'
    <3>1. Active' = Active
      BY <2>1 DEF Auth, Allowed, TypeOK, Active, InState
    <3> QED BY <1>0, <2>1, <3>1 DEF Auth, GameUnchanged, fsm, counts
  <2>2. CASE ReadyInLobby(c) \/ NotReady(c)
    <3>1. Active' = Active
      BY <2>2 DEF ReadyInLobby, NotReady, Allowed, TypeOK, Active, InState
    <3> QED BY <1>0, <2>2, <3>1 DEF ReadyInLobby, NotReady, GameUnchanged, fsm, counts
  <2>3. CASE ReadyInGame(c)
    <3>1. /\ c \in Active /\ Active' = Active \ {c}
          /\ n_waitfor' = Minus(n_waitfor, 1)
          /\ IF n_waitfor' = 0 THEN SwitchState("BEFORE_ROUND") ELSE NoSwitch
          /\ UNCHANGED <<state, pc, fault, left_behind>> /\ Idle
      BY <2>3 DEF ReadyInGame, Allowed, TypeOK, Active, InState
    <3> SUFFICES ASSUME state = "ROUND" PROVE TurnLagInv'
      BY <1>0a, <3>1
    <3>2. InRound
      BY <3>1 DEF InRound, Idle, TypeOK
    <3>3. PICK w : WaitsFor(w)
      BY <3>2
    <3>4. /\ Cardinality(Active) \in Nat /\ Cardinality(Active') \in Nat
          /\ Cardinality(Active') = Cardinality(Active) - 1
          /\ Cardinality(Client) \in Nat
      BY <3>1, ClientSets, ActiveArePlayers, FS_RemoveElement, FS_CardinalityType,
         UIntModPositive
    <3>5. PICK k : k = Cardinality(left_behind)
      OBVIOUS
    <3>6. k \in 0 .. Cardinality(Client)
      BY <3>5, ClientSets DEF TypeOK
    <3>7. /\ w \in 1 .. Cardinality(Client) /\ n_waitfor = Minus(w, k)
          /\ w - 1 \in Cardinality(Active') .. Cardinality(Client)
      BY <3>3, <3>4, <3>5 DEF WaitsFor
    <3>8. n_waitfor' = Minus(w - 1, k) /\ (n_waitfor' = 0 => w - 1 = k)
      BY <3>1, <3>6, <3>7, OneTurnLess DEF TypeOK
    <3>9. k = Cardinality(left_behind')
      BY <3>1, <3>5
    <3>10. WaitsFor(w - 1)'
      BY <3>7, <3>8, <3>9 DEF WaitsFor
    <3>11. n_waitfor' = 0 => Cardinality(Active') <= Cardinality(left_behind')
      BY <3>4, <3>7, <3>8, <3>9
    <3>12. TurnsAwaited'
      BY <3>1, <3>2, <3>11 DEF TurnsAwaited, Exiting, Idle, NoSwitch, InRound
    <3> QED BY <3>10, <3>12
  <2>4. CASE Start(c) \/ Step(c) \/ Run(c)
    <3>1. state' = state /\ state # "ROUND"
      BY <2>4 DEF Start, Step, Run, CommandUnchanged
    <3> QED BY <1>0a, <3>1
  <2>5. CASE Pause(c)
    <3>1. Active' = Active
      BY <2>5 DEF Pause, CommandUnchanged, Active
    <3> QED BY <1>0, <2>5, <3>1 DEF Pause, NoSwitch, CommandUnchanged, counts
  <2>6. CASE Abort(c)
    BY <2>6 DEF Abort, SwitchState, InRound, TurnsAwaited
  <2> QED BY <1>3, <2>1, <2>2, <2>3, <2>4, <2>5, <2>6 DEF Command
<1>4. CASE LobbyExit \/ BeforeRoundExit \/ OffersOverrun \/ LobbyEnter \/ BeforeRoundEnter
  BY <1>0a, <1>4 DEF LobbyExit, BeforeRoundExit, OffersOverrun, LobbyEnter,
                    BeforeRoundEnter, Exiting, fsm
<1>5. ASSUME NEW bankrupt \in SUBSET Players, RoundExit(bankrupt) PROVE TurnLagInv'
  BY <1>0a, <1>5 DEF RoundExit
<1>6. CASE RoundEnter
  <2>1. /\ loop_finished' = FALSE /\ left_behind' = left_behind
        /\ n_waitfor' = n_players /\ InGame
    BY <1>6 DEF RoundEnter, Entering, InGame
  <2>2. Active' = Players
    BY <1>6 DEF RoundEnter, TypeOK, Active, Players, PlayersIn, InState
  <2>3. n_players = Minus(Cardinality(Players), Cardinality(left_behind))
    BY <2>1 DEF LagInv
  <2>4. Cardinality(Players) \in Cardinality(Players) .. Cardinality(Client)
    BY ClientSets, ActiveArePlayers, UIntModPositive
  <2> PICK p : p = Cardinality(Players)
    OBVIOUS
  <2>5. WaitsFor(p)'
    BY <2>1, <2>2, <2>3, <2>4 DEF WaitsFor
  <2> QED BY <2>1, <2>5 DEF TurnsAwaited, Exiting
<1>7. CASE UNCHANGED vars
  <2>1. Active' = Active
    BY <1>7 DEF vars, Active
  <2> QED BY <1>0, <1>7, <2>1 DEF vars, fsm, counts
<1> QED BY <1>1, <1>2, <1>3, <1>4, <1>5, <1>6, <1>7 DEF Next, Loop

(* No round closes over an open turn, except over as many as there are      *)
(* players whom aborts left behind.                                         *)
THEOREM TurnsAreAwaited == Spec => []TurnsAwaited
<1>1. Init => TurnLagInv
  BY DEF Init, TurnLagInv, InRound, TurnsAwaited, Exiting
<1>2. TurnLagInv => TurnsAwaited
  BY DEF TurnLagInv
<1> QED BY <1>1, <1>2, TurnLagStep, LagInvHolds, TypeCorrect, NamesIdentified, PTL DEF Spec

(* TurnInv therefore holds always. *)
LEMMA TurnInvHolds == Spec => []TurnInv
<1>1. Init => TurnInv
  BY DEF Init, TurnInv, InRound, Active, InState
<1> QED BY <1>1, TurnInvStep, CountInvHolds, TypeCorrect, NamesIdentified, PTL DEF Spec

-----------------------------------------------------------------------------
(* Every step of the server is a step of the game or leaves it alone *)

GameVars == <<GameSeen, Players, Active>>

(* Two or more, by counting and by pointing at two.                         *)
LEMMA TwoByCount ==
  ASSUME NEW S \in SUBSET Client
  PROVE  Cardinality(S) >= 2 <=> Game!TwoOrMore(S)
<1>1. IsFiniteSet(S) /\ Cardinality(S) \in Nat
  BY ClientSets, FS_CardinalityType
<1>2. Cardinality(S) = 0 <=> S = {}
  BY <1>1, FS_EmptySet
<1>3. Cardinality(S) = 1 <=> \E x : S = {x}
  BY <1>1, FS_Singleton
<1>4. Game!TwoOrMore(S) <=> S # {} /\ ~(\E x : S = {x})
  BY DEF Game!TwoOrMore
<1> QED BY <1>1, <1>2, <1>3, <1>4

(* The server begins as GameRound does. *)
LEMMA GameInit == Init => Game!Init
  BY DEF Init, Game!Init, GameSeen, Players, Active, PlayersIn, InState

(* Every step of the server is one of the game, or the game does not see it. *)
LEMMA GameStep ==
  ASSUME MayAbort = FALSE,
         TypeOK, NamesIdentify, CountInv, TurnInv, [Next]_vars
  PROVE  [Game!Next]_GameVars
<1> USE DEF GameVars
<1>0. ~abort_game
  BY DEF TurnInv
<1>0a. ASSUME UNCHANGED <<state, pc, Players, Active>> PROVE UNCHANGED GameVars
  BY <1>0a DEF GameSeen
<1>1. ASSUME NEW c \in Client, Connect(c) PROVE UNCHANGED GameVars
  <2>1. UNCHANGED <<state, pc, Players, Active>>
    BY <1>1 DEF Connect, GameUnchanged, fsm, TypeOK, Players, PlayersIn, Active, InState
  <2> QED BY <1>0a, <2>1
<1>2. ASSUME NEW c \in Client, Disconnect(c) PROVE [Game!Next]_GameVars
  <2> DEFINE leaver == IF name[c] # NoName THEN {c} \cap Players ELSE {}
             left   == [Removed(cstate, leaver) EXCEPT ![c] = "NONE"]
             n      == Minus(n_players, Cardinality(leaver))
  <2>1. leaver = {c} \cap Players
    BY DEF NamesIdentify, Players, PlayersIn, InState
  <2>2. left \in [Client -> ClientState]
    BY DEF TypeOK, Removed
  <2>3. /\ InState(left, {"IN_GAME"}) = Active \ {c}
        /\ PlayersIn(left) = Players \ {c}
        /\ PlayersIn(left) = Players \ leaver
    BY <2>1 DEF Active, Players, PlayersIn, InState, TypeOK, Removed
  <2>4. leaver \in SUBSET Players /\ Players \in SUBSET Client
    BY <2>1 DEF Players, PlayersIn, InState
  <2>5. n \in CountT
    BY <2>4, ClientSets, CountInt, MinusType DEF TypeOK
  <2>6. UNCHANGED <<state, pc>> /\ Idle
    BY <1>2 DEF Disconnect
  <2>7. \/ CheckPlayers(left, n) /\ state # "LOBBY"
        \/ cstate' = left /\ state = "LOBBY"
    BY <1>2 DEF Disconnect, TypeOK
  <2>8. state # "LOBBY" =>
          n = Cardinality(PlayersIn(left)) /\ n_players = Cardinality(Players)
    BY <1>0, <2>3, <2>4, <2>6, CountKept DEF CountInv, InGame
  <2> HIDE DEF leaver, left, n
  <2>9. CASE state = "LOBBY"
    <3>1. Players = {} /\ cstate' = left
      BY <1>0, <2>6, <2>7, <2>9 DEF CountInv, InGame, Idle
    <3>2. Players' = {} /\ Active = {} /\ Active' = {}
      BY <2>3, <3>1, ActiveArePlayers DEF Players, Active
    <3> QED BY <2>6, <3>1, <3>2 DEF GameSeen
  <2>10. CASE state # "LOBBY" /\ c \in Players
    <3>1. \/ /\ Cardinality(Players \ {c}) >= 2
             /\ Players' = Players \ {c} /\ cstate' = left
          \/ Cardinality(Players \ {c}) < 2 /\ Players' = {}
      <4>1. n >= 2 => cstate' = left
        BY <2>7, <2>10 DEF CheckPlayers
      <4> QED BY <2>2, <2>3, <2>5, <2>7, <2>8, <2>10, <4>1, CheckPlayersCount
    <3>2. Active' = (Active \ {c}) \cap Players'
      <4>1. CASE cstate' = left
        BY <2>3, <4>1 DEF Active, Players, PlayersIn, InState
      <4>2. CASE Players' = {}
        BY <4>2 DEF Active, Players, PlayersIn, InState
      <4> QED BY <3>1, <4>1, <4>2
    <3>3. Game!GoOnWith(Players \ {c}, GameSeen)
      <4>1. CASE Cardinality(Players \ {c}) >= 2
        <5>1. Players' = Players \ {c} /\ Game!TwoOrMore(Players \ {c})
          BY <2>4, <3>1, <4>1, TwoByCount, Players \ {c} \in SUBSET Client,
             ClientSets DEF CountT
        <5>2. Players' # {}
          BY <5>1 DEF Game!TwoOrMore
        <5>3. GameSeen' = GameSeen
          BY <2>6, <2>10, <5>2 DEF GameSeen
        <5> QED BY <5>1, <5>3 DEF Game!GoOnWith
      <4>2. CASE Cardinality(Players \ {c}) < 2 /\ Players' = {}
        <5>1. ~Game!TwoOrMore(Players \ {c})
          BY <2>4, <4>2, TwoByCount, Players \ {c} \in SUBSET Client,
             ClientSets DEF CountT
        <5> QED BY <4>2, <5>1 DEF Game!GoOnWith, GameSeen
      <4> QED BY <3>1, <4>1, <4>2
    <3> QED BY <2>10, <3>2, <3>3 DEF Game!Next, Game!Leave
  <2>11. CASE state # "LOBBY" /\ c \notin Players
    <3>1. n >= 2
      BY <1>0, <2>3, <2>6, <2>8, <2>11 DEF CountInv, InGame, Idle
    <3>2. cstate' = left
      BY <2>7, <2>11, <3>1 DEF CheckPlayers
    <3>3. Players' = Players /\ Active' = Active
      BY <2>3, <2>11, <3>2, ActiveArePlayers DEF Players, Active
    <3> QED BY <1>0a, <2>6, <3>3
  <2> QED BY <2>9, <2>10, <2>11
<1>3. ASSUME NEW c \in Client, Command(c) PROVE [Game!Next]_GameVars
  <2>1. ASSUME NEW nm \in Name, NEW role \in {"IN_LOBBY", "SUPERVISOR"},
               Auth(c, nm, role)
        PROVE  UNCHANGED GameVars
    <3>1. UNCHANGED <<state, pc, Players, Active>>
      BY <2>1 DEF Auth, Allowed, GameUnchanged, fsm, TypeOK, Players, PlayersIn,
                  Active, InState
    <3> QED BY <1>0a, <3>1
  <2>2. CASE ReadyInLobby(c) \/ NotReady(c)
    <3>1. UNCHANGED <<state, pc, Players, Active>>
      BY <2>2 DEF ReadyInLobby, NotReady, Allowed, GameUnchanged, fsm, TypeOK, Players,
                  PlayersIn, Active, InState
    <3> QED BY <1>0a, <3>1
  <2>3. CASE ReadyInGame(c)
    <3>1. /\ UNCHANGED <<state, pc, Players>>
          /\ c \in Active /\ Active' = Active \ {c}
      BY <2>3 DEF ReadyInGame, Allowed, TypeOK, Players, PlayersIn, Active, InState
    <3>2. InRound /\ Players # {}
      BY <1>0, <3>1, ActiveArePlayers DEF TurnInv
    <3>3. GameSeen = "round" /\ GameSeen' = GameSeen
      BY <3>1, <3>2 DEF GameSeen, InRound
    <3> QED BY <3>1, <3>3 DEF Game!Next, Game!EndTurn
  <2>4. CASE Start(c) \/ Step(c) \/ Run(c) \/ Pause(c) \/ Abort(c)
    <3>1. UNCHANGED <<state, pc, Players, Active>>
      BY <2>4 DEF Start, Step, Run, Pause, Abort, CommandUnchanged, Players, Active
    <3> QED BY <1>0a, <3>1
  <2> QED BY <1>3, <2>1, <2>2, <2>3, <2>4 DEF Command
<1>4. CASE LobbyExit
  <2>1. /\ state = "LOBBY" /\ pc = "event" /\ loop_finished /\ UNCHANGED state
    BY <1>4 DEF LobbyExit, Exiting
  <2>2. Players = {} /\ Cardinality(Ready) >= 2
    BY <1>0, <2>1 DEF CountInv, InGame
  <2>3. Players' = Ready /\ Active' = Active /\ Ready \in SUBSET Client
    BY <1>4, <2>2 DEF LobbyExit, Players, PlayersIn, Active, Ready, InState
  <2>4. Ready # {}
    BY <2>2, FS_EmptySet
  <2>5. GameSeen = "off" /\ GameSeen' = "between"
    BY <2>1, <2>2, <2>3, <2>4 DEF GameSeen
  <2>6. Game!TwoOrMore(Ready)
    BY <2>2, <2>3, TwoByCount
  <2> QED BY <2>3, <2>5, <2>6 DEF Game!Next, Game!Begin
<1>5. ASSUME NEW bankrupt \in SUBSET Players, RoundExit(bankrupt)
      PROVE  [Game!Next]_GameVars
  <2> DEFINE n  == Minus(n_players, Cardinality(bankrupt))
             cs == Removed(cstate, bankrupt)
  <2>1. Players \in SUBSET Client /\ bankrupt \in SUBSET Client
    BY ActiveArePlayers
  <2>2. n \in CountT
    BY <2>1, ClientSets, CountInt, MinusType DEF TypeOK
  <2>3. cs \in [Client -> ClientState] /\ PlayersIn(cs) = Players \ bankrupt
    BY DEF TypeOK, Removed, Players, PlayersIn, InState
  <2>4. /\ CheckPlayers(cs, n) /\ state = "ROUND" /\ pc = "event" /\ pc' = "exited"
        /\ ~InRound
    BY <1>5 DEF RoundExit, Exiting, InRound
  <2>5. n = Cardinality(PlayersIn(cs))
    BY <1>0, <2>1, <2>3, <2>4, CountKept DEF CountInv, InGame
  <2>6. InState(cs, {"IN_GAME"}) \subseteq Active
    BY DEF Active, InState, Removed
  <2> HIDE DEF n, cs
  <2>7. \/ Cardinality(Players \ bankrupt) >= 2 /\ Players' = Players \ bankrupt
        \/ Cardinality(Players \ bankrupt) < 2 /\ Players' = {}
    BY <2>2, <2>3, <2>4, <2>5, CheckPlayersCount
  <2>8. Active = {} /\ Active' = {}
    BY <1>0, <2>2, <2>3, <2>4, <2>6, CheckPlayersActive DEF TurnInv
  <2>9. CASE Players = {}
    <3>1. Players' = {}
      BY <2>7, <2>9
    <3> QED BY <2>8, <2>9, <3>1 DEF GameSeen
  <2>10. CASE Players # {}
    <3>1. GameSeen = "round"
      BY <2>4, <2>10 DEF GameSeen
    <3>2. Game!GoOnWith(Players \ bankrupt, "between")
      <4>1. CASE Cardinality(Players \ bankrupt) >= 2
        <5>1. Players' = Players \ bankrupt /\ Game!TwoOrMore(Players \ bankrupt)
          BY <2>1, <2>7, <4>1, TwoByCount, Players \ bankrupt \in SUBSET Client,
             ClientSets DEF CountT
        <5>2. Players' # {}
          BY <5>1 DEF Game!TwoOrMore
        <5>3. GameSeen' = "between"
          BY <2>4, <5>2 DEF GameSeen
        <5> QED BY <5>1, <5>3 DEF Game!GoOnWith
      <4>2. CASE Cardinality(Players \ bankrupt) < 2 /\ Players' = {}
        <5>1. ~Game!TwoOrMore(Players \ bankrupt)
          BY <2>1, <4>2, TwoByCount, Players \ bankrupt \in SUBSET Client,
             ClientSets DEF CountT
        <5> QED BY <4>2, <5>1 DEF Game!GoOnWith, GameSeen
      <4> QED BY <2>7, <4>1, <4>2
    <3> QED BY <2>8, <3>1, <3>2 DEF Game!Next, Game!Close
  <2> QED BY <2>9, <2>10
<1>6. CASE OffersOverrun
  <2>1. UNCHANGED <<state, pc, Players, Active>>
    BY <1>6 DEF OffersOverrun, fsm, Players, Active
  <2> QED BY <1>0a, <2>1
<1>7. CASE BeforeRoundExit \/ LobbyEnter \/ BeforeRoundEnter
  <2>1. UNCHANGED <<Players, Active>>
    BY <1>7 DEF BeforeRoundExit, LobbyEnter, BeforeRoundEnter, Players, Active
  <2>2. /\ ~(state = "ROUND" /\ pc = "event")
        /\ ~(state' = "ROUND" /\ pc' = "event")
    BY <1>7 DEF BeforeRoundExit, LobbyEnter, BeforeRoundEnter, Exiting, Entering
  <2> QED BY <2>1, <2>2 DEF GameSeen
<1>8. CASE RoundEnter
  <2>1. /\ pc = "exited" /\ state' = "ROUND" /\ pc' = "event" /\ next_state # "LOBBY"
    BY <1>8 DEF RoundEnter, Entering
  <2>2. Cardinality(Players) >= 2 /\ Active = {}
    BY <1>0, <2>1 DEF CountInv, TurnInv, InGame, InRound
  <2>3. Players' = Players /\ Active' = Players
    BY <1>8, <2>2 DEF RoundEnter, TypeOK, Active, Players, PlayersIn, InState
  <2>4. Players # {}
    BY <2>2, FS_EmptySet
  <2>5. GameSeen = "between" /\ GameSeen' = "round"
    BY <2>1, <2>3, <2>4 DEF GameSeen
  <2> QED BY <2>3, <2>5 DEF Game!Next, Game!Open
<1>9. CASE UNCHANGED vars
  <2>1. UNCHANGED <<state, pc, Players, Active>>
    BY <1>9 DEF vars, fsm, Players, Active
  <2> QED BY <1>0a, <2>1
<1> QED BY <1>1, <1>2, <1>3, <1>4, <1>5, <1>6, <1>7, <1>8, <1>9 DEF Next, Loop

(* As long as no supervisor aborts, whatever the clients do is a correct    *)
(* management game: at least two to begin, rounds closed only when all      *)
(* turns are over, games over exactly when fewer than two are left.         *)
THEOREM GameImplemented ==
  ASSUME MayAbort = FALSE
  PROVE  Spec => GameRefined
<1>1. TypeOK /\ NamesIdentify /\ CountInv /\ TurnInv /\ [Next]_vars
        => [Game!Next]_(Game!vars)
  BY GameStep DEF GameVars, Game!vars
<1> QED BY <1>1, GameInit, TurnInvHolds, CountInvHolds, NamesIdentified, TypeCorrect, PTL
        DEF Spec, GameRefined, Game!Spec
=============================================================================
