----------------------------- MODULE ServerFSM -----------------------------
(***************************************************************************)
(* The game server's control: the generic state machine of core/fsm.c, the *)
(* three states of server/server_fsm.c, the command handlers of            *)
(* server/commands.c and the bookkeeping of players in server/game.c.      *)
(*                                                                         *)
(* The server has one thread.  A socket event becomes one call of          *)
(* fsm_event: the state's on_event, then, while a switch of state is       *)
(* pending, on_exit of the old state and on_enter of the new one.  Each of *)
(* those handlers is one action, so that what holds between them is        *)
(* visible; the next event is taken only when no switch is pending.        *)
(*                                                                         *)
(* The economy (who goes bankrupt in a round) is a nondeterministic choice *)
(* here.  Replies and broadcasts follow from the changes of client states, *)
(* except for what the supervisors are told of a game's start and end.     *)
(***************************************************************************)
EXTENDS Integers, FiniteSets

CONSTANTS
  Client,    \* sockets that may be connected at the same time
  Name,      \* names the clients log in with
  NoName,    \* client->name == NULL
  UIntMod,   \* one more than the greatest count_t (2^32 in the build)
  Garbage,   \* what malloc may leave in n_players and n_waitfor
  MayAbort   \* do the supervisors ever use "abort"?

ASSUME ClientAssumption  == IsFiniteSet(Client)
ASSUME NameAssumption    == NoName \notin Name
ASSUME UIntModAssumption == UIntMod \in Nat /\ Cardinality(Client) + 1 < UIntMod
ASSUME GarbageAssumption == Garbage \subseteq 0 .. UIntMod - 1
ASSUME AbortAssumption   == MayAbort \in BOOLEAN

VARIABLES
  \* FSM
  state,            \* fsm->state
  next_state,       \* fsm->next_state
  loop_finished,    \* fsm->loop_finished
  pc,               \* "event": on_event or the while test; "exited": on_exit is done
  \* ServerData
  cstate,           \* client->state, "NONE" when not in d->clients
  name,             \* client->name
  n_players,
  n_waitfor,
  continuous_game,
  abort_game,
  \* what leaves the process
  announced,        \* what the supervisors were last told about a game
  fault,            \* "none", "assert" (assertion failed) or "overrun" (offers[])
  \* a history variable, which no handler reads
  left_behind       \* the players an abort left in the game, until it is over

fsm    == <<state, next_state, loop_finished, pc>>
counts == <<n_players, n_waitfor>>
flags  == <<continuous_game, abort_game>>
vars   == <<fsm, cstate, name, counts, flags, announced, fault, left_behind>>

ServerState == {"LOBBY", "BEFORE_ROUND", "ROUND"}
ClientState == {"NONE", "CONNECTED", "SUPERVISOR", "IN_LOBBY", "IN_LOBBY_ACK",
                "IN_GAME", "IN_GAME_WAIT"}

-----------------------------------------------------------------------------
(* Helpers *)

(* Plausible slips in the code are kept beside the definitions they would   *)
(* change; their names begin with "Slip".                                   *)

(* count_t: an unsigned int, on which arithmetic wraps around. *)
CountT == 0 .. UIntMod - 1

SlipSigned(a, b) == a - b
Minus(a, b) == (a - b) % UIntMod

InState(cs, S) == {c \in Client : cs[c] \in S}

(* client_in_game *)
PlayersIn(cs) == InState(cs, {"IN_GAME", "IN_GAME_WAIT"})

Players == PlayersIn(cstate)
Active  == InState(cstate, {"IN_GAME"})
Ready   == InState(cstate, {"IN_LOBBY_ACK"})

SwitchState(s) == next_state' = s /\ loop_finished' = TRUE
NoSwitch       == UNCHANGED <<next_state, loop_finished>>

(* game_remove_player, for each player of P: it is given the lobby's state  *)
(* first, and that new state is what the test for n_waitfor then reads.     *)
Removed(cs, P) == [c \in Client |-> IF c \in P THEN "IN_LOBBY" ELSE cs[c]]

WaitforAfter(cs, P) ==
  LET noLongerAwaited ==
        {c \in P : state = "ROUND" /\ Removed(cs, P)[c] = "IN_GAME"}
  IN  Minus(n_waitfor, Cardinality(noLongerAwaited))

RemovePlayers(cs, P, n) ==
  /\ cstate' = Removed(cs, P)
  /\ n_players' = Minus(n, Cardinality(P))

(* game_check_players, where the client states are cs and n_players is n.   *)
(* The winner is the last player of the list: any of them, since the order  *)
(* of the list is not kept here.                                            *)
SlipNobodyLeft(cs, n) ==   \* a game that nobody survives is not announced
  /\ cstate' = IF n = 1 THEN Removed(cs, PlayersIn(cs)) ELSE cs
  /\ n_players' = IF n = 1 THEN 0 ELSE n
  /\ announced' = IF n = 1 THEN "end" ELSE announced
  /\ IF n \in {0, 1} THEN SwitchState("LOBBY") ELSE NoSwitch
  /\ UNCHANGED fault

CheckPlayers(cs, n) ==
  \/ /\ n = 0
     /\ cstate' = cs /\ n_players' = n
     /\ announced' = "end"
     /\ SwitchState("LOBBY")
     /\ UNCHANGED fault
  \/ /\ n = 1
     /\ \E winner \in PlayersIn(cs) : RemovePlayers(cs, {winner}, n)
     /\ announced' = "end"
     /\ SwitchState("LOBBY")
     /\ UNCHANGED fault
  \/ /\ n = 1
     /\ PlayersIn(cs) = {}
     /\ cstate' = cs /\ n_players' = n
     /\ fault' = "assert"
     /\ NoSwitch /\ UNCHANGED announced
  \/ /\ n \notin {0, 1}
     /\ cstate' = cs /\ n_players' = n
     /\ NoSwitch /\ UNCHANGED <<announced, fault>>

(* Who is left behind once c is gone.  The next game counts only the newly  *)
(* ready ones: those who are there when it starts stay uncounted in it.     *)
LeftBehindBut(c) == IF state = "LOBBY" THEN left_behind \ {c} ELSE left_behind

-----------------------------------------------------------------------------
(* server_fsm_new: malloc, so the two counters start with anything. *)

Init ==
  /\ state = "LOBBY" /\ next_state = "LOBBY"
  /\ loop_finished = FALSE /\ pc = "event"
  /\ cstate = [c \in Client |-> "NONE"]
  /\ name = [c \in Client |-> NoName]
  /\ n_players \in Garbage /\ n_waitfor \in Garbage
  /\ continuous_game = FALSE /\ abort_game = FALSE
  /\ announced = "nothing"
  /\ fault = "none"
  /\ left_behind = {}

-----------------------------------------------------------------------------
(* on_event *)

(* The server waits in select(). *)
Idle == pc = "event" /\ ~loop_finished /\ fault = "none"

(* What a handler that leaves the game alone leaves alone. *)
GameUnchanged == UNCHANGED <<fsm, counts, flags, announced, fault, left_behind>>

(* EV_CONNECT: accept_client *)
Connect(c) ==
  /\ Idle
  /\ cstate[c] = "NONE"
  /\ cstate' = [cstate EXCEPT ![c] = "CONNECTED"]
  /\ GameUnchanged /\ UNCHANGED name

SlipWaitingStay(c) ==   \* only a player whose turn is on is taken out
  /\ Idle
  /\ cstate[c] # "NONE"
  /\ LET left == [cstate EXCEPT ![c] = "NONE"]
         n    == IF cstate[c] = "IN_GAME" THEN Minus(n_players, 1) ELSE n_players
     IN IF state # "LOBBY"
          THEN CheckPlayers(left, n)
          ELSE cstate' = left /\ n_players' = n /\ NoSwitch /\ UNCHANGED <<announced, fault>>
  /\ name' = [name EXCEPT ![c] = NoName]
  /\ left_behind' = LeftBehindBut(c)
  /\ UNCHANGED <<state, pc, n_waitfor, flags>>

(* EV_DISCONNECT: drop_client, then game_check_players if a game is on.  A  *)
(* player is removed from the game first, like a bankrupt.                  *)
Disconnect(c) ==
  /\ Idle
  /\ cstate[c] # "NONE"
  /\ LET leaver == IF name[c] # NoName THEN {c} \cap Players ELSE {}
         left   == [Removed(cstate, leaver) EXCEPT ![c] = "NONE"]
         n      == Minus(n_players, Cardinality(leaver))
     IN /\ n_waitfor' = WaitforAfter(cstate, leaver)
        /\ IF state \in {"ROUND", "BEFORE_ROUND"}
             THEN CheckPlayers(left, n)
             ELSE /\ cstate' = left /\ n_players' = n
                  /\ NoSwitch /\ UNCHANGED <<announced, fault>>
  /\ name' = [name EXCEPT ![c] = NoName]
  /\ left_behind' = LeftBehindBut(c)
  /\ UNCHANGED <<state, pc, flags>>

(* EV_COMMAND: command_exec.  The guard on cstate[c] is the command table's *)
(* allowed_states; a command that answers "fail" changes nothing.           *)
Allowed(c, S) == Idle /\ cstate[c] \in S

Auth(c, nm, role) ==
  /\ Allowed(c, {"CONNECTED"})
  /\ \A d \in Client : name[d] # nm
  /\ role \in {"IN_LOBBY", "SUPERVISOR"}
  /\ cstate' = [cstate EXCEPT ![c] = role]
  /\ name' = [name EXCEPT ![c] = nm]
  /\ GameUnchanged

ReadyInLobby(c) ==
  /\ Allowed(c, {"IN_LOBBY"})
  /\ cstate' = [cstate EXCEPT ![c] = "IN_LOBBY_ACK"]
  /\ GameUnchanged /\ UNCHANGED name

SlipLastTurn(c) ==   \* the round closes one turn early
  /\ Allowed(c, {"IN_GAME"})
  /\ cstate' = [cstate EXCEPT ![c] = "IN_GAME_WAIT"]
  /\ n_waitfor' = Minus(n_waitfor, 1)
  /\ IF n_waitfor' <= 1 THEN SwitchState("BEFORE_ROUND") ELSE NoSwitch
  /\ UNCHANGED <<state, pc, name, n_players, flags, announced, fault, left_behind>>

SlipTestedFirst(c) ==   \* the counter is tested before it is decremented
  /\ Allowed(c, {"IN_GAME"})
  /\ cstate' = [cstate EXCEPT ![c] = "IN_GAME_WAIT"]
  /\ n_waitfor' = Minus(n_waitfor, 1)
  /\ IF n_waitfor = 0 THEN SwitchState("BEFORE_ROUND") ELSE NoSwitch
  /\ UNCHANGED <<state, pc, name, n_players, flags, announced, fault, left_behind>>

(* The turn of c is over; the last turn ends the round.  The handler does   *)
(* not look at fsm->state.                                                  *)
ReadyInGame(c) ==
  /\ Allowed(c, {"IN_GAME"})
  /\ cstate' = [cstate EXCEPT ![c] = "IN_GAME_WAIT"]
  /\ n_waitfor' = Minus(n_waitfor, 1)
  /\ IF n_waitfor' = 0 THEN SwitchState("BEFORE_ROUND") ELSE NoSwitch
  /\ UNCHANGED <<state, pc, name, n_players, flags, announced, fault, left_behind>>

NotReady(c) ==
  /\ Allowed(c, {"IN_LOBBY_ACK"})
  /\ cstate' = [cstate EXCEPT ![c] = "IN_LOBBY"]
  /\ GameUnchanged /\ UNCHANGED name

(* The supervisor's commands *)
CommandUnchanged ==
  UNCHANGED <<state, pc, cstate, name, counts, announced, fault, left_behind>>

Start(c) ==
  /\ Allowed(c, {"SUPERVISOR"})
  /\ state = "LOBBY"
  /\ Cardinality(Ready) >= 2
  /\ SwitchState("BEFORE_ROUND")
  /\ CommandUnchanged /\ UNCHANGED flags

Step(c) ==
  /\ Allowed(c, {"SUPERVISOR"})
  /\ state = "BEFORE_ROUND"
  /\ SwitchState("ROUND")
  /\ CommandUnchanged /\ UNCHANGED flags

Run(c) ==
  /\ Allowed(c, {"SUPERVISOR"})
  /\ state = "BEFORE_ROUND"
  /\ continuous_game' = TRUE
  /\ SwitchState("ROUND")
  /\ CommandUnchanged /\ UNCHANGED abort_game

Pause(c) ==
  /\ Allowed(c, {"SUPERVISOR"})
  /\ state = "ROUND"
  /\ continuous_game' = FALSE
  /\ NoSwitch
  /\ CommandUnchanged /\ UNCHANGED abort_game

Abort(c) ==
  /\ MayAbort
  /\ Allowed(c, {"SUPERVISOR"})
  /\ state \in {"ROUND", "BEFORE_ROUND"}
  /\ abort_game' = TRUE
  /\ SwitchState("LOBBY")
  /\ CommandUnchanged /\ UNCHANGED continuous_game

-----------------------------------------------------------------------------
(* fsm_event's loop: on_exit of the current state, then on_enter of the next *)

Exiting(s)  == pc = "event"  /\ loop_finished /\ fault = "none" /\ state = s
Entering(s) == pc = "exited" /\ fault = "none" /\ next_state = s

SlipCountKept ==   \* n_players is not reset
  /\ Exiting("LOBBY")
  /\ pc' = "exited"
  /\ continuous_game' = FALSE
  /\ cstate' = [c \in Client |-> IF c \in Ready THEN "IN_GAME_WAIT" ELSE cstate[c]]
  /\ n_players' = Minus(n_players, -Cardinality(Ready))
  /\ announced' = "start"
  /\ UNCHANGED <<state, next_state, loop_finished, name, n_waitfor, abort_game, fault,
                 left_behind>>

SlipOneMore ==   \* n_players starts at one
  /\ Exiting("LOBBY")
  /\ pc' = "exited"
  /\ continuous_game' = FALSE
  /\ cstate' = [c \in Client |-> IF c \in Ready THEN "IN_GAME_WAIT" ELSE cstate[c]]
  /\ n_players' = Cardinality(Ready) + 1
  /\ announced' = "start"
  /\ UNCHANGED <<state, next_state, loop_finished, name, n_waitfor, abort_game, fault,
                 left_behind>>

LobbyExit ==
  /\ Exiting("LOBBY")
  /\ pc' = "exited"
  /\ continuous_game' = FALSE
  /\ cstate' = [c \in Client |-> IF c \in Ready THEN "IN_GAME_WAIT" ELSE cstate[c]]
  /\ n_players' = Cardinality(Ready)
  /\ announced' = "start"
  /\ UNCHANGED <<state, next_state, loop_finished, name, n_waitfor, abort_game, fault,
                 left_behind>>

BeforeRoundExit ==
  /\ Exiting("BEFORE_ROUND")
  /\ pc' = "exited"
  /\ UNCHANGED <<state, next_state, loop_finished, cstate, name, counts, flags,
                 announced, fault, left_behind>>

(* game_finish_round.  do_finances fills offers[n_players] with the players *)
(* there are: short of room it writes past the end, which the allocator may *)
(* or may not survive, and with too much room it sorts unset pointers.      *)
RoundExit(bankrupt) ==
  /\ Exiting("ROUND")
  /\ n_players <= Cardinality(Players)
  /\ pc' = "exited"
  /\ n_waitfor' = WaitforAfter(cstate, bankrupt)
  /\ CheckPlayers(Removed(cstate, bankrupt), Minus(n_players, Cardinality(bankrupt)))
  /\ UNCHANGED <<state, name, flags, left_behind>>

OffersOverrun ==
  /\ Exiting("ROUND")
  /\ n_players # Cardinality(Players)
  /\ fault' = "overrun"
  /\ UNCHANGED <<fsm, cstate, name, counts, flags, announced, left_behind>>

SlipFlagKept ==   \* loop_finished is not cleared
  /\ Entering("LOBBY")
  /\ state' = "LOBBY" /\ pc' = "event"
  /\ left_behind' = Players
  /\ UNCHANGED <<next_state, loop_finished, cstate, name, counts, flags, announced, fault>>

SlipNoRun ==   \* before_round_on_enter forgets the continuous game
  /\ Entering("BEFORE_ROUND")
  /\ state' = "BEFORE_ROUND" /\ pc' = "event" /\ loop_finished' = FALSE
  /\ UNCHANGED <<next_state, cstate, name, counts, flags, announced, fault, left_behind>>

(* state = next_state; loop_finished = 0; on_enter().  Whoever is in the     *)
(* game when the lobby is entered, the game being over, is left behind.     *)
LobbyEnter ==
  /\ Entering("LOBBY")
  /\ state' = "LOBBY" /\ pc' = "event" /\ loop_finished' = FALSE
  /\ left_behind' = Players
  /\ UNCHANGED <<next_state, cstate, name, counts, flags, announced, fault>>

BeforeRoundEnter ==
  /\ Entering("BEFORE_ROUND")
  /\ state' = "BEFORE_ROUND" /\ pc' = "event"
  /\ loop_finished' = continuous_game
  /\ next_state' = IF continuous_game THEN "ROUND" ELSE next_state
  /\ UNCHANGED <<cstate, name, counts, flags, announced, fault, left_behind>>

RoundEnter ==
  /\ Entering("ROUND")
  /\ state' = "ROUND" /\ pc' = "event" /\ loop_finished' = FALSE
  /\ cstate' = [c \in Client |->
                  IF cstate[c] = "IN_GAME_WAIT" THEN "IN_GAME" ELSE cstate[c]]
  /\ n_waitfor' = n_players
  /\ UNCHANGED <<next_state, name, n_players, flags, announced, fault, left_behind>>

-----------------------------------------------------------------------------
(* Specification *)

Command(c) ==
  \/ \E nm \in Name, role \in {"IN_LOBBY", "SUPERVISOR"} : Auth(c, nm, role)
  \/ ReadyInLobby(c)
  \/ ReadyInGame(c)
  \/ NotReady(c)
  \/ Start(c)
  \/ Step(c)
  \/ Run(c)
  \/ Pause(c)
  \/ Abort(c)

Loop ==
  \/ LobbyExit
  \/ BeforeRoundExit
  \/ \E bankrupt \in SUBSET Players : RoundExit(bankrupt)
  \/ OffersOverrun
  \/ LobbyEnter
  \/ BeforeRoundEnter
  \/ RoundEnter

Next ==
  \/ \E c \in Client : Connect(c) \/ Disconnect(c) \/ Command(c)
  \/ Loop

Spec == Init /\ [][Next]_vars

(* fsm_event's loop always runs on.  Of the clients only one thing is       *)
(* asked: a player in a turn ends it some day, as the bot does at the end   *)
(* of each turn (Session::endTurn).  Nobody has to connect, to leave or to  *)
(* supervise.                                                               *)
Fairness == WF_vars(Loop) /\ \A c \in Client : WF_vars(ReadyInGame(c))

FairSpec == Spec /\ Fairness

-----------------------------------------------------------------------------
(* Invariants *)

(* Every variable keeps its type; the counters stay in count_t's range.     *)
TypeOK ==
  /\ state \in ServerState /\ next_state \in ServerState
  /\ loop_finished \in BOOLEAN /\ pc \in {"event", "exited"}
  /\ cstate \in [Client -> ClientState]
  /\ name \in [Client -> Name \cup {NoName}]
  /\ n_players \in CountT /\ n_waitfor \in CountT
  /\ continuous_game \in BOOLEAN /\ abort_game \in BOOLEAN
  /\ announced \in {"nothing", "start", "end"}
  /\ fault \in {"none", "assert", "overrun"}
  /\ left_behind \subseteq Client

(* A client has a name exactly when it is logged in, so that drop_client's  *)
(* test of client->name misses no player, and no two clients share one      *)
(* (lsgame, "finance" and "bankrupt" identify a player by name only).       *)
NamesIdentify ==
  /\ \A c \in Client : name[c] = NoName <=> cstate[c] \in {"NONE", "CONNECTED"}
  /\ \A c, d \in Client : name[c] = name[d] /\ name[c] # NoName => c = d

(* While select() waits, and unless a game was ever aborted, n_players is   *)
(* the number of clients in the game, a game has two of them at least, and  *)
(* nobody is in a game in the lobby: what was in the counter before, bad    *)
(* luck, leavers in any order and the early end of a game notwithstanding.  *)
PlayersCounted ==
  Idle /\ ~abort_game =>
    IF state = "LOBBY" THEN Players = {}
                       ELSE n_players = Cardinality(Players) /\ n_players >= 2

(* The supervisors have been told "game start", and not yet "game end",     *)
(* exactly while a game is on, whichever of the ways to end it was taken.   *)
EndAnnounced ==
  Idle /\ ~abort_game => (announced = "start" <=> state # "LOBBY")

(* do_finances has room for exactly the players there are, in every game    *)
(* that no abort came before.                                               *)
OffersFit ==
  ~abort_game /\ Exiting("ROUND") => n_players = Cardinality(Players)

(* A supervisor who said "run" need not say "step": the server never rests  *)
(* before a round in a continuous game, even right after a pause and a      *)
(* second game.                                                             *)
NoRestInContinuousGame == Idle /\ state = "BEFORE_ROUND" => ~continuous_game

(* Only an abort leaves players behind.  While the server waits in the      *)
(* lobby they are the ones still in a game; from the start of the next game *)
(* on, n_players is the number of players there are less exactly those whom *)
(* it found left behind, in count_t: it may wrap around, but nothing else   *)
(* ever comes between the counter and the truth.                            *)
PlayersLag ==
  /\ left_behind # {} => abort_game
  /\ Idle /\ state = "LOBBY" => Players = left_behind
  /\ state # "LOBBY" =>
       n_players = Minus(Cardinality(Players), Cardinality(left_behind))

(* A round closes over nobody's open turn; after an abort, over no more     *)
(* turns than there were players left behind when the game started, who are *)
(* sent their turns like the others but are not waited for.                 *)
TurnsAwaited ==
  Exiting("ROUND") /\ next_state = "BEFORE_ROUND" =>
    Cardinality(Active) <= Cardinality(left_behind)

(* The assertion of game_check_players (a winner is found) never fails, not *)
(* even when earlier aborts have left n_players short of the players there  *)
(* are and it has wrapped around below 0.                                   *)
WinnerExists == fault # "assert"

-----------------------------------------------------------------------------
(* Refinement *)

(* The game as its players see it: it is on while somebody is in it, and a  *)
(* round is on from round_on_enter's return to round_on_exit's.             *)
GameSeen ==
  IF Players = {} THEN "off"
  ELSE IF state = "ROUND" /\ pc = "event" THEN "round" ELSE "between"

Game == INSTANCE GameRound
          WITH game <- GameSeen, players <- Players, thinking <- Active

(* Without aborts the server is a correct game: two players at least to     *)
(* begin, no round closes before everybody's turn is over, nobody joins     *)
(* late, and the game is over exactly when fewer than two are left.         *)
GameRefined == Game!Spec

-----------------------------------------------------------------------------
(* Liveness, under FairSpec *)

(* The loop of fsm_event comes to an end after every event, whatever the    *)
(* combination of continuous games and games that end in their last round.  *)
LoopSettles == ~Idle ~> Idle

(* A round that waits for exactly the players in their turn comes to an     *)
(* end, or is left by one of them.                                          *)
AwaitsActive == n_waitfor = Cardinality(Active)
RoundEnds == state = "ROUND" /\ AwaitsActive ~> state # "ROUND" \/ ~AwaitsActive

-----------------------------------------------------------------------------
(* Claims of the repository that the code does not keep *)

(* types.h on n_waitfor: the count of players whose turns are not finished. *)
WaitforCountsActive ==
  Idle /\ ~abort_game /\ state = "ROUND" => AwaitsActive

(* cmd_start's reply: a game needs at least 2 players.  No game begins with *)
(* fewer of them ready.                                                     *)
GameNeedsTwo == [][LobbyExit => Cardinality(Ready) >= 2]_vars

=============================================================================
