------------------------------ MODULE Session ------------------------------
(***************************************************************************)
(* The clients of client/: Session.cpp's login and playGame with a bot for *)
(* an actor, and what GameInfo.cpp makes of the game's messages, beside    *)
(* the server of ServerFSM, with the lines on their way between the two.   *)
(*                                                                         *)
(* A client's program rests in read() only.  It waits there for a line     *)
(* that tells its state ("$ ..."), or for the answer to a command that it  *)
(* has written; a step of the program takes one line, and goes on to the   *)
(* next such place when it is the one waited for.  Lines that matter to    *)
(* the program are kept: the states, the answers, and of the game's data   *)
(* the market, the finances of a round and the bankrupts.  A bot gives one *)
(* command at most in a turn.                                              *)
(*                                                                         *)
(* A supervisor, logged in before the players come, gives the commands of  *)
(* ServerFSM as it likes, but for "abort".                                 *)
(***************************************************************************)
EXTENDS ServerFSM, Sequences

CONSTANTS
  Supervisor,   \* the client that is the supervisor
  MaxRounds,    \* bound on the rounds of a game: then too many go bankrupt
  NoRound       \* of a market that the client has not heard of

ASSUME SupervisorAssumption == Supervisor \in Client
ASSUME NameAssumption2 == Name = 0 .. Cardinality(Client) - 1  \* k is "Player<k>"
ASSUME RoundsAssumption == MaxRounds \in Nat \ {0} /\ NoRound \notin Nat

Player == Client \ {Supervisor}

VARIABLES
  round_counter,   \* d->round_counter
  inbox,           \* lines on their way to a player, in order
  pending,         \* the command on its way from a player, or "none"
  \* the client program
  place,           \* the read() it rests in; "off": none
  ended,           \* "no", or how the process came to its end
  memory,          \* what a process knows, as in NewMemory
  \* history, read by no step
  deserters        \* names of those who left this game by hanging up

program == <<place, ended, memory>>
wire    == <<inbox, pending>>
allVars == <<vars, round_counter, wire, program, deserters>>

-----------------------------------------------------------------------------
(* Lines from the server.  Slips stand beside what they would change. *)

StateStr ==
  [CONNECTED |-> "auth", SUPERVISOR |-> "super", IN_LOBBY |-> "lobby",
   IN_LOBBY_ACK |-> "lobby_ready", IN_GAME |-> "game_active", IN_GAME_WAIT |-> "game"]

StateLine(c) == <<"$", StateStr[cstate'[c]]>>
Market       == <<"+", "market", round_counter>>
Finance      == <<"+", "finance", round_counter>>
Bankrupt(B)  == <<"+", "bankrupt", {name[c] : c \in B}>>
Ack(names)   == <<"ack", names>>   \* after the items of an lsgame, in one go
Fail         == <<"fail">>

Line(tells, line) == IF tells THEN <<line>> ELSE <<>>

SlipNews(c) ==   \* game_remove_player sets client->state by itself
  Line(cstate'[c] \notin {cstate[c], "NONE"} /\ c \notin Players, StateLine(c))

(* server_set_client_state, for a client whose state a handler changes *)
News(c) == Line(cstate'[c] \notin {cstate[c], "NONE"}, StateLine(c))

(* A handler's lines: broadcasts, then the news of states, then an answer. *)
Send(broadcast, answer) ==
  inbox' = [p \in Player |->
              IF ended[p] = "no" THEN inbox[p] \o broadcast[p] \o News(p) \o answer[p]
                                 ELSE <<>>]

Nothing      == [p \in Player |-> <<>>]
ToPlayers(s) == [p \in Player |-> IF p \in Players THEN s ELSE <<>>]
To(p, s)     == [Nothing EXCEPT ![p] = s]

-----------------------------------------------------------------------------
(* What a client knows: of m_players, the names and the dead among them *)

NewInfo == [market |-> NoRound, transactions |-> <<>>, known |-> {}, dead |-> {}]

(* Session's members, the name generator's, and the names that the bot's    *)
(* constants of onStart are about                                           *)
NewMemory == [number |-> 1, m_eventQueue |-> <<>>, m_gameInfo |-> NewInfo,
              constants |-> {}]

Info(p) == memory[p].m_gameInfo

SlipConsume(info, line) ==   \* bankrupts stay alive
  CASE line[2] = "market"   -> [info EXCEPT !.market = line[3]]
    [] line[2] = "finance"  -> [info EXCEPT !.transactions = Append(@, line[3])]
    [] line[2] = "bankrupt" -> info

(* GameInfo::consume *)
Consume(info, line) ==
  CASE line[2] = "market"   -> [info EXCEPT !.market = line[3]]
    [] line[2] = "finance"  -> [info EXCEPT !.transactions = Append(@, line[3])]
    [] line[2] = "bankrupt" -> [info EXCEPT !.dead = @ \cup line[3]]

(* GameInfo::updatePlayerList: the first list is the one that counts. *)
UpdatePlayerList(info, names) ==
  IF info.known = {} THEN [info EXCEPT !.known = names] ELSE info

-----------------------------------------------------------------------------
(* The program: what is waited for, what is asked, and what comes next *)

Awaited == [auth |-> "auth", lobby |-> "lobby", lobby_ready |-> "lobby_ready",
            game |-> "game", game_active |-> "game_active", game_again |-> "game"]

(* The command that a bot's script gives in its turn, one for all of buy,   *)
(* sell, produce and build; and where onTurn leads: it may give none.       *)
BotCommand == "buy"

OnTurn == {"turn", "end"}

Issued == [login |-> "auth", signup |-> "ready", list |-> "lsgame",
           look |-> "lsgame", turn |-> BotCommand, end |-> "ready"]

InLoop == {"game_active", "look", "turn", "end", "game_again"}

SlipAfter ==   \* the loop does not wait for the turn's end
  [auth |-> {"login"}, login |-> {"lobby"}, lobby |-> {"signup"},
   signup |-> {"lobby_ready"}, lobby_ready |-> {"game"}, game |-> {"list"},
   list |-> {"game_active"}, game_active |-> {"look"}, look |-> OnTurn,
   turn |-> {"end"}, end |-> {"game_active"}, game_again |-> {"game_active"}]

After ==
  [auth |-> {"login"}, login |-> {"lobby"}, lobby |-> {"signup"},
   signup |-> {"lobby_ready"}, lobby_ready |-> {"game"}, game |-> {"list"},
   list |-> {"game_active"}, game_active |-> {"look"}, look |-> OnTurn,
   turn |-> {"end"}, end |-> {"game_again"}, game_again |-> {"game_active"}]

Running(p) == place[p] # "off"

(* The program runs on with the memory m to the place q, where it may have  *)
(* to write a command before it reads.                                      *)
Goto(p, q, m) ==
  /\ place' = [place EXCEPT ![p] = q]
  /\ pending' = [pending EXCEPT ![p] = IF q \in DOMAIN Issued THEN Issued[q] ELSE "none"]
  /\ memory' = [memory EXCEPT ![p] = m]
  /\ UNCHANGED ended

Proceed(p, m) == \E q \in After[place[p]] : Goto(p, q, m)

(* The process ends; its last command, with the name in it, may still be on *)
(* its way.                                                                 *)
End(p, how) ==
  /\ ended' = [ended EXCEPT ![p] = how]
  /\ place' = [place EXCEPT ![p] = "off"]
  /\ memory' = [memory EXCEPT ![p] = [NewMemory EXCEPT !.number = memory[p].number]]
  /\ UNCHANGED pending

-----------------------------------------------------------------------------
(* Session *)

(* The program reads on where it is, with the memory m. *)
Stay(p, m) ==
  /\ memory' = [memory EXCEPT ![p] = m]
  /\ UNCHANGED <<place, pending, ended>>

(* A turn of waitForState's loop: the queue of events first, then the       *)
(* connection; what comes before the awaited line is game data.  The loop   *)
(* of playGame catches UnexpectedStateException, and asserts that the state *)
(* is the lobby.                                                            *)
WaitForState(p) ==
  /\ Running(p) /\ place[p] \in DOMAIN Awaited
  /\ LET events == memory[p].m_eventQueue
         heard  == events \o inbox[p]
         line   == Head(heard)
         m      == [memory[p] EXCEPT !.m_eventQueue = IF @ = <<>> THEN @ ELSE Tail(@)]
     IN /\ heard # <<>>
        /\ inbox' = [inbox EXCEPT ![p] = IF events = <<>> THEN Tail(@) ELSE @]
        /\ \/ line[1] = "+" /\ Stay(p, [m EXCEPT !.m_gameInfo = Consume(@, line)])
           \/ line[1] = "$" /\ line[2] = Awaited[place[p]] /\ Proceed(p, m)
           \/ /\ line[1] = "$" /\ line[2] # Awaited[place[p]]
              /\ End(p, IF place[p] \notin InLoop THEN "exception"
                        ELSE IF line[2] = "lobby" THEN "over" ELSE "assert")
           \/ line[1] \notin {"$", "+"} /\ End(p, "assert")
  /\ UNCHANGED <<vars, round_counter, deserters>>

SlipTransactionsKept(p, info) ==   \* clearTransactions is forgotten
  IF place[p] = "list" THEN NewInfo ELSE info

(* playGame: a new GameInfo after onGameStart, and clearTransactions after  *)
(* each turn's "ready".                                                     *)
InfoReset(p, info) ==
  CASE place[p] = "list" -> NewInfo
    [] place[p] = "end"  -> [info EXCEPT !.transactions = <<>>]
    [] OTHER -> info

(* onTurn looks at as many players as onStart has counted.  If m_players    *)
(* has fewer, it reads behind its end, and goes on with whatever is there   *)
(* or dies of it.                                                           *)
Overruns(p, info) == place[p] = "look" /\ ~(memory[p].constants \subseteq info.known)

(* A command was acknowledged, with the items names.  In onStart the bot    *)
(* looks itself up in the list, and Map::at throws if it is missing.        *)
Acknowledged(p, names) ==
  LET info == IF place[p] = "look" THEN UpdatePlayerList(Info(p), names) ELSE Info(p)
      m    == [memory[p] EXCEPT
                 !.m_gameInfo = InfoReset(p, info),
                 !.constants = IF place[p] = "list" THEN names ELSE @]
  IN  IF place[p] = "list" /\ memory[p].number \notin names
        THEN End(p, "not listed")
        ELSE Proceed(p, m) \/ (Overruns(p, info) /\ End(p, "overrun"))

SlipNextName(k) == k   \* the number is not counted up

(* GenericNameGenerator::nextName *)
NextName(k) == k + 1

(* CommandException: login tries the next name, a bot takes note of it, and *)
(* nobody else catches it.                                                  *)
Refused(p) ==
  CASE place[p] = "login" -> Goto(p, "login", [memory[p] EXCEPT !.number = NextName(@)])
    [] place[p] = "turn"  -> Proceed(p, memory[p])
    [] OTHER -> End(p, "exception")

(* A turn of execCommand's loop, once the command is written: what comes    *)
(* before the answer are events for the queue.                              *)
ExecCommand(p) ==
  /\ Running(p) /\ place[p] \in DOMAIN Issued
  /\ inbox[p] # <<>>
  /\ inbox' = [inbox EXCEPT ![p] = Tail(@)]
  /\ LET line == Head(inbox[p])
     IN \/ line[1] = "ack" /\ Acknowledged(p, line[2])
        \/ line[1] = "fail" /\ Refused(p)
        \/ /\ line[1] \in {"$", "+"}
           /\ Stay(p, [memory[p] EXCEPT !.m_eventQueue = Append(@, line)])
  /\ UNCHANGED <<vars, round_counter, deserters>>

(* The process dies at any moment, and what it has not read goes with it. *)
Crash(p) ==
  /\ Running(p)
  /\ End(p, "crash")
  /\ inbox' = [inbox EXCEPT ![p] = <<>>]
  /\ UNCHANGED <<vars, round_counter, deserters>>

-----------------------------------------------------------------------------
(* The server's handlers, with what they send *)

ServerOnly == UNCHANGED <<round_counter, pending, program, deserters>>

Launch(p) ==
  /\ place[p] = "off" /\ ended[p] = "no" /\ cstate[Supervisor] = "SUPERVISOR"
  /\ Connect(p) /\ Send(Nothing, Nothing)
  /\ place' = [place EXCEPT ![p] = "auth"]
  /\ UNCHANGED <<round_counter, pending, ended, memory, deserters>>

(* The end of the process is the end of its input, behind its last command. *)
Drop(p) ==
  /\ ended[p] # "no" /\ pending[p] = "none"
  /\ Disconnect(p) /\ Send(Nothing, Nothing)
  /\ deserters' = deserters \cup {name[q] : q \in Players \cap {p}}
  /\ UNCHANGED <<round_counter, pending, program>>

(* command_exec *)
Done(p, names) == Send(Nothing, To(p, <<Ack(names)>>))
Refuse(p)      == Idle /\ UNCHANGED vars /\ Send(Nothing, To(p, <<Fail>>))

Serve(p) ==
  /\ cstate[p] # "NONE"
  /\ \/ /\ pending[p] = "auth"
        /\ IF \E d \in Client : name[d] = memory[p].number
             THEN Refuse(p)
             ELSE Auth(p, memory[p].number, "IN_LOBBY") /\ Done(p, {})
     \/ /\ pending[p] = "ready"
        /\ IF cstate[p] \in {"IN_LOBBY", "IN_GAME"}
             THEN (ReadyInLobby(p) \/ ReadyInGame(p)) /\ Done(p, {})
             ELSE Refuse(p)
     \/ /\ pending[p] = "lsgame"
        /\ Idle /\ UNCHANGED vars
        /\ Done(p, {name[c] : c \in Players})
     \/ /\ pending[p] = BotCommand
        /\ Idle /\ UNCHANGED vars
        /\ \/ cstate[p] = "IN_GAME" /\ Done(p, {})
           \/ Refuse(p)
  /\ pending' = [pending EXCEPT ![p] = "none"]
  /\ UNCHANGED <<round_counter, program, deserters>>

Supervise ==
  /\ Start(Supervisor) \/ Step(Supervisor) \/ Run(Supervisor)
  /\ Send(Nothing, Nothing) /\ ServerOnly

Halt == Pause(Supervisor) /\ Send(Nothing, Nothing) /\ ServerOnly

TakeSeat ==
  /\ Connect(Supervisor) \/ Auth(Supervisor, 0, "SUPERVISOR")
  /\ Send(Nothing, Nothing) /\ ServerOnly

SlipCounterKept ==   \* round_counter is not reset
  /\ LobbyExit /\ Send(Nothing, Nothing)
  /\ deserters' = {}
  /\ UNCHANGED <<round_counter, pending, program>>

GameBegins ==
  /\ LobbyExit /\ Send(Nothing, Nothing)
  /\ round_counter' = 0 /\ deserters' = {}
  /\ UNCHANGED <<pending, program>>

SlipRoundBegins ==   \* the market is announced after the new states
  /\ RoundEnter /\ Send(Nothing, ToPlayers(<<Market>>)) /\ ServerOnly

RoundBegins == RoundEnter /\ Send(ToPlayers(<<Market>>), Nothing) /\ ServerOnly

(* The lines are the same for all: a bankrupt that is removed early in the  *)
(* walk over the clients does not hear of the later ones, and goes anyway.  *)
RoundCloses(bankrupt) ==
  /\ round_counter + 1 >= MaxRounds => Cardinality(Players \ bankrupt) < 2
  /\ RoundExit(bankrupt)
  /\ Send(ToPlayers(<<Finance>> \o Line(bankrupt # {}, Bankrupt(bankrupt))), Nothing)
  /\ round_counter' = round_counter + 1
  /\ UNCHANGED <<pending, program, deserters>>

(* OffersOverrun needs an abort: OffersFit. *)
Server ==
  \/ GameBegins
  \/ RoundBegins
  \/ \E bankrupt \in SUBSET Players : RoundCloses(bankrupt)
  \/ (LobbyEnter \/ BeforeRoundEnter \/ BeforeRoundExit) /\ Send(Nothing, Nothing) /\ ServerOnly

-----------------------------------------------------------------------------
(* Specification *)

SessionInit ==
  /\ Init
  /\ round_counter = 0
  /\ inbox = [p \in Player |-> <<>>] /\ pending = [p \in Player |-> "none"]
  /\ place = [p \in Player |-> "off"] /\ ended = [p \in Player |-> "no"]
  /\ memory = [p \in Player |-> NewMemory]
  /\ deserters = {}

SessionNext ==
  \/ TakeSeat \/ Supervise \/ Halt
  \/ Server
  \/ \E p \in Player : \/ Launch(p) \/ Drop(p) \/ Serve(p)
                       \/ WaitForState(p) \/ ExecCommand(p) \/ Crash(p)

SessionSpec == SessionInit /\ [][SessionNext]_allVars

(* The server's thread serves every socket in turn; a client process runs   *)
(* on; the supervisor starts games and rounds when it can.  Nobody has to   *)
(* come, to pause or to crash.                                              *)
SessionFairSpec ==
  /\ SessionSpec
  /\ WF_allVars(Server) /\ WF_allVars(Supervise)
  /\ \A p \in Player :
       /\ WF_allVars(Serve(p)) /\ WF_allVars(Drop(p))
       /\ WF_allVars(WaitForState(p) \/ ExecCommand(p))

-----------------------------------------------------------------------------
(* Safety *)

(* Every variable keeps its type; nobody needs more names than there can be *)
(* players, and a bot's list has no names it did not get from lsgame.       *)
SessionTypeOK ==
  /\ round_counter \in 0 .. MaxRounds
  /\ pending \in [Player -> {"none", "auth", "ready", "lsgame", BotCommand}]
  /\ place \in [Player -> DOMAIN After \cup {"off"}]
  /\ \A p \in Player : /\ memory[p].number \in Name \ {0}
                       /\ memory[p].constants \subseteq Name
                       /\ Info(p).dead \subseteq Info(p).known

(* The bot decides: its turn is on, for the server too, and the command     *)
(* that ends it has not been carried out.                                   *)
Deciding(p) ==
  /\ Running(p) /\ cstate[p] = "IN_GAME" /\ state = "ROUND"
  /\ place[p] = "turn" \/ (place[p] = "end" /\ pending[p] = "ready")

(* The assertions of waitForState and playGame hold, no refusal or state    *)
(* comes where nothing catches it, and no answer is met where a state is    *)
(* awaited: a client's process ends by itself only because its game is      *)
(* over, before its first turn in onStart and later in the loop; or its bot *)
(* has read behind the end of m_players, after somebody's crash.            *)
NoSurprise ==
  \A p \in Player :
    \/ ended[p] \in {"no", "crash", "over", "not listed"}
    \/ ended[p] = "overrun" /\ \E q \in Player : ended[q] = "crash"

(* A bot in its turn has the market of this round before it, although the   *)
(* market's line went through the queue of events.                          *)
MarketFresh ==
  \A p \in Player : Deciding(p) => Info(p).market = round_counter

(* The transactions of a turn are those of the round that was closed last,  *)
(* all of them and no older ones.  A round is closed after the last "ready" *)
(* was answered, so its finances come behind that answer, and whichever of  *)
(* waitForState and execCommand takes them from the line, they are consumed *)
(* behind clearTransactions and before the turn.                            *)
FinancesFresh ==
  \A p \in Player : Deciding(p) =>
    Info(p).transactions =
      IF round_counter = 0 THEN <<>> ELSE <<round_counter - 1>>

(* In its turn a bot counts everybody as alive who is in the game, and      *)
(* besides them only such as have left it by hanging up, whom the server    *)
(* does not announce.  Whoever it counted in onStart and does not know now  *)
(* has left in this way, too: without a deserter the constants are right,   *)
(* and nothing is read behind the end of m_players.                         *)
ViewTrue ==
  \A p \in Player : Deciding(p) =>
    LET playing == {name[q] : q \in Players}
        alive   == Info(p).known \ Info(p).dead
    IN  /\ playing \subseteq alive /\ alive \subseteq playing \cup deserters
        /\ Info(p).known \subseteq memory[p].constants
        /\ memory[p].constants \subseteq Info(p).known \cup deserters

-----------------------------------------------------------------------------
(* Liveness, under SessionFairSpec *)

(* The search for a free name comes to an end, although all clients count   *)
(* up from the same first name.                                             *)
LoginEnds == \A p \in Player : place[p] = "login" ~> place[p] # "login"

(* A bot in a game gets its next turn or hears that the game is over,       *)
(* unless somebody has crashed, whose turn the server may wait for forever. *)
WaitsEnd ==
  \A p \in Player :
    place[p] \in {"game_active", "game_again"} ~>
      \/ ~Running(p) \/ place[p] = "turn" \/ place[p] = "end"
      \/ \E q \in Player : ended[q] = "crash"

(* A client that the server has taken out of its game while it plays,       *)
(* whatever it is doing then, leaves the loop of playGame.                  *)
EndIsLearnt ==
  \A p \in Player :
    (place[p] \in InLoop /\ p \notin Players) ~> ~Running(p)

-----------------------------------------------------------------------------
(* Claims of the repository that the code does not keep *)

(* "Game-wise constants" (bot.msl): what onStart has counted is what the    *)
(* bot finds in every turn of the game.                                     *)
ConstantsHold ==
  \A p \in Player : Deciding(p) => Info(p).known = memory[p].constants

=============================================================================
