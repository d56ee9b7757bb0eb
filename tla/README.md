# Verification of the management game

This directory holds TLA+ models of the game server in `src/src/server`, of the
core it stands on (`src/src/core`) and of the client that plays on it
(`src/src/client`), the TLC configurations that check them, and proofs that TLAPS
checks. Paths below are relative to `src/src`.

The program is a server for the economic game "Management". Players connect
over TCP or a Unix socket, log in, get ready; a supervisor starts a game and
steps it, runs it, pauses it or aborts it; in each round every player makes
requests (buy, sell, produce, build) and ends the turn; closing the round holds
the auctions and takes the bankrupts out. The server has one thread: a
`select()` loop calls back into a state machine, and the state machine sends
through the loop's queues. The client is a bot: one thread that blocks in
`read()`, answers the server's messages and gives commands.

## 1. Inventory

| Component | State | Operations | Module |
|---|---|---|---|
| Event FSM, `core/fsm.c` | `state`, `next_state`, `loop_finished` | `fsm_event`, `fsm_switch_state` | `ServerFSM` |
| Server states, `server/server_fsm.c` | `ServerData`: clients, counters, flags | connect, disconnect, the three states' handlers | `ServerFSM` |
| Commands, `server/commands.c` | client states and names, requests | `auth`, `ready`, `notready`, `start`, `step`, `run`, `pause`, `abort`; `buy`, `sell`, `produce`, `build` | `ServerFSM`, `Economy` |
| Game rules, `server/game.c` | players, `n_players`, `n_waitfor`; market, money, goods, factories | `game_start`, `game_start_round`, `game_finish_round`, `game_remove_player`, `game_check_players` | `ServerFSM`, `Economy`, `GameRound` |
| Server process, `server/main.c` | signal handlers | the three callbacks, `terminate_handler` | `SocketLoop` |
| Socket loop, `core/socket_loop.c` | the list of clients, their flags, `do_continue` | run, stop, accept, read, send, drop, delete | `SocketLoop` |
| Linked list, `core/list.c` | nodes | `list_filter`, `list_push` | `SocketLoop` |
| Send queue, `core/smq.c` | `current`, `current_pos`, `queued` | enqueue, try to send, is empty, delete | `SocketMessageQueue`, `BytePipe` |
| Lexer and buffer, `core/lexer.c`, `core/buffer.c` | a line, the tokens' buffer, the machine's state | `lexer_split`, putting characters, growth by doubling | `Lexer` |
| Connection, `client/Connection.cpp` | the bytes of a line begun, the lines read | `readMoreData`, `operator>>` | `Connection` |
| Stanzas, `client/Stanza.cpp` | words | `toString`, `parse` | `Lexer` |
| Session, `client/Session.cpp` | the queue of events, the game's information | login, `playGame`, `waitForState`, `execCommand` | `Session` |
| Game information, `client/GameInfo.cpp` | market, transactions, players, who is dead | `consume`, `updatePlayerList`, `clearTransactions` | `Session` |
| Bot, program, names: `BotActor.cpp`, `Main.cpp`, `GenericNameGenerator.cpp` | constants, the next name's number | `onStart`, `onTurn`, `main`, `nextName` | `Session` |

How they interact: `select()` → `check_events` → a callback in `main.c` →
`fsm_event` → a handler → `socketloop_send` / `socketloop_drop_client` → the
send queue and the same list of clients that `check_events` is walking. So a
call goes from the loop into the server and back into the loop, and what one
level holds across the call (a list node, a counter, a client's state) may be
changed below it. Lines leave the server in the order in which a handler sends
them: broadcasts, news of states ("$"), then the "ack" or "fail" of the command.
A client that waits for a state skips game data and dies of an answer; one that
waits for an answer puts everything else aside for later.

What is hard here is not parallelism inside a process (only signals run beside
the server's thread) but (a) long sequences of legal commands, leavings and
aborts that leave the bookkeeping of players behind the truth, (b) the state
machine's loop in which handlers switch states while it runs, (c) re-entrance
while a linked list is relinked, (d) short writes, short reads and closing
connections, (e) values that are checked in a turn and used when the round
closes, and (f) lines that cross: a client decides on what it has heard while the
server goes on.

What makes each part right:

- *server*: the counters and the client states tell one story; a game has two
  players at least; a round ends exactly when every turn is over; the loop of
  `fsm_event` ends; names identify clients.
- *economy*: requests that were granted can be met; no factory is missed; the
  market keeps up with the players; auctions serve by price and waste nothing.
- *socket loop*: the list holds exactly the live clients between two passes; no
  callback asks for a client that does not exist; whoever is gone is reported.
- *send queue*: it is a pipe of bytes; "empty" means sent.
- *connection*: lines arrive whole, in order, once each.
- *lexer*: tokens are those of the quoting rules that `lexer.c` describes; buffers
  keep to their memory; client and server read each other's lines alike.
- *session*: the client never meets a line it does not expect; in its turn it knows
  what the server has told, and nobody but those who hang up is missing; a wait ends.

## 2. Modules

### ServerFSM

One action per handler: those that `on_event` leads to (`Connect`,
`Disconnect`, and the commands), and the `on_exit` and `on_enter` of each state,
which the loop of `fsm_event` runs one after the other while `loop_finished` is
set. `pc` tells whether the loop stands before an `on_exit` ("event") or before
an `on_enter` ("exited"). A command that answers "fail" changes nothing and is
a guard. `Disconnect` is the whole of `drop_client` with `game_remove_player`
and the `game_check_players` that follows; `RoundExit` is the whole of
`game_finish_round`, where the choice of bankrupts is left open (`Economy`
makes it). The counters are `count_t`: `Minus` wraps at `UIntMod`. They start
with anything, since `server_fsm_new` does not set them (`Garbage`).

`game_remove_player` is translated in the order of its statements: it gives the
client its new state before it tests it, so `n_waitfor` is in fact never
decremented there.

When `n_players` is not the number of players, the array of offers does not
fit; what happens then is up to the allocator (or to a sort of unset pointers).
`OffersOverrun` stops the model there; if there are more players than places,
`RoundExit` may also go on as if nothing had happened.

`left_behind` is a history variable, which no handler reads: the players that
aborts have left in their game states. An `abort` adds those of its game; they
leave it when they leave the server from the lobby (`LeftBehindBut`), and the
number of them is fixed while a game is on. `PlayersLag` equates it with the
counter's error.

Abstracted: replies and broadcasts (except whether supervisors were last told
of a start or an end; `Session` adds the lines), the order of the client list
(any player may be the winner), the limit on a name's length, `round_counter`
(in `Economy` and `Session`).

### GameRound

The game as its players see it, in 70 lines: begin with two or more, rounds in
which everybody has one turn, bankrupts, leavers, and the end when fewer than
two are left. `ServerFSM` maps to it with `players` and `thinking` read off the
client states and `game` off those and the server's state; none of the
server's counters occurs in the mapping. So the refinement says that the
counters never decide otherwise than the truth would.

### Economy

`game_start`, `game_start_round`, the four requests, leaving, and
`game_finish_round` with `update_market_state`, both auctions, `do_expenses`
and `do_kill_bankrupts`. Turns, supervisors and the lobby are left out: rounds
open and close at any moment, which allows more than `ServerFSM` does. The
number of players stands for `n_players`, which `PlayersCounted` shows for games
without aborts. The tables, prices and expenses are the source's; the
multipliers are doubled to stay in integers. `qsort` may leave ties in any
order, so an auction has a set of possible outcomes. The dice may show any of
`MarketStates`. A request may have any number and any price that the code grants
(`Counts`, `Sites` and `Margins` are arbitrary sets of numbers in the proofs): a
purchase at any price from the market's upwards, a sale down to a price of 0.
Amounts are integers; sums that reach 2^31, where `money_t` wraps, are left out.
What a client that is out of the game owned is dead data and set to 0.

### SocketLoop

`socketloop_run` step by step: the test, `select()`, the listeners, the walk
along the list, each line of input, and `list_filter` node by node, with the
link pointer, the new root and the set of freed nodes. `Send` is
`socketloop_send` to a set of clients: which of them the server sends to in a
callback depends on the game, so the model allows any of those the server
knows; `find_client` is followed along the real next pointers. Freed memory
read on that way goes unnoticed, ends the program ("stale"), or leads the walk
astray and into `fatal` ("astray"; "fatal" itself is a client that is not there).
Beside the loop run the peers, who close or reset a connection (`PeerLeaves`), and
the signal handler, which comes between any two steps. After a reset `recv` fails
once (`InputFails`: a warning, and the client is kept) and then returns 0, unless a
send has met the error first.

`gone` is a history variable, which the loop does not read: those whose end is due
in the running pass. `select()` puts those at the end of their input into it, `recv`
returning 0 and a drop add to it, a `recv` that fails takes its client out until the
next pass. `DeadAreDeleted` is about it.

Abstracted: the contents of lines and queues (a queue is empty or not), errors of
other system calls than `accept` and `recv`, and reuse of descriptor numbers (a
number is reused only after its client is reported gone, which is what `Accept`
requires).

### SocketMessageQueue, BytePipe and Connection

`SocketMessageQueue`: `smq_try_send` with its short writes, a full socket and
errors, the two callers in the loop, and the kernel's buffer of `Room` bytes that
the peer drains. A byte is a message's number and a place in it. `BytePipe` is the
abstract queue: bytes put in come out in order, and closing loses only the end.

`Connection` puts the client at the other end. What the kernel has taken and no
longer holds has arrived; `ReadBlock` is one `read()` of up to `BufSize` bytes with
the loop over them, `Receive` hands out the first line, `ReadEnds` is the exception
when the server has closed or the connection broke. The last byte of a message is
its newline.

### Lexer

`ReadStanza`, `ReadChar`, `ReadNewline` and `Clear` are `read_data` filling a
client's buffer with what a client of this repository writes
(`Stanza::toString`) or with any characters; `Whitespace`, `Quote`, `Word`,
`Escape` and `QuoteEscape` are the five states of `lexer_split`, a character a
step, and `Return` makes the list out of the one buffer in which the words
stand, separated by zeros. `Grammar` is the reference: it says which
characters are escaped (`Escaped`), which quotes count (`Quoting`) and what
separates words (`Separates`), and what is meant by the stretch before each end of
a word (`Meant`), without a state machine. `Parse` is `Stanza::parse` of the client.
Of a buffer are kept its contents and the size of its memory. The loops of the code
that are not steps of their own are recursive functions: `SizeEnough`, `PutAll`
(the loop of `read_data` over a line that a client sent), `Parsed` and, in
`make_token_list`, `Ascending`.

### Session

Extends `ServerFSM`: each of its actions is the server's handler together with the
lines it sends to players (`Send`), in the order of the code; beside it, the
clients' programs. A program rests in `read()` only, so a step takes one line there:
`place` names the call, `Awaited` the state that is waited for in it, `Issued` the
command that was written before it, `After` where the program goes on.
`WaitForState` and `ExecCommand` are one turn of the loops of the two functions of
`Session.cpp`: a line that is not the one waited for is consumed as game data or put
into the queue of events, and the program stays where it is (`Stay`); otherwise it
goes on to the next `read()`. `Acknowledged` and `Refused` are what each caller makes
of the answer, exceptions included; the items of an `lsgame` come with its "ack" in
one line. `Crash` ends a process at any moment, between two lines too.

`constants` are the names that the script's `NPlayers` counts in `onStart`; if
`m_players` has fewer in the first turn, `onTurn` reads behind its end (`Overruns`)
and may die of it ("overrun") or not. `deserters` is a history variable: the names
of those who have left the running game by hanging up, which the server does not
announce to the others. A bot can be among them without a crash, by the late `ready`
of section 4.

A bot gives at most one command a turn, standing for any of the four kinds, and
the server refuses or accepts it. The supervisor is a client without a program: it
takes its seat first and gives any commands except `abort`.

### Proof modules

`Iteration` (facts about counting loops and joined sequences), `ServerFSM_proofs`,
`Economy_proofs`, `SocketLoop_proofs`, `SocketMessageQueue_proofs`,
`Connection_proofs`, `Lexer_proofs` and `Session_proofs` (which extends
`ServerFSM_proofs`, as `Session` extends `ServerFSM`); see section 5. `MCServerFSM`,
`MCSocketLoop`, `MCEconomy`, `MCLexer` and `MCSession` only add the symmetry sets, and
the sets of words and names, for TLC.

## 3. Runs

| Run | Instance | What it shows |
|---|---|---|
| `server_safety` | 4 clients, 4 names, 3-bit counters, counters that start with 0, 1 or 7, aborts | types; the count of players, announcements and room for offers until the first abort; the exact lag of the counters afterwards; no turn is forgotten |
| `server_game` | 4 clients, no aborts, fair | `ServerFSM` implements `GameRound`; the loop ends; rounds end |
| `economy` | 3 clients, 5 rounds, 3 requests, 3 market states, 2 prices | requests stay covered, factories are on time, the market serves all, auctions are fair |
| `loop_safety` | 3 connections, 2 listeners, resets, a signal | the list is intact, nobody unknown is asked for, whoever is dropped or at an end is deleted in that pass |
| `loop_live` | 2 connections, fair, resets, a signal | who is gone is reported; a stop is heeded |
| `smq_pipe` | 3 messages of 1, 2 or 4 bytes, 3 bytes of room, reads of up to 3 bytes, fair | refinement of `BytePipe`; "empty" is exact; the queue is flushed; the client gets the lines whole and in order, and all that were sent |
| `lexer` | lines of up to 6 characters; stanzas of up to 2 words of up to 2 characters; buffers that start with 2 bytes | tokens by the grammar; memory; words arrive; the two parsers agree |
| `session` | 3 bots and a supervisor, 3 rounds a game, crashes | no client is surprised; market, finances and living players are known in a turn, but for those who have hung up |
| `session_live` | 2 bots and a supervisor, 3 rounds a game, crashes, fair | the search for a name ends, waits end, the end of a game is learnt |
| `doc_waitfor` | as `server_safety`, no aborts | finding 1 |
| `doc_two_players` | as `server_safety` | finding 2 |
| `loop_flush` | 2 connections | finding 3 |

Why the bounds are enough. Four clients make a game of three with a supervisor
beside it: a leaver, a bankrupt and a survivor at once, and after an abort two
stale players beside two new ones. Counters of three bits hold 0 to 4 and are
close enough to wrap around. Three clients in the list are a first, a middle and
a last one to filter. In `economy` a factory that is begun in round 0 is ready
at the end of round 4, the fifth; three requests in all are enough to keep two
players alive until then and have one build, to have three bid for the same
goods, and to have one player sell in two rounds or build twice. A message of
four bytes does not fit into three bytes of room, one of one byte leaves room,
and 1 + 2 fills it exactly; a read of three bytes cuts a message of four, ends
with one, or spans three. Six characters hold a quoted part with an escaped
character and something on either side; memory that starts with two bytes grows
twice on the way. Three rounds of `session` are a first, a middle and a last one:
a list of players fetched in the first, a bankrupt in the second, a decision in
the third; three bots are one who goes and two who play on. The bound on rounds is
in the guard of `RoundCloses`: by then too many go bankrupt.

Deadlock is checked in `server_game`, where the server never stops. Elsewhere a
behaviour may end: at a fault in `server_safety`, when the server is stopped or dies
in `loop_*`, when a bound is reached or a connection is closed in `economy`,
`smq_pipe` and `lexer`, and in `session*` when all clients have ended.

Fairness. `server_game`: the loop of `fsm_event` runs on (one thread, nothing
blocks in it), and a player in a turn says "ready" some day, as every actor of
the client does at the end of a turn; nobody has to connect, leave or supervise.
`loop_live`: the loop runs on, `select()` returns if a connection is at its end,
and an input comes to an end when it is read over and over: a peer that sends
faster than the server reads for ever would hold `read_data` for ever. `smq_pipe`:
the thread runs on, `select()` reports a writable socket, a peer that is not gone
drains, and the client comes back for the next line, as both its loops do; when the
client gets to read, and how much, is not otherwise constrained. `session_live`: the
server serves every socket in turn (`check_events` walks the whole list), a client's
program runs on when its line is there, and the supervisor starts games and rounds
when it can; nobody has to come, to pause or to crash.

Conditions in properties. `RoundEnds` asks that `n_waitfor` is the number of
players in their turn, because of finding 1: without it the property is false.
`WaitsEnd` excuses a wait when somebody has crashed, for the same reason: the
crashed player's turn is waited for, for ever. So neither of the two says anything of
the hang that `doc_waitfor` shows; that run alone does. `NoSurprise` allows the
ending "overrun" only if somebody has crashed. `PlayersCounted`, `OffersFit` and
`EndAnnounced` hold until the first abort; what is left after it is `PlayersLag`,
`TurnsAwaited` and `WinnerExists`. `DeadAreDeleted` asks for nobody's deletion whose
end comes up after its node was visited in the pass (the next `select()` has it), and
not in the pass in which `recv` fails.

## 4. Findings

With a run that shows them:

1. `n_waitfor` (`server/types.h:124`) is not the count of unfinished turns after
   a player has left in a turn (`server/game.c:141-144`): the round then does
   not end by turns.
2. After an abort in a round a player's late `ready` starts a game with fewer
   than two ready players (`server/commands.c:254`; `:314` says two are needed).
   The players of an aborted game stay in their game states (`:352-360`), and the
   next game counts only the new ones.
3. A client that quits is deleted with messages unsent
   (`core/socket_loop.c:310-314`; the comment at `:75` says it is flushed first):
   shutting down the receiving side makes the next `recv` return 0.

### Defects without a run of their own

The models have these too; the properties named are stated in their modules but
are no part of a run, because they are false.

- A broadcast about a client that is being deleted walks along list nodes that
  `list_filter` has already freed (`core/list.c:106`, `core/socket_loop.c:278`), and
  may end in `fatal` for a client that is there: `NoStaleNode` in `SocketLoop`.
- A syntax error in a line ends in `lexer_delete(NULL)` (`server/main.c:202`):
  `SurvivesBadSyntax` in `SocketLoop`.
- Production takes no raw material (`server/game.c:337`; `:212` refuses it for lack
  of raw material): `ProducingTakesRaw` in `Economy`.
- A bot whose game ends before its first `lsgame` is answered is not in the list
  that it gets, and `Map::at` ends it in `onStart` (`client/BotActor.cpp:200`): the
  ending "not listed", which `NoSurprise` has to allow.
- The script's "game-wise constants" (`../bot.msl:59`) are made
  from one list of players, its turns' view from a second one that is fetched after the
  first was thrown away (`client/Session.cpp:50`). If somebody hangs up in between,
  `onTurn` asks for as many players as there were (`../bot.msl:77-84`, `98-99`), and gets
  references behind the end of `m_players` (`client/BotActor.cpp:160`,
  `GameInfo.h:97`): `ConstantsHold` in `Session`. As an invariant of the instance of
  `session` it is violated: a player crashes between the two lists of another one.
  `ViewTrue` says that nothing but a player hanging up in its game makes them differ.
- A turn's `ready` that reaches the server when the game has just ended is taken
  as readiness for the next game. The client leaves at "lobby", but between the two
  it counts as ready, and a game may start with it: it then leaves that game as one
  who has hung up.

## 5. Proofs

Each theorem holds for all values of its module's constants that satisfy the named
assumptions: any finite set of clients, any width of `count_t` that can count them,
any sizes of messages, any market states of the table, and so on.

Recursive functions (`Node`, `Left`, `FlattenSeq`, `Reads`, the loops of `Lexer`) and "up to N" arguments need
induction, and the library's induction theorems take operators, which these
provers cannot instantiate. `Iteration` gets around that: `LeastNatural`, `UpTo`
and `Iterated` say the same of *sets* and *functions*, from the one theorem of
`WellFoundedInduction` that takes sets only (`WFMin`). `Iterated` says that a
function which takes each value from the one before exists, so that a `CHOOSE`
that defines a recursive function can be evaluated. `Iteration` also says what
`FlattenSeq` makes of a sequence of sequences that gains an element, for the bytes
of the send queue and for the words of a client's line.

`ServerFSM_proofs`:

- `TypeCorrect` (`TypeOK`).
- `NamesIdentified` (`NamesIdentify`, which no run checks by itself): inductive with
  the types, and needed by most of what follows and by `Session_proofs`.
- `PlayersLagging` (`PlayersLag`) and `WinnerFound` (`WinnerExists`), with aborts.
  The inductive invariant `LagInv` says that in a game `n_players` is the number of
  players less that of `left_behind` modulo `UIntMod`, and outside of one the players
  are those of `left_behind`. It is needed because the assertion's truth depends on
  "the counter is 1, so somebody is there", which fails for a counter that is
  merely some number: a lag of k makes a counter of 1 mean 1 + k players.
- `TurnsAreAwaited` (`TurnsAwaited`), with aborts: no round closes by turns over more
  open turns than there are players in `left_behind`, so over none before the first
  abort.
- `PlayersCountedCorrectly` (`PlayersCounted`), `OffersAlwaysFit` (`OffersFit`)
  and `EndIsAnnounced` (`EndAnnounced`), from `CountInv`: until the first abort
  the counter is exact in every state of the loop, a switch to the lobby is
  pending exactly when nobody is left, and the supervisors' last news agrees.
- `NeverRestsInContinuousGame` (`NoRestInContinuousGame`): most handlers can only
  ask for the loop once more (`Settles`), and the few that let it rest have left the
  state or ended the continuous game.
- `GameImplemented` (`GameRefined`): without aborts every step of the server is a
  step of `GameRound` or a stutter. Besides `CountInv` it needs `TurnInv`:
  `n_waitfor` is never below the number of players in their turn, so that it is 0
  only when nobody is (leavers keep it too high, never too low), and nobody is in
  a turn outside a round.

`Economy_proofs`:

- `TypeCorrect` (`TypeOK`) and `RequestsAlwaysCovered` (`RequestsCovered`), which
  are inductive only together: that no stock falls below 0 follows from requests
  being covered when the round closes, and from an auction taking no more than was
  asked for. The latter is a fact about the auction's loop (`Left`): what is left
  falls in each turn by what the player asked for, or to 0.
- `FactoriesAlwaysOnTime` (`FactoriesOnTime`), strengthened to `Deadlines`, which
  says the same in every phase of a game: the head of the list is due next, or
  nothing is; whatever is appended is due later than all there is.
- `MarketAlwaysServesAll` (`MarketServesAll`): amounts grow with the number of
  players, and that number only falls in a game.
- `AuctionsAlwaysFair` (`AuctionsFair`, an action property). Its totals are folds over
  the set of players, while the auction goes through a list of them. Sums over all
  subsets exist as one function, built by the size of the subset (`SumsExist`); it
  is `Total` on the players (`TotalIsSum`); and what is dealt up to the i-th offer
  is what is missing from the goods then left (`DealtTotal`). Of two offers the
  one that comes first is served in full before the other gets anything
  (`ServedInOrder`), and the list is sorted by price.

`SocketLoop_proofs`:

- `TypeCorrect` (`TypeOK`), `NeverFatalHolds` (`NeverFatal`), `ListStaysIntact`
  (`ListIntact`) and `DeadAreAlwaysDeleted` (`DeadAreDeleted`, an action property).
  The invariant does not walk the list. It says that the clients can be ranked such
  that every next pointer goes up in rank and passes over nobody the server knows
  (`Ranked`), and where in that order `list_filter` is. Deleting a node keeps the
  ranks of the others, and a new client gets a rank below all. `WalkFindsAll`
  leads from ranks back to the walk of `find_client`. `DeadAreDeleted` needs beside it
  that whoever is in `gone` is still to be visited and read in the walk, or is marked
  already, and behind the place of `list_filter` if still known (`DueInv`); and that
  nobody is marked who is not at an end (`EndsInv`).

`SocketMessageQueue_proofs`:

- `TypeCorrect` (`TypeOK`).
- `EmptyIsAlwaysSent` (`EmptyIsSent`), from `AtRest`: between two calls a message is
  under way, with a byte left at least, or nothing is in the queue.
- `PipeImplemented` (`PipeRefined`): an enqueued message lengthens what is unsent,
  what `send()` takes comes off its front, and taking the next message changes
  nothing of it. The lemmas before it say what cutting does to a joined sequence.

`Connection_proofs`:

- `LinesAlwaysArrive` (`LinesArrive`), for messages of any sizes and any cutting by
  writes and reads. Every byte of the stream says which byte comes behind it
  (`Follows`), and that is the next one in the stream (`Chain`). `SenderInv` puts
  the sender at the byte behind the stream; `ReaderInv` puts the reader at the
  byte behind the last one it has read, in the line and at the place that
  what it has collected leads to (`Place`). `ByteRead` takes the reader from one
  place to the next, and `UpTo` carries that over the loop of a block.

`Session_proofs`, for any number of clients and rounds:

- `ServerInSession`: the server among its clients takes no step that `ServerFSM`
  does not (`SessionSpec => Spec`), so that all that is proved of a server without
  aborts holds in a session, and so does what its handlers preserve: the proof
  uses `NamesIdentify`, `CountInv` and `TurnInv` as they are.
- `SessionTypeCorrect` (`SessionTypeOK`), `NobodyIsSurprised` (`NoSurprise`),
  `MarketIsFresh` (`MarketFresh`), `FinancesAreFresh` (`FinancesFresh`) and
  `ViewIsTrue` (`ViewTrue`), all from one inductive invariant, `IInv`.

None of the five is inductive, since what a program knows in its turn depends on
lines that were still on their way before it. `IInv` therefore says of every
player what it may still be told. What a program has to read is the queue of events
followed by the lines on their way, and, in between those, perhaps the answer to its
command. `Story` says which such sequences fit a place of the program and
what the server is doing: at "game_active", for instance, game data come first, and
then either nothing more while the player waits, or its turn, or the end of the game,
or both (`Coming`). `Learns` says what a `GameInfo` will be when the data before
that line are consumed, and `TurnInfo` that this is the market, the finances and,
but for deserters, the living players that the server then has (`NamesRight`; `Sight`
is the server as the player may see it). `Answer` says the same with the answer taken out of the middle; it
needs that the program comes to the next place with just what is left
(`Without`), whichever lines were before the answer and are in the queue by
then. There is one lemma per action: a handler lengthens the sequence (`RoundBeginsStep`,
`RoundClosesStep` and `GameBeginsStep` for the broadcasts, `ServeStep` for the
answers), and a program shortens it or moves a line from the wire into the queue
(`WaitForStateStep`, `ExecCommandStep`). That names do not run out is the pigeonhole
principle (`NumbersFit`): all numbers below the one that is tried next are taken, by
clients of which each has one.

`Lexer_proofs`, for lines of any length, any words and any size at which buffers begin:

- `TokensAlwaysByGrammar` (`TokensByGrammar`). The grammar speaks of the whole line
  and the machine of one character, so the grammar is first followed through the line:
  `GrammarBegins`, `GrammarStep` and `GrammarEnds` say how `Escaped`, `Quoting`, `Meant`
  and `Done`, the words that have ended so far, change from the k-th character to
  the next. The invariant (`AtPlace`) says that after k characters the machine
  is in the state that these determine (`StateAt`), that the strings in its buffer up
  to the last zero are `Done`, and that what stands behind the last zero is `Meant`
  (`Holds`). There is one lemma for each of the five states, and `LetterWritten` and
  `ZeroWritten` say what a character and a zero do to the strings of a buffer.
- `AlwaysWithinMemory` (`WithinMemory`): doubling ends, at a size that is enough
  (`EnoughIsEnough`), so that whatever is put fits (`PutCharFits`).
- `WordsAlwaysArrive` (`WordsArrive`): each word of `LineOf` is followed through the
  grammar, character by character (`WordIsRead`), and the line word by word
  (`LineIsRead`).
- `ParsersAlwaysAgree` (`ParsersAgree`): `Stanza::parse` keeps its words in a list and has
  no state for a backslash, but without backslashes it follows the same grammar
  (`ParsesByGrammar`).

Every invariant and every safety property that a passing run checks is a theorem.
Only model-checked: liveness (`LoopSettles`, `RoundEnds`, `GoneIsReported`,
`StopHeeded`, `Flushed`, `Heard`, `LoginEnds`, `WaitsEnd`, `EndIsLearnt`), which is
out of the prover's reach.

## 6. Not modelled

- The formatting of replies and tables, and the conversion of arguments (`sscanf`).
- Logging (`server/log.c`), whose copy to the clients is switched off by an early
  return.
- Listening on the addresses; errors of `select()` and of system calls that the
  loop does not look at.
- The bot's decisions: `BotActor` interprets a script in a language whose
  implementation is a submodule that is not in the repository. `Session` lets it give
  a command in its turn or none, granted or refused, and then "ready".
- `DumbActor` and `HumanActor`, which `Main.cpp` does not use.
- Short writes of the client: it writes one command and waits for the answer.
- Aborts in `Session`: a client is told nothing of one, and there is no claim of
  what it should know; what an abort does to the server is in `ServerFSM`.
- The terminal, the containers in `client/ministl`, and the old tests and the
  script, which use an interface that is gone.

What would come next, in this order:

1. A composition of `SocketLoop` with the server's list of clients: today
   `SocketLoop` lets the server send to anybody it knows, and `ServerFSM` lets
   clients go at any moment between two events.
2. `Economy`'s rounds as an instance of `GameRound`, so that the bankrupts
   `ServerFSM` leaves open are those of the accounts.
3. Proofs: an abstract channel of lines that `Connection` implements and `Session` uses.
