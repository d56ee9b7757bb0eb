----------------------------- MODULE GameRound -----------------------------
(***************************************************************************)
(* What the management game promises to the people who play it, with no    *)
(* reference to the server's counters or to its event loop:                *)
(*   - a game has at least two players, fixed when it begins;              *)
(*   - it is a sequence of rounds; in a round everybody has one turn, and  *)
(*     the round closes only when every turn is over;                      *)
(*   - closing a round takes the bankrupts out, and a player may leave at  *)
(*     any moment;                                                         *)
(*   - the game is over exactly when fewer than two players are left.      *)
(* ServerFSM implements this specification as long as no supervisor        *)
(* aborts a game.                                                          *)
(***************************************************************************)
CONSTANT Client

VARIABLES
  game,      \* "off", "between" (rounds) or "round"
  players,   \* who is in the game
  thinking   \* the players whose turn is not over

vars == <<game, players, thinking>>

Init ==
  /\ game = "off"
  /\ players = {}
  /\ thinking = {}

TwoOrMore(S) == \E a, b \in S : a # b

(* With one survivor or none there is nobody to play against. *)
GoOnWith(survivors, where) ==
  IF TwoOrMore(survivors)
    THEN game' = where /\ players' = survivors
    ELSE game' = "off" /\ players' = {}

Begin(P) ==
  /\ game = "off"
  /\ TwoOrMore(P)
  /\ game' = "between"
  /\ players' = P
  /\ UNCHANGED thinking

Open ==
  /\ game = "between"
  /\ game' = "round"
  /\ thinking' = players
  /\ UNCHANGED players

EndTurn(p) ==
  /\ game = "round"
  /\ p \in thinking
  /\ thinking' = thinking \ {p}
  /\ UNCHANGED <<game, players>>

Close(bankrupt) ==
  /\ game = "round"
  /\ thinking = {}
  /\ GoOnWith(players \ bankrupt, "between")
  /\ UNCHANGED thinking

Leave(p) ==
  /\ p \in players
  /\ GoOnWith(players \ {p}, game)
  /\ thinking' = (thinking \ {p}) \cap players'

Next ==
  \/ \E P \in SUBSET Client : Begin(P)
  \/ Open
  \/ \E p \in thinking : EndTurn(p)
  \/ \E B \in SUBSET players : Close(B)
  \/ \E p \in players : Leave(p)

Spec == Init /\ [][Next]_vars
=============================================================================
