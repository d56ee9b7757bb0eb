------------------------------ MODULE Economy ------------------------------
(***************************************************************************)
(* The economy of server/game.c: the market, what a player may request in  *)
(* a turn (the commands buy, sell, produce and build), and what closing a  *)
(* round does with the requests: two auctions, expenses, construction and  *)
(* bankruptcies.                                                           *)
(*                                                                         *)
(* Here is what ServerFSM leaves open, the choice of a round's bankrupts,  *)
(* and what ServerFSM says about turns, supervisors and the lobby is left  *)
(* out here: rounds open and close, and players leave, at any moment.  As  *)
(* ServerFSM's PlayersCounted shows for games that are not aborted,        *)
(* n_players is the number of players.  The numbers and prices of requests *)
(* are any that the code grants, and amounts are integers: no sum of them  *)
(* reaches 2^31, where money_t would wrap around.                          *)
(***************************************************************************)
EXTENDS Integers, Sequences, FiniteSets, Functions

CONSTANTS
  Client,
  MarketStates,   \* the market states that the dice may show
  Counts,         \* numbers of goods that the players put in their requests
  Sites,          \* numbers of factories that they ask to have built
  Margins,        \* how far their prices are from the least favourable
  MaxRounds,      \* bound on the rounds of a game
  MaxRequests     \* bound on all the requests that are granted

ASSUME ClientAssumption == IsFiniteSet(Client)
ASSUME MarketAssumption == MarketStates \subseteq 0 .. 4 /\ 2 \in MarketStates
ASSUME InputAssumption  == Counts \subseteq Nat /\ Sites \subseteq Nat
ASSUME MarginAssumption == Margins \subseteq Nat
ASSUME BoundAssumption  == MaxRounds \in Nat /\ MaxRequests \in Nat

VARIABLES
  phase,            \* "off", "between" or "round"
  players,          \* client_in_game
  \* ServerData
  round_counter,
  market,           \* market_state_number
  raw_count,        \* market_state.raw.count
  product_count,    \* market_state.product.count
  \* GameClientState
  money, factories, raw, product,
  incomplete,       \* factories_incomplete
  \* ClientData.req
  req,
  requests          \* how many requests were granted

goods  == <<money, factories, raw, product, incomplete>>
supply == <<market, raw_count, product_count>>
vars   == <<phase, players, round_counter, supply, goods, req, requests>>

-----------------------------------------------------------------------------
(* Tables.  The multipliers are doubled. *)

RawMult      == <<2, 3, 4, 5, 6>>
ProductMult  == <<6, 5, 4, 3, 2>>
RawPrice     == <<800, 650, 500, 400, 300>>[market + 1]
ProductPrice == <<6500, 6000, 5500, 5000, 4500>>[market + 1]

NoRequest == [raw_to_buy |-> 0, raw_price |-> 0, product_to_sell |-> 0,
              product_price |-> 0, items_to_produce |-> 0, factories_to_build |-> 0]

(* round(n * mult / 2), halves up *)
Rounded(n, mult) == (n * mult + 1) \div 2

(* setup_state *)
SetupState(m, n) ==
  /\ market' = m
  /\ raw_count' = Rounded(n, RawMult[m + 1])
  /\ product_count' = Rounded(n, ProductMult[m + 1])

(* Definitions that begin with "Slip" are plausible slips in the code, kept *)
(* beside the definitions they would change.                                *)

SlipMarketNow(n) ==   \* the counts do not follow the state
  \E m \in MarketStates : market' = m /\ UNCHANGED <<raw_count, product_count>>

(* update_market_state: the counts are set up only if the state changes. *)
UpdateMarketState(n) ==
  \E m \in MarketStates : IF m = market THEN UNCHANGED supply ELSE SetupState(m, n)

-----------------------------------------------------------------------------
(* game_remove_player and game_check_players, where L are the players left. *)
(* The last one is the winner.                                              *)
GoOn(L, where) ==
  IF Cardinality(L) < 2
    THEN phase' = "off" /\ players' = {}
    ELSE phase' = where /\ players' = L

(* The factories being built of those who have lost their seat are freed. *)
Forgotten(inc) == [c \in Client |-> IF c \in players \ players' THEN <<>> ELSE inc[c]]

Init ==
  /\ phase = "off" /\ players = {}
  /\ round_counter = 0
  /\ market = 2 /\ raw_count = 0 /\ product_count = 0
  /\ money = [c \in Client |-> 0]
  /\ factories = [c \in Client |-> 0]
  /\ raw = [c \in Client |-> 0]
  /\ product = [c \in Client |-> 0]
  /\ incomplete = [c \in Client |-> <<>>]
  /\ req = [c \in Client |-> NoRequest]
  /\ requests = 0

(* lobby_on_exit and game_start.  What a client owned in an earlier game is  *)
(* looked at no more from here on, nor from when it leaves: it becomes 0.   *)
GameStart(P) ==
  /\ phase = "off" /\ Cardinality(P) >= 2
  /\ phase' = "between" /\ players' = P
  /\ round_counter' = 0
  /\ SetupState(2, Cardinality(P))
  /\ money' = [c \in Client |-> IF c \in P THEN 10000 ELSE 0]
  /\ factories' = [c \in Client |-> IF c \in P THEN 2 ELSE 0]
  /\ raw' = [c \in Client |-> IF c \in P THEN 4 ELSE 0]
  /\ product' = [c \in Client |-> IF c \in P THEN 2 ELSE 0]
  /\ incomplete' = [c \in Client |-> IF c \in P THEN <<>> ELSE incomplete[c]]
  /\ UNCHANGED <<req, requests>>

SlipRequestsKept ==   \* last round's requests are not cleared
  /\ phase = "between" /\ round_counter < MaxRounds
  /\ phase' = "round"
  /\ UNCHANGED <<players, round_counter, supply, goods, req, requests>>

(* game_start_round *)
StartRound ==
  /\ phase = "between" /\ round_counter < MaxRounds
  /\ phase' = "round"
  /\ req' = [c \in Client |-> IF c \in players THEN NoRequest ELSE req[c]]
  /\ UNCHANGED <<players, round_counter, supply, goods, requests>>

(* drop_client, in a game.  If that ends the game in a round, the round is  *)
(* still closed, with no players: only the market and the round's number    *)
(* may change, which the next game sets anew.                               *)
Leave(c) ==
  /\ c \in players
  /\ GoOn(players \ {c}, phase)
  /\ incomplete' = Forgotten(incomplete)
  /\ money' = [money EXCEPT ![c] = 0]
  /\ factories' = [factories EXCEPT ![c] = 0]
  /\ raw' = [raw EXCEPT ![c] = 0]
  /\ product' = [product EXCEPT ![c] = 0]
  /\ UNCHANGED <<round_counter, supply, req, requests>>

-----------------------------------------------------------------------------
(* Requests: the last one of a kind counts.  A player in the game may make  *)
(* them as long as the turn is on.                                          *)
Requesting(c) ==
  /\ phase = "round" /\ c \in players
  /\ requests < MaxRequests
  /\ requests' = requests + 1
  /\ UNCHANGED <<phase, players, round_counter, supply, goods>>

(* game_request_buy *)
Buy(c, count, price) ==
  /\ Requesting(c)
  /\ count <= raw_count
  /\ price >= RawPrice
  /\ req' = [req EXCEPT ![c].raw_to_buy = count, ![c].raw_price = price]

SlipSell(c, count, price) ==   \* the stock is not checked
  /\ Requesting(c)
  /\ count <= product_count
  /\ price <= ProductPrice
  /\ req' = [req EXCEPT ![c].product_to_sell = count, ![c].product_price = price]

(* game_request_sell *)
Sell(c, count, price) ==
  /\ Requesting(c)
  /\ count <= product[c]
  /\ count <= product_count
  /\ price <= ProductPrice
  /\ req' = [req EXCEPT ![c].product_to_sell = count, ![c].product_price = price]

(* game_request_produce *)
Produce(c, count) ==
  /\ Requesting(c)
  /\ count <= raw[c]
  /\ count <= factories[c]
  /\ req' = [req EXCEPT ![c].items_to_produce = count]

(* game_request_build *)
Build(c, count) ==
  /\ Requesting(c)
  /\ req' = [req EXCEPT ![c].factories_to_build = count]

-----------------------------------------------------------------------------
(* game_finish_round *)

(* The ways qsort may order the players by price; it leaves ties in any order. *)
Offers == Bijection(1 .. Cardinality(players), players)

SlipCheapestFirst ==
  {o \in Offers : \A i, j \in DOMAIN o : i < j => req[o[i]].raw_price <= req[o[j]].raw_price}

RawOffers ==
  {o \in Offers : \A i, j \in DOMAIN o : i < j => req[o[i]].raw_price >= req[o[j]].raw_price}

ProductOffers ==
  {o \in Offers : \A i, j \in DOMAIN o : i < j => req[o[i]].product_price <= req[o[j]].product_price}

Wanted == [c \in players |-> req[c].raw_to_buy]
Stock  == [c \in players |-> req[c].product_to_sell]

(* An auction's loop: what is left of n_goods after each turn, where the    *)
(* offers are served in their order with the amounts asked for              *)
Left(offers, amount, n_goods) ==
  LET left[i \in 0 .. Cardinality(players)] ==
        IF i = 0 THEN n_goods
        ELSE IF amount[offers[i]] <= left[i - 1] THEN left[i - 1] - amount[offers[i]] ELSE 0
  IN  left

(* What each player gets *)
Dealt(offers, amount, n_goods) ==
  LET left == Left(offers, amount, n_goods)
  IN  [c \in players |-> LET i == CHOOSE i \in DOMAIN offers : offers[i] = c
                         IN  left[i - 1] - left[i]]

(* A factory is ready if the first of the list is due. *)
Due(c) == incomplete[c] # <<>> /\ Head(incomplete[c]).deadline = round_counter + 1

SlipPushed(c) ==   \* list_push instead of list_push_back
  LET rest  == IF Due(c) THEN Tail(incomplete[c]) ELSE incomplete[c]
      count == req[c].factories_to_build
  IN  IF count = 0 THEN rest ELSE <<[count |-> count, deadline |-> round_counter + 5]>> \o rest

(* factories_incomplete after do_expenses *)
BuildingSites(c) ==
  LET rest  == IF Due(c) THEN Tail(incomplete[c]) ELSE incomplete[c]
      count == req[c].factories_to_build
  IN  IF count = 0 THEN rest ELSE Append(rest, [count |-> count, deadline |-> round_counter + 5])

Finished(c) == IF Due(c) THEN Head(incomplete[c]).count ELSE 0

(* What finance() adds up to in the auctions and do_expenses, for a player  *)
(* who has bought and sold these numbers.                                   *)
Balance(c, bought, sold) ==
  sold * req[c].product_price - bought * req[c].raw_price
    - factories[c] * 1000 - (raw[c] + bought) * 300 - (product[c] - sold) * 500
    - req[c].items_to_produce * 2000
    - (Finished(c) + req[c].factories_to_build) * 2500

InGame(new, old) == [c \in Client |-> IF c \in players THEN new[c] ELSE old[c]]

(* The market state changes first, and its new counts are what is sold.     *)
FinishRound ==
  /\ phase = "round"
  /\ UpdateMarketState(Cardinality(players))
  /\ \E bought \in {Dealt(o, Wanted, raw_count') : o \in RawOffers},
        sold \in {Dealt(o, Stock, product_count') : o \in ProductOffers} :
          /\ raw' = InGame([c \in players |-> raw[c] + bought[c]], raw)
          /\ product' = InGame([c \in players |->
                                   product[c] - sold[c] + req[c].items_to_produce], product)
          /\ money' = InGame([c \in players |->
                                 money[c] + Balance(c, bought[c], sold[c])], money)
  /\ factories' = InGame([c \in players |-> factories[c] + Finished(c)], factories)
  /\ GoOn({c \in players : money'[c] >= 0}, "between")
  /\ incomplete' = Forgotten(InGame([c \in players |-> BuildingSites(c)], incomplete))
  /\ round_counter' = round_counter + 1
  /\ UNCHANGED <<req, requests>>

-----------------------------------------------------------------------------
(* Specification *)

Request(c) ==
  \/ \E count \in Counts, margin \in Margins : Buy(c, count, RawPrice + margin)
  \/ \E count \in Counts, margin \in Margins :   \* price_t has no numbers below 0
       margin <= ProductPrice /\ Sell(c, count, ProductPrice - margin)
  \/ \E count \in Counts : Produce(c, count)
  \/ \E count \in Sites : Build(c, count)

Next ==
  \/ \E P \in SUBSET Client : GameStart(P)
  \/ StartRound
  \/ \E c \in Client : Leave(c) \/ Request(c)
  \/ FinishRound

Spec == Init /\ [][Next]_vars

-----------------------------------------------------------------------------
(* Invariants *)

Site == [count : Nat \ {0}, deadline : Nat]

ClientRequest == [raw_to_buy : Nat, raw_price : Nat, product_to_sell : Nat,
                  product_price : Nat, items_to_produce : Nat, factories_to_build : Nat]

(* Every variable keeps its type; in particular product, an unsigned        *)
(* number, is never taken below 0 by a sale.                                *)
TypeOK ==
  /\ phase \in {"off", "between", "round"}
  /\ players \subseteq Client
  /\ round_counter \in Nat
  /\ market \in MarketStates /\ raw_count \in Nat /\ product_count \in Nat
  /\ money \in [Client -> Int]
  /\ factories \in [Client -> Nat] /\ raw \in [Client -> Nat] /\ product \in [Client -> Nat]
  /\ incomplete \in [Client -> Seq(Site)]
  /\ req \in [Client -> ClientRequest]
  /\ requests \in 0 .. MaxRequests

(* What was checked when a request was made still holds when the round is   *)
(* closed and the request is carried out: neither the requests of an        *)
(* earlier round nor those of a game that ended are left to be honoured.    *)
RequestsCovered ==
  phase = "round" =>
    \A c \in players :
      /\ req[c].product_to_sell <= product[c]
      /\ req[c].items_to_produce <= raw[c] /\ req[c].items_to_produce <= factories[c]

(* No factory is missed: do_expenses looks at the first of the list only,   *)
(* and only for the very round it is due.  Between rounds the deadlines     *)
(* are ahead, at most four rounds, and in order.                            *)
FactoriesOnTime ==
  phase = "between" =>
    \A c \in players : \A i \in DOMAIN incomplete[c] :
      /\ incomplete[c][i].deadline \in round_counter + 1 .. round_counter + 4
      /\ \A j \in 1 .. i - 1 : incomplete[c][j].deadline < incomplete[c][i].deadline

(* The market never offers less than its state grants for the players there *)
(* are, though it is set up only at a game's start and when its state       *)
(* changes, and though players leave and go bankrupt in between.            *)
MarketServesAll ==
  phase # "off" =>
    /\ raw_count >= Rounded(Cardinality(players), RawMult[market + 1])
    /\ product_count >= Rounded(Cardinality(players), ProductMult[market + 1])

-----------------------------------------------------------------------------
(* Action properties, of the round that is closed *)

Total(f) == FoldFunctionOnSet(LAMBDA a, b : a + b, 0, f, players)
Smaller(a, b) == IF a <= b THEN a ELSE b

Bought == [c \in players |-> raw'[c] - raw[c]]
Sold   == [c \in players |-> product[c] + req[c].items_to_produce - product'[c]]

(* Both auctions deal out as much as is there and asked for, nobody gets    *)
(* more than asked for, and nobody gets anything while somebody with a      *)
(* better price has not got everything.                                     *)
Closed == round_counter' > round_counter

AuctionsFair ==
  [][Closed =>
       /\ Total(Bought) = Smaller(Total(Wanted), raw_count')
       /\ Total(Sold) = Smaller(Total(Stock), product_count')
       /\ \A c \in players : Bought[c] <= Wanted[c] /\ Sold[c] <= Stock[c]
       /\ \A c, d \in players :
            /\ req[c].raw_price > req[d].raw_price /\ Bought[d] > 0 => Bought[c] = Wanted[c]
            /\ req[c].product_price < req[d].product_price /\ Sold[d] > 0 => Sold[c] = Stock[c]
    ]_vars

-----------------------------------------------------------------------------
(* Claims of the repository that the code does not keep *)

(* "You don't have enough raw material to produce that many pieces of       *)
(* product": producing takes raw material.                                  *)
ProducingTakesRaw ==
  [][Closed => \A c \in players :
       req[c].items_to_produce > 0 /\ req[c].raw_to_buy = 0 => raw'[c] < raw[c]]_vars
=============================================================================
