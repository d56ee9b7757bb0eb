--------------------------- MODULE Economy_proofs ---------------------------
(***************************************************************************)
(* Proofs about Economy.  The types alone are not inductive: the stock of   *)
(* a player stays a natural number because a request that was covered when  *)
(* it was made stays covered, and because no auction takes more than what   *)
(* was asked for.  The latter is a fact about a recursive function, which   *)
(* is carried through the auction's loop with the lemmas of Iteration, as   *)
(* the fairness of the auctions is.                                         *)
(***************************************************************************)
EXTENDS Economy, Iteration, FiniteSetTheorems, TLAPS

(* The offers are a list of all the players, each of them once. *)
LEMMA OffersRange ==
  ASSUME NEW offers \in Offers
  PROVE  /\ offers \in [1 .. Cardinality(players) -> players]
         /\ \A i, j \in 1 .. Cardinality(players) : offers[i] = offers[j] => i = j
         /\ \A c \in players : \E i \in 1 .. Cardinality(players) : offers[i] = c
BY DEF Offers, Bijection, Injection, Surjection, IsInjective

(* The loop of an auction runs to its end: what is left is a number, never  *)
(* more than there was, and is less by what a player asked for, or nothing. *)
LEMMA LeftIsDefined ==
  ASSUME IsFiniteSet(players), NEW offers \in Offers,
         NEW amount \in [players -> Nat], NEW n \in Nat
  PROVE  LET N == Cardinality(players)
             left == Left(offers, amount, n)
         IN  /\ left \in [0 .. N -> 0 .. n] /\ left[0] = n
             /\ \A i \in 1 .. N :
                  left[i] = IF amount[offers[i]] <= left[i - 1]
                              THEN left[i - 1] - amount[offers[i]] ELSE 0
<1> DEFINE N == Cardinality(players)
           w == [i \in 1 .. N |-> amount[offers[i]]]
<1> N \in Nat
  BY FS_CardinalityType
<1> w \in [1 .. N -> Nat] /\ \A i \in 1 .. N : amount[offers[i]] = w[i]
  BY OffersRange
<1> HIDE DEF w, N
<1> DEFINE h == [s \in (0 .. n) \X (1 .. N) |->
                   IF w[s[2]] <= s[1] THEN s[1] - w[s[2]] ELSE 0]
           Body(g) == [i \in 0 .. N |->
                         IF i = 0 THEN n
                         ELSE IF amount[offers[i]] <= g[i - 1]
                                THEN g[i - 1] - amount[offers[i]] ELSE 0]
           left == CHOOSE g : g = Body(g)
<1>1. h \in [(0 .. n) \X (1 .. N) -> 0 .. n]
  OBVIOUS
<1>2. PICK g \in [0 .. N -> 0 .. n] : g[0] = n /\ \A i \in 1 .. N : g[i] = h[<<g[i - 1], i>>]
  <2>1. n \in 0 .. n /\ h \in Steps(0 .. n, N)
    BY <1>1 DEF Steps
  <2> HIDE DEF h
  <2>2. \E g : Iterates(g, 0 .. n, N, n, h)
    BY <2>1, Iterated
  <2> QED BY <2>2 DEF Iterates
<1>3. ASSUME NEW i \in 1 .. N
      PROVE  g[i] = IF amount[offers[i]] <= g[i - 1] THEN g[i - 1] - amount[offers[i]] ELSE 0
  <2>1. i - 1 \in 0 .. N
    OBVIOUS
  <2>2. <<g[i - 1], i>> \in (0 .. n) \X (1 .. N)
    BY <2>1
  <2>3. h[<<g[i - 1], i>>] = IF w[i] <= g[i - 1] THEN g[i - 1] - w[i] ELSE 0
    BY <2>2
  <2> QED BY <1>2, <2>3
<1>4. g = Body(g)
  BY <1>2, <1>3
<1>5. left = Body(left)
  BY <1>4
<1> HIDE DEF left
<1>6. left[0] = n /\ DOMAIN left = 0 .. N
  BY <1>5
<1>7. ASSUME NEW i \in 1 .. N
      PROVE  left[i] = IF w[i] <= left[i - 1] THEN left[i - 1] - w[i] ELSE 0
  <2>1. i \in 0 .. N /\ i # 0 /\ amount[offers[i]] = w[i]
    OBVIOUS
  <2>2. left[i] = Body(left)[i]
    BY <1>5
  <2> QED BY <2>1, <2>2
<1>8. 0 .. N \subseteq {i \in 0 .. N : left[i] \in 0 .. n}
  <2> DEFINE T == {i \in 0 .. N : left[i] \in 0 .. n}
  <2>1. 0 \in T
    BY <1>6
  <2>2. ASSUME NEW i \in 1 .. N, i - 1 \in T PROVE i \in T
    <3>1. left[i - 1] \in 0 .. n /\ i \in 0 .. N
      BY <2>2
    <3>2. w[i] \in Nat
      OBVIOUS
    <3>3. left[i] \in 0 .. n
      <4> DEFINE before == left[i - 1]
                 asked == w[i]
      <4>1. left[i] = IF asked <= before THEN before - asked ELSE 0
        BY <1>7
      <4>2. before \in 0 .. n /\ asked \in Nat
        BY <3>1, <3>2
      <4> HIDE DEF before, asked
      <4> QED BY <4>1, <4>2
    <3> QED BY <3>1, <3>3
  <2> HIDE DEF T
  <2>3. 0 .. N \subseteq T
    BY <2>1, <2>2, UpTo
  <2> QED BY <2>3 DEF T
<1>9. left \in [0 .. N -> 0 .. n]
  BY <1>5, <1>6, <1>8
<1>10. left = Left(offers, amount, n)
  BY DEF left, Left, N
<1> QED BY <1>6, <1>7, <1>9, <1>10 DEF N


(* In an auction nobody gets more than asked for, whatever the order.       *)
LEMMA DealtBounds ==
  ASSUME IsFiniteSet(players), NEW offers \in Offers,
         NEW amount \in [players -> Nat], NEW n \in Nat
  PROVE  /\ Dealt(offers, amount, n) \in [players -> Nat]
         /\ \A c \in players : Dealt(offers, amount, n)[c] <= amount[c]
<1> DEFINE N == Cardinality(players)
           w == [i \in 1 .. N |-> amount[offers[i]]]
<1>1. N \in Nat
  BY FS_CardinalityType
<1>2. offers \in [1 .. N -> players] /\ \A c \in players : \E i \in 1 .. N : offers[i] = c
  BY OffersRange
<1>3. w \in [1 .. N -> Nat] /\ \A i \in 1 .. N : amount[offers[i]] = w[i]
  BY <1>2
<1> DEFINE left == Left(offers, amount, n)
<1>4. /\ left \in [0 .. N -> 0 .. n]
      /\ \A i \in 1 .. N : left[i] = IF w[i] <= left[i - 1] THEN left[i - 1] - w[i] ELSE 0
  BY <1>1, <1>3, LeftIsDefined
<1>0. Dealt(offers, amount, n) =
        [c \in players |-> LET i == CHOOSE i \in DOMAIN offers : offers[i] = c
                           IN  left[i - 1] - left[i]]
  BY DEF Dealt
<1> HIDE DEF left
<1>5. ASSUME NEW c \in players
      PROVE  Dealt(offers, amount, n)[c] \in 0 .. amount[c]
  <2> DEFINE i == CHOOSE i \in DOMAIN offers : offers[i] = c
  <2>1. i \in 1 .. N /\ offers[i] = c
    BY <1>2
  <2>2. Dealt(offers, amount, n)[c] = left[i - 1] - left[i]
    BY <1>0
  <2> HIDE DEF i
  <2>3. w[i] = amount[c] /\ w[i] \in Nat /\ i - 1 \in 0 .. N
    BY <1>1, <1>3, <2>1
  <2> HIDE DEF w
  <2>4. left[i - 1] \in 0 .. n /\ left[i] \in 0 .. n
    BY <1>4, <2>1, <2>3
  <2>5. left[i - 1] - left[i] \in 0 .. w[i]
    BY <1>4, <2>1, <2>3, <2>4
  <2> QED BY <2>2, <2>3, <2>5
<1>6. Dealt(offers, amount, n) = [c \in players |-> Dealt(offers, amount, n)[c]]
  BY <1>0
<1> QED BY <1>5, <1>6
-----------------------------------------------------------------------------
(* The tables and the rounding *)

LEMMA Tables ==
  ASSUME market \in 0 .. 4
  PROVE  /\ RawPrice \in Nat
         /\ ProductPrice \in Nat /\ ProductPrice >= 4500
BY DEF RawPrice, ProductPrice

(* The market's multipliers are natural numbers. *)
LEMMA Multipliers ==
  ASSUME NEW m \in 0 .. 4
  PROVE  RawMult[m + 1] \in 2 .. 6 /\ ProductMult[m + 1] \in 2 .. 6
BY DEF RawMult, ProductMult

(* Fewer players are never granted more. *)
LEMMA RoundedMonotone ==
  ASSUME NEW mult \in 2 .. 6, NEW a \in Nat, NEW b \in Nat, a <= b
  PROVE  /\ Rounded(a, mult) \in Nat
         /\ Rounded(a, mult) <= Rounded(b, mult)
<1>1. CASE mult = 2
  BY <1>1 DEF Rounded
<1>2. CASE mult = 3
  BY <1>2 DEF Rounded
<1>3. CASE mult = 4
  BY <1>3 DEF Rounded
<1>4. CASE mult = 5
  BY <1>4 DEF Rounded
<1>5. CASE mult = 6
  BY <1>5 DEF Rounded
<1> QED BY <1>1, <1>2, <1>3, <1>4, <1>5

-----------------------------------------------------------------------------
(* The invariant *)

(* The deadlines while a game goes on; FactoriesOnTime says it between the   *)
(* rounds only.                                                             *)
Deadlines ==
  phase # "off" =>
    \A c \in players : \A i \in DOMAIN incomplete[c] :
      /\ incomplete[c][i].deadline \in round_counter + 1 .. round_counter + 4
      /\ \A j \in 1 .. i - 1 : incomplete[c][j].deadline < incomplete[c][i].deadline

Inv == TypeOK /\ RequestsCovered

(* There are finitely many players, and a number of them. *)
LEMMA FinitePlayers ==
  ASSUME TypeOK
  PROVE  /\ IsFiniteSet(players)
         /\ \A P \in SUBSET players :
              Cardinality(P) \in Nat /\ Cardinality(P) <= Cardinality(players)
<1>1. IsFiniteSet(players)
  BY ClientAssumption, FS_Subset DEF TypeOK
<1> QED BY <1>1, FS_Subset, FS_CardinalityType

(* The invariant holds before the first game. *)
LEMMA InvInit == Init => Inv
<1> SUFFICES ASSUME Init PROVE Inv
  OBVIOUS
<1> USE DEF Init
<1>1. NoRequest \in ClientRequest
  BY DEF NoRequest, ClientRequest
<1>2. <<>> \in Seq(Site)
  OBVIOUS
<1>3. TypeOK
  BY <1>1, <1>2, MarketAssumption, BoundAssumption DEF TypeOK
<1> QED BY <1>3 DEF Inv, RequestsCovered

(* What a game gives its players has the types it should have. *)
LEMMA SetupType ==
  ASSUME NEW m \in MarketStates, NEW n \in Nat, SetupState(m, n)
  PROVE  market' \in MarketStates /\ raw_count' \in Nat /\ product_count' \in Nat
<1>1. m \in 0 .. 4
  BY MarketAssumption
<1>2. RawMult[m + 1] \in 2 .. 6 /\ ProductMult[m + 1] \in 2 .. 6
  BY <1>1, Multipliers
<1>3. \A mult \in 2 .. 6 : Rounded(n, mult) \in Nat
  BY RoundedMonotone
<1> QED BY <1>2, <1>3 DEF SetupState

(* game_start establishes the invariant for the players it seats. *)
LEMMA InvGameStart ==
  ASSUME Inv, NEW P \in SUBSET Client, GameStart(P)
  PROVE  Inv'
<1> USE DEF Inv
<1>1. Cardinality(P) \in Nat
  BY ClientAssumption, FS_Subset, FS_CardinalityType
<1>2. market' \in MarketStates /\ raw_count' \in Nat /\ product_count' \in Nat
  BY <1>1, MarketAssumption, SetupType DEF GameStart
<1>3. /\ money' \in [Client -> Int]
      /\ factories' \in [Client -> Nat] /\ raw' \in [Client -> Nat]
      /\ product' \in [Client -> Nat]
  BY DEF GameStart
<1>4. incomplete' \in [Client -> Seq(Site)]
  BY DEF GameStart, TypeOK
<1>5. TypeOK'
  BY <1>2, <1>3, <1>4 DEF TypeOK, GameStart
<1>6. RequestsCovered'
  BY DEF GameStart, RequestsCovered
<1> QED BY <1>5, <1>6

(* game_start_round keeps the invariant: nobody has a request yet. *)
LEMMA InvStartRound ==
  ASSUME Inv, StartRound
  PROVE  Inv'
<1> USE DEF Inv, StartRound
<1>1. NoRequest \in ClientRequest
  BY DEF NoRequest, ClientRequest
<1>2. TypeOK'
  BY <1>1 DEF TypeOK, goods, supply
<1>3. RequestsCovered'
  <2> SUFFICES ASSUME NEW c \in players PROVE /\ 0 <= product[c]
                                              /\ 0 <= raw[c] /\ 0 <= factories[c]
    BY DEF RequestsCovered, NoRequest, goods, TypeOK
  <2> QED BY DEF TypeOK
<1> QED BY <1>2, <1>3

(* What GoOn and Forgotten leave of the game. *)
LEMMA GoOnType ==
  ASSUME NEW L, L \subseteq Client, NEW where \in {"between", "round"}, GoOn(L, where)
  PROVE  /\ phase' \in {"off", where}
         /\ players' \subseteq L
         /\ phase' # "off" => players' = L
BY DEF GoOn

(* A player who leaves takes nothing of the others' along. *)
LEMMA InvLeave ==
  ASSUME Inv, NEW c \in Client, Leave(c)
  PROVE  Inv'
<1> USE DEF Inv
<1>1. /\ phase' \in {"off", phase}
      /\ players' \subseteq players \ {c}
  BY DEF GoOn, Leave
<1>2. incomplete' \in [Client -> Seq(Site)]
  BY DEF TypeOK, Leave, Forgotten
<1>3. /\ money' \in [Client -> Int]
      /\ factories' \in [Client -> Nat] /\ raw' \in [Client -> Nat]
      /\ product' \in [Client -> Nat]
  BY DEF TypeOK, Leave
<1>4. TypeOK'
  BY <1>1, <1>2, <1>3 DEF TypeOK, Leave, supply
<1>5. RequestsCovered'
  <2> SUFFICES ASSUME phase' = "round", NEW d \in players'
               PROVE /\ req[d].product_to_sell <= product'[d]
                     /\ req[d].items_to_produce <= raw'[d]
                     /\ req[d].items_to_produce <= factories'[d]
    BY DEF RequestsCovered, Leave
  <2>1. phase = "round" /\ d \in players /\ d # c /\ d \in Client
    BY <1>1 DEF TypeOK
  <2>2. product'[d] = product[d] /\ raw'[d] = raw[d] /\ factories'[d] = factories[d]
    BY <2>1 DEF Leave, TypeOK
  <2> QED BY <2>1, <2>2 DEF RequestsCovered
<1> QED BY <1>4, <1>5

(* A request that is granted takes its place among the others if it is one  *)
(* and if what it asks for is covered.                                      *)
LEMMA InvRequest ==
  ASSUME Inv, NEW c \in Client, Requesting(c), NEW r \in ClientRequest,
         req' = [req EXCEPT ![c] = r],
         r.product_to_sell <= product[c],
         r.items_to_produce <= raw[c], r.items_to_produce <= factories[c]
  PROVE  Inv'
<1> USE DEF Inv, Requesting
<1>1. TypeOK'
  <2>1. req' \in [Client -> ClientRequest]
    BY DEF TypeOK
  <2>2. requests' \in 0 .. MaxRequests
    BY BoundAssumption DEF TypeOK
  <2> QED BY <2>1, <2>2 DEF TypeOK, goods, supply
<1>2. RequestsCovered'
  <2> SUFFICES ASSUME NEW d \in players
               PROVE /\ req'[d].product_to_sell <= product[d]
                     /\ req'[d].items_to_produce <= raw[d]
                     /\ req'[d].items_to_produce <= factories[d]
    BY DEF RequestsCovered, goods
  <2>1. CASE d = c
    BY <2>1 DEF TypeOK
  <2>2. CASE d # c
    BY <2>2 DEF TypeOK, RequestsCovered
  <2> QED BY <2>1, <2>2
<1> QED BY <1>1, <1>2
(* The sites left after a round, and their sum, have their types. *)
LEMMA BuildingSitesType ==
  ASSUME TypeOK, NEW c \in Client
  PROVE  BuildingSites(c) \in Seq(Site) /\ Finished(c) \in Nat
<1> DEFINE rest  == IF Due(c) THEN Tail(incomplete[c]) ELSE incomplete[c]
           count == req[c].factories_to_build
           new   == [count |-> count, deadline |-> round_counter + 5]
<1>1. incomplete[c] \in Seq(Site)
  BY DEF TypeOK
<1>2. Due(c) => incomplete[c] # <<>>
  BY DEF Due
<1>3. rest \in Seq(Site)
  BY <1>1, <1>2
<1>4. Finished(c) \in Nat
  <2>1. CASE Due(c)
    <3>1. Head(incomplete[c]) \in Site
      BY <1>1, <1>2, <2>1
    <3> QED BY <2>1, <3>1 DEF Finished, Site
  <2>2. CASE ~Due(c)
    BY <2>2 DEF Finished
  <2> QED BY <2>1, <2>2
<1>5. count # 0 => new \in Site
  BY DEF TypeOK, ClientRequest, Site
<1>6. count # 0 => Append(rest, new) \in Seq(Site)
  <2> HIDE DEF rest, new
  <2> QED BY <1>3, <1>5
<1> QED BY <1>3, <1>4, <1>6 DEF BuildingSites

(* The market offers a natural number of goods, whatever the dice show. *)
LEMMA SupplyType ==
  ASSUME TypeOK, NEW n \in Nat, UpdateMarketState(n)
  PROVE  market' \in MarketStates /\ raw_count' \in Nat /\ product_count' \in Nat
BY SetupType DEF TypeOK, UpdateMarketState, supply

(* Here the two halves of Inv meet: what is sold is in stock. *)
LEMMA InvFinishRound ==
  ASSUME Inv, FinishRound
  PROVE  Inv'
<1> USE DEF Inv
<1>1. IsFiniteSet(players) /\ Cardinality(players) \in Nat /\ players \subseteq Client
  BY FinitePlayers DEF TypeOK
<1>2. market' \in MarketStates /\ raw_count' \in Nat /\ product_count' \in Nat
  BY <1>1, SupplyType DEF FinishRound
<1>3. /\ Wanted \in [players -> Nat] /\ Stock \in [players -> Nat]
      /\ \A c \in players : /\ Wanted[c] = req[c].raw_to_buy
                           /\ Stock[c] = req[c].product_to_sell
                           /\ req[c] \in ClientRequest
  BY <1>1 DEF Wanted, Stock, TypeOK, ClientRequest
<1>4. PICK o \in RawOffers, p \in ProductOffers :
        LET bought == Dealt(o, Wanted, raw_count')
            sold   == Dealt(p, Stock, product_count')
        IN  /\ raw' = InGame([c \in players |-> raw[c] + bought[c]], raw)
            /\ product' = InGame([c \in players |->
                             product[c] - sold[c] + req[c].items_to_produce], product)
            /\ money' = InGame([c \in players |->
                             money[c] + Balance(c, bought[c], sold[c])], money)
  BY DEF FinishRound
<1> DEFINE bought == Dealt(o, Wanted, raw_count')
           sold   == Dealt(p, Stock, product_count')
<1>5. o \in Offers /\ p \in Offers
  BY DEF RawOffers, ProductOffers
<1>6. /\ bought \in [players -> Nat]
      /\ sold \in [players -> Nat]
      /\ \A c \in players : sold[c] <= Stock[c]
  BY <1>1, <1>2, <1>3, <1>5, DealtBounds
<1>7. /\ raw' = InGame([c \in players |-> raw[c] + bought[c]], raw)
      /\ product' = InGame([c \in players |->
                       product[c] - sold[c] + req[c].items_to_produce], product)
      /\ money' = InGame([c \in players |->
                       money[c] + Balance(c, bought[c], sold[c])], money)
  BY <1>4
<1> HIDE DEF bought, sold
<1>8. ASSUME NEW c \in players
      PROVE  /\ raw[c] + bought[c] \in Nat
             /\ product[c] - sold[c] + req[c].items_to_produce \in Nat
  <2>1. /\ raw[c] \in Nat /\ product[c] \in Nat
        /\ bought[c] \in Nat /\ sold[c] \in Nat /\ req[c].items_to_produce \in Nat
    BY <1>1, <1>3, <1>6 DEF TypeOK, ClientRequest
  <2>2. sold[c] <= product[c]
    BY <1>3, <1>6, <2>1 DEF RequestsCovered, FinishRound, TypeOK, ClientRequest
  <2> QED BY <2>1, <2>2
<1>9. ASSUME NEW c \in players
      PROVE  money[c] + Balance(c, bought[c], sold[c]) \in Int
  <2>1. /\ bought[c] \in Int /\ sold[c] \in Int /\ money[c] \in Int
        /\ raw[c] \in Int /\ product[c] \in Int /\ factories[c] \in Int
        /\ req[c].product_price \in Int /\ req[c].raw_price \in Int
        /\ req[c].items_to_produce \in Int /\ req[c].factories_to_build \in Int
    BY <1>1, <1>3, <1>6 DEF TypeOK, ClientRequest
  <2>2. Finished(c) \in Int
    BY <1>1, BuildingSitesType
  <2>3. sold[c] * req[c].product_price \in Int /\ bought[c] * req[c].raw_price \in Int
    BY <2>1
  <2> QED BY <2>1, <2>2, <2>3 DEF Balance
<1>10. raw' \in [Client -> Nat] /\ product' \in [Client -> Nat]
  BY <1>7, <1>8 DEF InGame, TypeOK
<1>11. money' \in [Client -> Int]
  BY <1>7, <1>9 DEF InGame, TypeOK
<1>12. factories' \in [Client -> Nat]
  BY <1>1, BuildingSitesType DEF FinishRound, InGame, TypeOK
<1>13. incomplete' \in [Client -> Seq(Site)]
  <2>1. InGame([c \in players |-> BuildingSites(c)], incomplete) \in [Client -> Seq(Site)]
    BY <1>1, BuildingSitesType DEF InGame, TypeOK
  <2>2. <<>> \in Seq(Site)
    OBVIOUS
  <2> QED BY <2>1, <2>2 DEF FinishRound, Forgotten
<1>14. phase' \in {"off", "between"} /\ players' \subseteq players
  BY DEF FinishRound, GoOn
<1>15. TypeOK'
  BY <1>2, <1>10, <1>11, <1>12, <1>13, <1>14 DEF TypeOK, FinishRound
<1>16. RequestsCovered'
  BY <1>14 DEF RequestsCovered
<1> QED BY <1>15, <1>16

(* What a player asks for are natural numbers. *)
LEMMA RequestType ==
  ASSUME NEW r \in ClientRequest, NEW n \in Nat, NEW p \in Nat
  PROVE  /\ [r EXCEPT !.raw_to_buy = n, !.raw_price = p] \in ClientRequest
         /\ [r EXCEPT !.product_to_sell = n, !.product_price = p] \in ClientRequest
<1> DEFINE b == [r EXCEPT !.raw_to_buy = n]
           s == [r EXCEPT !.product_to_sell = n]
<1>1. b \in ClientRequest /\ s \in ClientRequest
  BY DEF ClientRequest
<1> HIDE DEF b, s
<1>2. /\ [b EXCEPT !.raw_price = p] \in ClientRequest
      /\ [s EXCEPT !.product_price = p] \in ClientRequest
  BY <1>1 DEF ClientRequest
<1>3. /\ [r EXCEPT !.raw_to_buy = n, !.raw_price = p] = [b EXCEPT !.raw_price = p]
      /\ [r EXCEPT !.product_to_sell = n, !.product_price = p] = [s EXCEPT !.product_price = p]
  BY DEF b, s, ClientRequest
<1> QED BY <1>2, <1>3

(* Every step keeps the types and the cover of requests. *)
LEMMA InvNext ==
  ASSUME Inv, [Next]_vars
  PROVE  Inv'
<1> USE DEF Inv
<1>0. RawPrice \in Nat /\ ProductPrice \in Nat /\ ProductPrice >= 4500
  <2>1. market \in 0 .. 4
    BY MarketAssumption DEF TypeOK
  <2> QED BY <2>1, Tables
<1>1. ASSUME NEW P \in SUBSET Client, GameStart(P) PROVE Inv'
  BY <1>1, InvGameStart
<1>2. CASE StartRound
  BY <1>2, InvStartRound
<1>3. ASSUME NEW c \in Client, Leave(c) PROVE Inv'
  BY <1>3, InvLeave
<1>4. ASSUME NEW c \in Client, Request(c) PROVE Inv'
  <2>0. req \in [Client -> ClientRequest] /\ req[c] \in ClientRequest
    BY DEF TypeOK
  <2>1. ASSUME NEW count \in Counts, NEW margin \in Margins, Buy(c, count, RawPrice + margin)
        PROVE  Inv'
    <3> DEFINE price == RawPrice + margin
    <3> DEFINE r == [req[c] EXCEPT !.raw_to_buy = count, !.raw_price = price]
    <3>0. count \in Nat /\ margin \in Nat
      BY InputAssumption, MarginAssumption
    <3>1. price \in Nat
      BY <1>0, <3>0
    <3>2. r \in ClientRequest
      <4> HIDE DEF Inv, price
      <4>1. count \in Nat
        BY <3>0
      <4> QED BY <2>0, <3>1, <4>1, RequestType
    <3>3. req' = [req EXCEPT ![c] = r]
      BY <2>0, <2>1 DEF Buy, ClientRequest
    <3>4. /\ r.product_to_sell = req[c].product_to_sell
          /\ r.items_to_produce = req[c].items_to_produce
      BY <2>0 DEF ClientRequest
    <3>5. Requesting(c) /\ phase = "round" /\ c \in players
      BY <2>1 DEF Buy, Requesting
    <3> HIDE DEF r
    <3> QED BY <3>2, <3>3, <3>4, <3>5, InvRequest DEF RequestsCovered
  <2>2. ASSUME NEW count \in Counts, NEW margin \in Margins, margin <= ProductPrice,
               Sell(c, count, ProductPrice - margin)
        PROVE  Inv'
    <3> DEFINE price == ProductPrice - margin
    <3> DEFINE r == [req[c] EXCEPT !.product_to_sell = count,
                                   !.product_price = price]
    <3>0. count \in Nat /\ margin \in Nat
      BY InputAssumption, MarginAssumption
    <3>1. price \in Nat
      BY <1>0, <2>2, <3>0
    <3>2. r \in ClientRequest
      <4> HIDE DEF Inv, price
      <4>1. count \in Nat
        BY <3>0
      <4> QED BY <2>0, <3>1, <4>1, RequestType
    <3>3. req' = [req EXCEPT ![c] = r]
      BY <2>0, <2>2 DEF Sell, ClientRequest
    <3>4. /\ r.product_to_sell = count
          /\ r.items_to_produce = req[c].items_to_produce
      BY <2>0 DEF ClientRequest
    <3>5. Requesting(c) /\ phase = "round" /\ c \in players /\ count <= product[c]
      BY <2>2 DEF Sell, Requesting
    <3> HIDE DEF r
    <3> QED BY <3>2, <3>3, <3>4, <3>5, InvRequest DEF RequestsCovered
  <2>3. ASSUME NEW count \in Counts, Produce(c, count) PROVE Inv'
    <3> DEFINE r == [req[c] EXCEPT !.items_to_produce = count]
    <3>1. count \in Nat
      BY InputAssumption
    <3>2. r \in ClientRequest
      BY <2>0, <3>1 DEF ClientRequest
    <3>3. req' = [req EXCEPT ![c] = r]
      BY <2>0, <2>3 DEF Produce, ClientRequest
    <3>4. /\ r.product_to_sell = req[c].product_to_sell
          /\ r.items_to_produce = count
      BY <2>0 DEF ClientRequest
    <3>5. /\ Requesting(c) /\ phase = "round" /\ c \in players
          /\ count <= raw[c] /\ count <= factories[c]
      BY <2>3 DEF Produce, Requesting
    <3> HIDE DEF r
    <3> QED BY <3>2, <3>3, <3>4, <3>5, InvRequest DEF RequestsCovered
  <2>4. ASSUME NEW count \in Sites, Build(c, count) PROVE Inv'
    <3> DEFINE r == [req[c] EXCEPT !.factories_to_build = count]
    <3>1. count \in Nat
      BY InputAssumption
    <3>2. r \in ClientRequest
      BY <2>0, <3>1 DEF ClientRequest
    <3>3. req' = [req EXCEPT ![c] = r]
      BY <2>0, <2>4 DEF Build, ClientRequest
    <3>4. /\ r.product_to_sell = req[c].product_to_sell
          /\ r.items_to_produce = req[c].items_to_produce
      BY <2>0 DEF ClientRequest
    <3>5. Requesting(c) /\ phase = "round" /\ c \in players
      BY <2>4 DEF Build, Requesting
    <3> HIDE DEF r
    <3> QED BY <3>2, <3>3, <3>4, <3>5, InvRequest DEF RequestsCovered
  <2> QED BY <1>4, <2>1, <2>2, <2>3, <2>4 DEF Request
<1>5. CASE FinishRound
  BY <1>5, InvFinishRound
<1>6. CASE UNCHANGED vars
  BY <1>6 DEF vars, goods, supply, TypeOK, RequestsCovered
<1> QED BY <1>1, <1>2, <1>3, <1>4, <1>5, <1>6 DEF Next

(* Types, and requests that can be met, for any players, rounds and offers. *)
THEOREM Invariance == Spec => []Inv
<1>1. Init => Inv
  BY InvInit
<1>2. Inv /\ [Next]_vars => Inv'
  BY InvNext
<1> QED BY <1>1, <1>2, PTL DEF Spec

(* Every variable of the economy keeps its type: no stock goes below 0.     *)
THEOREM TypeCorrect == Spec => []TypeOK
<1>1. Inv => TypeOK
  BY DEF Inv
<1> QED BY <1>1, Invariance, PTL

(* What a request was checked against is still there when the round is      *)
(* closed.                                                                  *)
THEOREM RequestsAlwaysCovered == Spec => []RequestsCovered
<1>1. Inv => RequestsCovered
  BY DEF Inv
<1> QED BY <1>1, Invariance, PTL
-----------------------------------------------------------------------------
(* The factories that are being built.  OnTime(sites, n) is Deadlines for    *)
(* one list.                                                                *)

OnTime(sites, n) ==
  \A i \in DOMAIN sites :
    /\ sites[i].deadline \in n + 1 .. n + 4
    /\ \A j \in 1 .. i - 1 : sites[j].deadline < sites[i].deadline

(* Deadlines is OnTime for every player in a game. *)
LEMMA DeadlinesAreOnTime ==
  Deadlines <=> (phase # "off" => \A c \in players : OnTime(incomplete[c], round_counter))
BY DEF Deadlines, OnTime

(* If the first of the list is due and is taken off, what is left is due    *)
(* later; if it is not, nothing is due.                                     *)
LEMMA RestOnTime ==
  ASSUME NEW n \in Nat, NEW sites \in Seq(Site), OnTime(sites, n)
  PROVE  LET rest == IF sites # <<>> /\ Head(sites).deadline = n + 1
                       THEN Tail(sites) ELSE sites
         IN  /\ rest \in Seq(Site)
             /\ \A i \in DOMAIN rest :
                  /\ rest[i].deadline \in n + 2 .. n + 4
                  /\ \A j \in 1 .. i - 1 : rest[j].deadline < rest[i].deadline
<1>0. /\ DOMAIN sites = 1 .. Len(sites) /\ Len(sites) \in Nat
      /\ \A i \in 1 .. Len(sites) : sites[i] \in Site /\ sites[i].deadline \in Nat
  <2>1. \A i \in 1 .. Len(sites) : sites[i] \in Site
    OBVIOUS
  <2>2. \A site \in Site : site.deadline \in Nat
    BY DEF Site
  <2> QED BY <2>1, <2>2
<1> USE DEF OnTime
<1>1. CASE sites # <<>> /\ Head(sites).deadline = n + 1
  <2> DEFINE rest == Tail(sites)
  <2>1. /\ rest \in Seq(Site) /\ Len(sites) >= 1
        /\ DOMAIN rest = 1 .. Len(sites) - 1
        /\ \A i \in DOMAIN rest : rest[i] = sites[i + 1]
        /\ sites[1].deadline = n + 1
    BY <1>1
  <2> HIDE DEF rest
  <2>2. ASSUME NEW i \in DOMAIN rest
        PROVE  /\ rest[i].deadline \in n + 2 .. n + 4
               /\ \A j \in 1 .. i - 1 : rest[j].deadline < rest[i].deadline
    <3>1. i + 1 \in DOMAIN sites /\ 1 \in 1 .. (i + 1) - 1
      BY <1>0, <2>1
    <3>2. sites[1].deadline < sites[i + 1].deadline
      BY <3>1
    <3>3. rest[i].deadline \in n + 2 .. n + 4
      BY <2>1, <3>1, <3>2
    <3>4. ASSUME NEW j \in 1 .. i - 1 PROVE rest[j].deadline < rest[i].deadline
      <4>1. j + 1 \in 1 .. (i + 1) - 1 /\ j \in DOMAIN rest
        BY <1>0, <2>1
      <4>2. sites[j + 1].deadline < sites[i + 1].deadline
        BY <3>1, <4>1
      <4> QED BY <2>1, <4>1, <4>2
    <3> QED BY <3>3, <3>4
  <2> QED BY <1>1, <2>1, <2>2 DEF rest
<1>2. CASE ~(sites # <<>> /\ Head(sites).deadline = n + 1)
  <2>1. ASSUME NEW i \in DOMAIN sites
        PROVE  sites[i].deadline \in n + 2 .. n + 4
    <3>1. sites[1].deadline # n + 1 /\ 1 \in DOMAIN sites
      BY <1>0, <1>2
    <3>2. sites[1].deadline \in n + 1 .. n + 4
      BY <3>1
    <3>3. i = 1 \/ sites[1].deadline < sites[i].deadline
      BY <1>0
    <3> QED BY <1>0, <3>1, <3>2, <3>3
  <2> QED BY <1>2, <2>1
<1> QED BY <1>1, <1>2

(* A site that is added is due after all the others. *)
LEMMA AddedOnTime ==
  ASSUME NEW n \in Nat, NEW rest \in Seq(Site), NEW site \in Site,
         site.deadline = n + 5,
         \A i \in DOMAIN rest :
           /\ rest[i].deadline \in n + 2 .. n + 4
           /\ \A j \in 1 .. i - 1 : rest[j].deadline < rest[i].deadline
  PROVE  OnTime(Append(rest, site), n + 1) /\ OnTime(rest, n + 1)
<1> DEFINE sites == Append(rest, site)
<1>1. /\ DOMAIN rest = 1 .. Len(rest) /\ Len(rest) \in Nat
      /\ DOMAIN sites = 1 .. Len(rest) + 1
      /\ \A i \in DOMAIN rest : sites[i] = rest[i]
      /\ sites[Len(rest) + 1] = site
  OBVIOUS
<1> HIDE DEF sites
<1>2. ASSUME NEW i \in DOMAIN sites
      PROVE  /\ sites[i].deadline \in n + 2 .. n + 5
             /\ \A j \in 1 .. i - 1 : sites[j].deadline < sites[i].deadline
  <2>1. CASE i \in DOMAIN rest
    <3>1. sites[i] = rest[i] /\ i \in Nat /\ rest[i].deadline \in n + 2 .. n + 4
      BY <1>1, <2>1
    <3>2. ASSUME NEW j \in 1 .. i - 1 PROVE sites[j].deadline < sites[i].deadline
      <4>1. j \in DOMAIN rest
        BY <1>1, <2>1
      <4>2. sites[j] = rest[j] /\ rest[j].deadline < rest[i].deadline
        BY <1>1, <2>1, <4>1
      <4> QED BY <3>1, <4>2
    <3> QED BY <3>1, <3>2
  <2>2. CASE i = Len(rest) + 1
    <3>1. sites[i] = site
      BY <1>1, <2>2
    <3>2. ASSUME NEW j \in 1 .. i - 1 PROVE sites[j].deadline < sites[i].deadline
      <4>1. j \in DOMAIN rest
        BY <1>1, <2>2
      <4>2. sites[j] = rest[j] /\ rest[j].deadline \in n + 2 .. n + 4
        BY <1>1, <4>1
      <4> QED BY <3>1, <4>2
    <3> QED BY <3>1, <3>2
  <2> QED BY <1>1, <2>1, <2>2
<1> QED BY <1>2 DEF OnTime, sites

(* Every step keeps the sites' deadlines in order and within reach. *)
LEMMA DeadlinesNext ==
  ASSUME TypeOK, Deadlines, [Next]_vars
  PROVE  Deadlines'
<1> SUFFICES ASSUME phase' # "off", NEW c \in players'
             PROVE  OnTime(incomplete'[c], round_counter')
  BY DEF Deadlines, OnTime
<1>0. phase # "off" => \A d \in players : OnTime(incomplete[d], round_counter)
  BY DeadlinesAreOnTime
<1>1. ASSUME NEW P \in SUBSET Client, GameStart(P)
      PROVE  OnTime(incomplete'[c], round_counter')
  <2>1. incomplete'[c] = <<>>
    BY <1>1 DEF GameStart
  <2> QED BY <2>1 DEF OnTime
<1>2. CASE StartRound
  BY <1>0, <1>2 DEF StartRound, goods
<1>3. ASSUME NEW d \in Client, Leave(d)
      PROVE  OnTime(incomplete'[c], round_counter')
  <2>1. phase # "off" /\ c \in players /\ c \in Client
    BY <1>3 DEF Leave, GoOn, TypeOK
  <2>2. incomplete'[c] = incomplete[c] /\ round_counter' = round_counter
    BY <1>3, <2>1 DEF Leave, Forgotten
  <2> QED BY <1>0, <2>1, <2>2
<1>4. ASSUME NEW d \in Client, Request(d)
      PROVE  OnTime(incomplete'[c], round_counter')
  <2>1. UNCHANGED <<phase, players, round_counter, goods>>
    BY <1>4 DEF Request, Buy, Sell, Produce, Build, Requesting
  <2> QED BY <1>0, <2>1 DEF goods
<1>5. CASE FinishRound
  <2>1. phase # "off" /\ c \in players /\ c \in Client
    BY <1>5 DEF FinishRound, GoOn, TypeOK
  <2>2. incomplete'[c] = BuildingSites(c) /\ round_counter' = round_counter + 1
    BY <1>5, <2>1 DEF FinishRound, Forgotten, InGame
  <2> DEFINE rest  == IF Due(c) THEN Tail(incomplete[c]) ELSE incomplete[c]
             site  == [count |-> req[c].factories_to_build, deadline |-> round_counter + 5]
  <2>3. /\ incomplete[c] \in Seq(Site) /\ round_counter \in Nat
        /\ req[c].factories_to_build \in Nat
    BY <2>1 DEF TypeOK, ClientRequest
  <2>4. OnTime(incomplete[c], round_counter)
    BY <1>0, <2>1
  <2>5. /\ rest \in Seq(Site)
        /\ \A i \in DOMAIN rest :
             /\ rest[i].deadline \in round_counter + 2 .. round_counter + 4
             /\ \A j \in 1 .. i - 1 : rest[j].deadline < rest[i].deadline
    BY <2>3, <2>4, RestOnTime DEF Due
  <2> HIDE DEF rest
  <2>6. CASE req[c].factories_to_build = 0
    <3>1. BuildingSites(c) = rest
      BY <2>6 DEF BuildingSites, rest
    <3>2. [count |-> 1, deadline |-> round_counter + 5] \in Site
      BY <2>3 DEF Site
    <3>3. OnTime(rest, round_counter + 1)
      BY <2>3, <2>5, <3>2, AddedOnTime
    <3> QED BY <2>2, <3>1, <3>3
  <2>7. CASE req[c].factories_to_build # 0
    <3>1. BuildingSites(c) = Append(rest, site)
      BY <2>7 DEF BuildingSites, rest
    <3>2. site \in Site /\ site.deadline = round_counter + 5
      BY <2>3, <2>7 DEF Site
    <3> HIDE DEF site
    <3>3. OnTime(Append(rest, site), round_counter + 1)
      BY <2>3, <2>5, <3>2, AddedOnTime
    <3> QED BY <2>2, <3>1, <3>3
  <2> QED BY <2>6, <2>7
<1>6. CASE UNCHANGED vars
  BY <1>0, <1>6 DEF vars, goods
<1> QED BY <1>1, <1>2, <1>3, <1>4, <1>5, <1>6 DEF Next

(* No factory that is being built is missed, in a game of any length.       *)
THEOREM FactoriesAlwaysOnTime == Spec => []FactoriesOnTime
<1>1. Init => Deadlines
  BY DEF Init, Deadlines
<1>2. TypeOK /\ Deadlines /\ [Next]_vars => Deadlines'
  BY DeadlinesNext
<1>3. Deadlines => FactoriesOnTime
  BY DEF Deadlines, FactoriesOnTime
<1> QED BY <1>1, <1>2, <1>3, TypeCorrect, PTL DEF Spec

-----------------------------------------------------------------------------
(* The market *)

LEMMA SetupServesAll ==
  ASSUME NEW m \in MarketStates, NEW n \in Nat, NEW k \in Nat, k <= n, SetupState(m, n)
  PROVE  /\ raw_count' >= Rounded(k, RawMult[market' + 1])
         /\ product_count' >= Rounded(k, ProductMult[market' + 1])
<1>1. m \in 0 .. 4
  BY MarketAssumption
<1>2. RawMult[m + 1] \in 2 .. 6 /\ ProductMult[m + 1] \in 2 .. 6
  BY <1>1, Multipliers
<1>3. \A mult \in 2 .. 6 : /\ Rounded(n, mult) \in Nat /\ Rounded(k, mult) \in Nat
                           /\ Rounded(k, mult) <= Rounded(n, mult)
  BY RoundedMonotone
<1>4. /\ market' = m
      /\ raw_count' = Rounded(n, RawMult[m + 1])
      /\ product_count' = Rounded(n, ProductMult[m + 1])
  BY DEF SetupState
<1> QED BY <1>2, <1>3, <1>4

(* A market that serves all serves fewer. *)
LEMMA StillServesAll ==
  ASSUME TypeOK, MarketServesAll, phase # "off", NEW P \in SUBSET players
  PROVE  /\ raw_count >= Rounded(Cardinality(P), RawMult[market + 1])
         /\ product_count >= Rounded(Cardinality(P), ProductMult[market + 1])
<1> DEFINE k == Cardinality(P)
           n == Cardinality(players)
<1>1. k \in Nat /\ n \in Nat /\ k <= n
  BY FinitePlayers
<1>2. market \in 0 .. 4
  BY MarketAssumption DEF TypeOK
<1>3. RawMult[market + 1] \in 2 .. 6 /\ ProductMult[market + 1] \in 2 .. 6
  BY <1>2, Multipliers
<1> HIDE DEF k, n
<1>4. ASSUME NEW mult \in 2 .. 6
      PROVE  /\ Rounded(n, mult) \in Nat /\ Rounded(k, mult) \in Nat
             /\ Rounded(k, mult) <= Rounded(n, mult)
  <2>1. Rounded(k, mult) \in Nat /\ Rounded(k, mult) <= Rounded(n, mult)
    BY <1>1, RoundedMonotone
  <2>2. n <= n
    BY <1>1
  <2>3. Rounded(n, mult) \in Nat
    BY <1>1, <2>2, RoundedMonotone
  <2> QED BY <2>1, <2>3
<1>5. /\ raw_count >= Rounded(n, RawMult[market + 1])
      /\ product_count >= Rounded(n, ProductMult[market + 1])
      /\ raw_count \in Nat /\ product_count \in Nat
  BY DEF MarketServesAll, TypeOK, n
<1>6. /\ Rounded(k, RawMult[market + 1]) <= Rounded(n, RawMult[market + 1])
      /\ Rounded(k, RawMult[market + 1]) \in Nat /\ Rounded(n, RawMult[market + 1]) \in Nat
  BY <1>3, <1>4
<1>7. /\ Rounded(k, ProductMult[market + 1]) <= Rounded(n, ProductMult[market + 1])
      /\ Rounded(k, ProductMult[market + 1]) \in Nat
      /\ Rounded(n, ProductMult[market + 1]) \in Nat
  BY <1>3, <1>4
<1>8. raw_count >= Rounded(k, RawMult[market + 1])
  BY <1>5, <1>6
<1>9. product_count >= Rounded(k, ProductMult[market + 1])
  BY <1>5, <1>7
<1> QED BY <1>8, <1>9 DEF k

(* A round opens with a market made for the players there are. *)
LEMMA MarketServesAllNext ==
  ASSUME TypeOK, MarketServesAll, [Next]_vars
  PROVE  MarketServesAll'
<1> DEFINE Serves == /\ raw_count' >= Rounded(Cardinality(players'), RawMult[market' + 1])
                     /\ product_count' >= Rounded(Cardinality(players'), ProductMult[market' + 1])
<1> SUFFICES ASSUME phase' # "off" PROVE Serves
  BY DEF MarketServesAll
<1>1. ASSUME NEW P \in SUBSET Client, GameStart(P) PROVE Serves
  <2>1. Cardinality(P) \in Nat /\ 2 \in MarketStates
    BY ClientAssumption, MarketAssumption, FS_Subset, FS_CardinalityType
  <2>2. SetupState(2, Cardinality(P)) /\ players' = P
    BY <1>1 DEF GameStart
  <2> QED BY <2>1, <2>2, SetupServesAll
<1>2. CASE UNCHANGED supply /\ phase # "off" /\ players' \subseteq players
  BY <1>2, StillServesAll DEF supply
<1>3. CASE StartRound
  BY <1>2, <1>3 DEF StartRound
<1>4. ASSUME NEW c \in Client, Leave(c) PROVE Serves
  BY <1>2, <1>4 DEF Leave, GoOn
<1>5. ASSUME NEW c \in Client, Request(c) PROVE Serves
  BY <1>2, <1>5 DEF Request, Buy, Sell, Produce, Build, Requesting
<1>6. CASE FinishRound
  <2>1. phase # "off" /\ players' \subseteq players
    BY <1>6 DEF FinishRound, GoOn
  <2>2. PICK m \in MarketStates :
          IF m = market THEN UNCHANGED supply ELSE SetupState(m, Cardinality(players))
    BY <1>6 DEF FinishRound, UpdateMarketState
  <2>3. /\ Cardinality(players) \in Nat /\ Cardinality(players') \in Nat
        /\ Cardinality(players') <= Cardinality(players)
    BY <2>1, FinitePlayers
  <2>4. CASE m = market
    BY <1>2, <2>1, <2>2, <2>4
  <2>5. CASE m # market
    BY <2>2, <2>3, <2>5, SetupServesAll
  <2> QED BY <2>4, <2>5
<1>7. CASE UNCHANGED vars
  BY <1>2, <1>7 DEF vars
<1> QED BY <1>1, <1>3, <1>4, <1>5, <1>6, <1>7 DEF Next

(* However many have left or gone bankrupt since the market was set up, it   *)
(* offers what its state grants those who are left.                         *)
THEOREM MarketAlwaysServesAll == Spec => []MarketServesAll
<1>1. Init => MarketServesAll
  BY DEF Init, MarketServesAll
<1>2. TypeOK /\ MarketServesAll /\ [Next]_vars => MarketServesAll'
  BY MarketServesAllNext
<1> QED BY <1>1, <1>2, TypeCorrect, PTL DEF Spec
-----------------------------------------------------------------------------
(* Sums *)

(* What is true of a set if it is true of the set without any one member is  *)
(* true of all finite sets.                                                 *)
LEMMA BySize ==
  ASSUME NEW S, IsFiniteSet(S), NEW T,
         \A s \in SUBSET S : (\A x \in s : s \ {x} \in T) => s \in T
  PROVE  SUBSET S \subseteq T
<1> DEFINE N == Cardinality(S)
           U == {i \in 0 .. N : \A s \in SUBSET S : Cardinality(s) <= i => s \in T}
<1>1. /\ N \in Nat
      /\ \A s \in SUBSET S : IsFiniteSet(s) /\ Cardinality(s) \in Nat /\ Cardinality(s) <= N
  BY FS_Subset, FS_CardinalityType
<1>2. 0 \in U
  <2> SUFFICES ASSUME NEW s \in SUBSET S, Cardinality(s) <= 0 PROVE s \in T
    BY <1>1
  <2>1. s = {}
    BY <1>1, FS_EmptySet
  <2> QED BY <2>1
<1>3. ASSUME NEW i \in 1 .. N, i - 1 \in U PROVE i \in U
  <2> SUFFICES ASSUME NEW s \in SUBSET S, Cardinality(s) <= i PROVE s \in T
    BY <1>1
  <2>1. ASSUME NEW x \in s PROVE s \ {x} \in T
    <3>1. Cardinality(s \ {x}) = Cardinality(s) - 1
      BY <1>1, FS_RemoveElement
    <3>2. Cardinality(s \ {x}) <= i - 1 /\ s \ {x} \in SUBSET S
      BY <1>1, <3>1
    <3> QED BY <1>3, <3>2
  <2> QED BY <2>1
<1>4. N \in U
  <2> HIDE DEF U
  <2>1. 0 .. N \subseteq U
    BY <1>1, <1>2, <1>3, UpTo
  <2> QED BY <1>1, <2>1
<1> QED BY <1>1, <1>4

(* The members that a fold over a set takes, one after the other *)
Chosen(s) == CHOOSE x \in s : TRUE

(* g holds the sums of f over the subsets of S. *)
Sums(g, f, S) ==
  /\ g \in [SUBSET S -> Nat]
  /\ \A s \in SUBSET S : g[s] = IF s = {} THEN 0 ELSE f[Chosen(s)] + g[s \ {Chosen(s)}]

(* There are such sums. *)
LEMMA SumsExist ==
  ASSUME NEW S, IsFiniteSet(S), NEW f \in [S -> Nat]
  PROVE  \E g : Sums(g, f, S)
<1> DEFINE N == Cardinality(S)
           V == [SUBSET S -> Nat]
           Next1(g) == [s \in SUBSET S |-> IF s = {} THEN 0 ELSE f[Chosen(s)] + g[s \ {Chosen(s)}]]
           zero == [s \in SUBSET S |-> 0]
           h == [v \in V \X (1 .. N) |-> Next1(v[1])]
<1>1. /\ N \in Nat
      /\ \A s \in SUBSET S : IsFiniteSet(s) /\ Cardinality(s) \in Nat /\ Cardinality(s) <= N
  BY FS_Subset, FS_CardinalityType
<1>2. ASSUME NEW s \in SUBSET S, s # {}
      PROVE  /\ Chosen(s) \in s /\ f[Chosen(s)] \in Nat
             /\ s \ {Chosen(s)} \in SUBSET S
             /\ Cardinality(s \ {Chosen(s)}) = Cardinality(s) - 1
  <2>1. Chosen(s) \in s
    BY <1>2 DEF Chosen
  <2> QED BY <1>1, <2>1, FS_RemoveElement
<1>3. ASSUME NEW g \in V PROVE Next1(g) \in V
  BY <1>2
<1>4. zero \in V /\ h \in Steps(V, N)
  BY <1>3 DEF Steps
<1>5. PICK G : Iterates(G, V, N, zero, h)
  <2> HIDE DEF V, h, zero, N
  <2> QED BY <1>1, <1>4, Iterated
<1>6. /\ G \in [0 .. N -> V] /\ G[0] = zero
      /\ \A i \in 1 .. N : G[i] = Next1(G[i - 1])
  <2>1. G \in [0 .. N -> V] /\ G[0] = zero /\ \A i \in 1 .. N : G[i] = h[<<G[i - 1], i>>]
    BY <1>5 DEF Iterates
  <2>2. ASSUME NEW i \in 1 .. N PROVE G[i] = Next1(G[i - 1])
    <3>1. <<G[i - 1], i>> \in V \X (1 .. N)
      BY <1>1, <2>1
    <3> QED BY <2>1, <3>1
  <2> QED BY <2>1, <2>2
<1> DEFINE Right(g, s) == g[s] = IF s = {} THEN 0 ELSE f[Chosen(s)] + g[s \ {Chosen(s)}]
           T == {i \in 0 .. N : \A s \in SUBSET S : Cardinality(s) <= i => Right(G[i], s)}
<1>7. 0 \in T
  <2> SUFFICES ASSUME NEW s \in SUBSET S, Cardinality(s) <= 0 PROVE Right(G[0], s)
    BY <1>1
  <2>1. s = {}
    BY <1>1, FS_EmptySet
  <2> QED BY <1>6, <2>1
<1>8. ASSUME NEW i \in 1 .. N, i - 1 \in T PROVE i \in T
  <2> SUFFICES ASSUME NEW s \in SUBSET S, Cardinality(s) <= i PROVE Right(G[i], s)
    BY <1>1
  <2>1. G[i] = Next1(G[i - 1])
    BY <1>6
  <2>2. CASE s = {}
    BY <2>1, <2>2
  <2>3. CASE s # {}
    <3> DEFINE r == s \ {Chosen(s)}
    <3>1. r \in SUBSET S /\ Cardinality(r) <= i - 1
      BY <1>1, <1>2, <2>3
    <3>2. Right(G[i - 1], r)
      BY <1>8, <3>1
    <3>3. G[i][s] = f[Chosen(s)] + G[i - 1][r]
      BY <2>1, <2>3
    <3>4. G[i][r] = Next1(G[i - 1])[r]
      BY <2>1
    <3> HIDE DEF r
    <3>5. G[i][r] = IF r = {} THEN 0 ELSE f[Chosen(r)] + G[i - 1][r \ {Chosen(r)}]
      BY <3>1, <3>4
    <3>6. G[i][r] = G[i - 1][r]
      BY <3>2, <3>5
    <3> QED BY <2>3, <3>3, <3>6 DEF r
  <2> QED BY <2>2, <2>3
<1>9. N \in T
  <2> HIDE DEF T
  <2>1. 0 .. N \subseteq T
    BY <1>1, <1>7, <1>8, UpTo
  <2> QED BY <1>1, <2>1
<1>10. Sums(G[N], f, S)
  <2>1. \A s \in SUBSET S : Right(G[N], s)
    BY <1>1, <1>9
  <2>2. G[N] \in V
    BY <1>1, <1>6
  <2> QED BY <2>1, <2>2 DEF Sums
<1> QED BY <1>10

(* It does not matter which member a sum begins with. *)
LEMMA SumWithout ==
  ASSUME NEW S, IsFiniteSet(S), NEW f \in [S -> Nat], NEW g, Sums(g, f, S),
         NEW s \in SUBSET S, NEW x \in s
  PROVE  g[s] = f[x] + g[s \ {x}]
<1> DEFINE T == {r \in SUBSET S : \A y \in r : g[r] = f[y] + g[r \ {y}]}
<1>1. ASSUME NEW r \in SUBSET S, \A y \in r : r \ {y} \in T
      PROVE  r \in T
  <2> SUFFICES ASSUME NEW y \in r PROVE g[r] = f[y] + g[r \ {y}]
    OBVIOUS
  <2> DEFINE z == Chosen(r)
  <2>1. z \in r
    BY DEF Chosen
  <2>2. g[r] = f[z] + g[r \ {z}]
    BY DEF Sums
  <2> HIDE DEF z
  <2>3. CASE y # z
    <3>1. g[r \ {z}] = f[y] + g[(r \ {z}) \ {y}]
      BY <1>1, <2>1, <2>3
    <3>2. g[r \ {y}] = f[z] + g[(r \ {y}) \ {z}]
      BY <1>1, <2>1, <2>3
    <3>3. (r \ {z}) \ {y} = (r \ {y}) \ {z} /\ (r \ {z}) \ {y} \in SUBSET S
      OBVIOUS
    <3>4. PICK a, b, c : a = f[y] /\ b = f[z] /\ c = g[(r \ {z}) \ {y}]
      OBVIOUS
    <3>5. a \in Nat /\ b \in Nat /\ c \in Nat
      BY <2>1, <3>3, <3>4 DEF Sums
    <3>6. g[r] = b + (a + c)
      BY <2>2, <3>1, <3>4
    <3>7. g[r \ {y}] = b + c
      BY <3>2, <3>3, <3>4
    <3>8. b + (a + c) = a + (b + c)
      BY <3>5
    <3> QED BY <3>4, <3>6, <3>7, <3>8
  <2> QED BY <2>2, <2>3
<1>2. SUBSET S \subseteq T
  <2> HIDE DEF T
  <2> QED BY <1>1, BySize
<1> QED BY <1>2

(* Total is such a sum. *)
LEMMA TotalIsSum ==
  ASSUME IsFiniteSet(players), NEW f \in [players -> Nat]
  PROVE  \E h : Sums(h, f, players) /\ Total(f) = h[players]
<1> DEFINE Body(g) == [s \in SUBSET players |->
                         IF s = {} THEN 0 ELSE f[Chosen(s)] + g[s \ {Chosen(s)}]]
           h == CHOOSE g : g = Body(g)
<1>0. PICK g : Sums(g, f, players)
  BY SumsExist
<1>1. g = Body(g)
  BY <1>0 DEF Sums
<1>2. h = Body(h)
  BY <1>1
<1>3. Total(f) = h[players]
  BY DEF Total, FoldFunctionOnSet, MapThenFoldSet, Chosen
<1> HIDE DEF h
<1> DEFINE T == {s \in SUBSET players : h[s] \in Nat}
<1>4. ASSUME NEW s \in SUBSET players, \A x \in s : s \ {x} \in T
      PROVE  s \in T
  <2>1. h[s] = IF s = {} THEN 0 ELSE f[Chosen(s)] + h[s \ {Chosen(s)}]
    BY <1>2
  <2>2. CASE s # {}
    <3>1. Chosen(s) \in s
      BY <2>2 DEF Chosen
    <3>2. h[s \ {Chosen(s)}] \in Nat /\ f[Chosen(s)] \in Nat
      BY <1>4, <3>1
    <3> QED BY <2>1, <3>2
  <2> QED BY <2>1, <2>2
<1>5. SUBSET players \subseteq T
  <2> HIDE DEF T
  <2> QED BY <1>4, BySize
<1>6. DOMAIN h = SUBSET players /\ h = [s \in SUBSET players |-> h[s]]
  BY <1>2
<1>7. h \in [SUBSET players -> Nat]
  BY <1>5, <1>6
<1>8. ASSUME NEW s \in SUBSET players
      PROVE  h[s] = IF s = {} THEN 0 ELSE f[Chosen(s)] + h[s \ {Chosen(s)}]
  BY <1>2
<1>9. Sums(h, f, players)
  BY <1>7, <1>8 DEF Sums
<1> QED BY <1>3, <1>9

-----------------------------------------------------------------------------
(* The auctions *)

(* Every player has one turn in an auction, and gets what it makes less.    *)
LEMMA DealtInTurn ==
  ASSUME IsFiniteSet(players), NEW offers \in Offers,
         NEW amount \in [players -> Nat], NEW n \in Nat
  PROVE  LET left == Left(offers, amount, n)
         IN  \A i \in 1 .. Cardinality(players) :
               Dealt(offers, amount, n)[offers[i]] = left[i - 1] - left[i]
<1> DEFINE N == Cardinality(players)
           left == Left(offers, amount, n)
<1>1. /\ offers \in [1 .. N -> players]
      /\ \A i, j \in 1 .. N : offers[i] = offers[j] => i = j
  BY OffersRange
<1> SUFFICES ASSUME NEW i \in 1 .. N
             PROVE  Dealt(offers, amount, n)[offers[i]] = left[i - 1] - left[i]
  OBVIOUS
<1> DEFINE k == CHOOSE k \in DOMAIN offers : offers[k] = offers[i]
<1>2. offers[i] \in players /\ k = i
  BY <1>1
<1>3. Dealt(offers, amount, n)[offers[i]] = left[k - 1] - left[k]
  BY <1>2 DEF Dealt
<1> HIDE DEF k, left
<1> QED BY <1>2, <1>3

(* An auction deals out all that is asked for or all that there is. *)
LEMMA DealtTotal ==
  ASSUME IsFiniteSet(players), NEW offers \in Offers,
         NEW amount \in [players -> Nat], NEW n \in Nat
  PROVE  Total(Dealt(offers, amount, n)) = Smaller(Total(amount), n)
<1> DEFINE N == Cardinality(players)
           left == Left(offers, amount, n)
           dealt == Dealt(offers, amount, n)
           Served(i) == {offers[j] : j \in 1 .. i}
<1>1. N \in Nat
  BY FS_CardinalityType
<1>2. /\ offers \in [1 .. N -> players]
      /\ \A i, j \in 1 .. N : offers[i] = offers[j] => i = j
      /\ \A c \in players : \E i \in 1 .. N : offers[i] = c
  BY OffersRange
<1>3. dealt \in [players -> Nat]
  BY DealtBounds
<1>4. /\ left \in [0 .. N -> 0 .. n] /\ left[0] = n
      /\ \A i \in 1 .. N :
           left[i] = IF amount[offers[i]] <= left[i - 1]
                       THEN left[i - 1] - amount[offers[i]] ELSE 0
  BY LeftIsDefined
<1>5. \A i \in 1 .. N : dealt[offers[i]] = left[i - 1] - left[i]
  BY DealtInTurn
<1>6. left[0] = n
  BY <1>4
<1>7. PICK asked : Sums(asked, amount, players) /\ Total(amount) = asked[players]
  BY TotalIsSum
<1>8. PICK given : Sums(given, dealt, players) /\ Total(dealt) = given[players]
  BY <1>3, TotalIsSum
<1> HIDE DEF left, dealt, N
<1>9. asked[{}] = 0 /\ given[{}] = 0
  BY <1>7, <1>8 DEF Sums
<1>10. ASSUME NEW i \in 1 .. N
       PROVE  /\ Served(i) \in SUBSET players /\ Served(i - 1) \in SUBSET players
              /\ asked[Served(i)] = amount[offers[i]] + asked[Served(i - 1)]
              /\ given[Served(i)] = dealt[offers[i]] + given[Served(i - 1)]
  <2>1. Served(i) \in SUBSET players /\ Served(i - 1) \in SUBSET players
    BY <1>1, <1>2
  <2>2. offers[i] \in Served(i)
    BY <1>1
  <2>3. Served(i) \ {offers[i]} = Served(i - 1)
    BY <1>1, <1>2
  <2> HIDE DEF Served
  <2>4. asked[Served(i)] = amount[offers[i]] + asked[Served(i) \ {offers[i]}]
    BY <1>7, <2>1, <2>2, SumWithout
  <2>5. given[Served(i)] = dealt[offers[i]] + given[Served(i) \ {offers[i]}]
    BY <1>3, <1>8, <2>1, <2>2, SumWithout
  <2> QED BY <2>1, <2>3, <2>4, <2>5
<1> DEFINE T == {i \in 0 .. N :
                   /\ given[Served(i)] = n - left[i]
                   /\ left[i] = IF asked[Served(i)] <= n THEN n - asked[Served(i)] ELSE 0}
<1>11. 0 \in T
  <2>1. Served(0) = {}
    OBVIOUS
  <2> HIDE DEF Served
  <2>2. given[Served(0)] = n - left[0]
    BY <1>6, <1>9, <2>1
  <2>3. left[0] = IF asked[Served(0)] <= n THEN n - asked[Served(0)] ELSE 0
    BY <1>6, <1>9, <2>1
  <2>4. 0 \in 0 .. N
    BY <1>1
  <2> QED BY <2>2, <2>3, <2>4
<1>12. ASSUME NEW i \in 1 .. N, i - 1 \in T PROVE i \in T
  <2>1. PICK a, s, t, l, m, g, h :
          /\ a = amount[offers[i]] /\ s = asked[Served(i - 1)] /\ t = asked[Served(i)]
          /\ l = left[i - 1] /\ m = left[i]
          /\ g = given[Served(i - 1)] /\ h = given[Served(i)]
    OBVIOUS
  <2>2. a \in Nat /\ s \in Nat /\ l \in 0 .. n /\ m \in 0 .. n /\ g \in Nat
    <3>1. i \in 0 .. N /\ i - 1 \in 0 .. N
      BY <1>1
    <3>2. Served(i - 1) \in SUBSET players /\ offers[i] \in players
      BY <1>2, <1>10
    <3> HIDE DEF Served
    <3> QED BY <1>4, <1>7, <1>8, <2>1, <3>1, <3>2 DEF Sums
  <2>3. t = a + s /\ h = (l - m) + g
    BY <1>5, <1>10, <2>1
  <2>4. m = IF a <= l THEN l - a ELSE 0
    BY <1>4, <2>1
  <2>5. g = n - l /\ l = IF s <= n THEN n - s ELSE 0
    BY <1>12, <2>1
  <2>6. h = n - m /\ m = IF t <= n THEN n - t ELSE 0
    BY <2>2, <2>3, <2>4, <2>5
  <2> HIDE DEF Served
  <2>7. i \in 0 .. N
    BY <1>1
  <2>8. /\ given[Served(i)] = n - left[i]
        /\ left[i] = IF asked[Served(i)] <= n THEN n - asked[Served(i)] ELSE 0
    BY <2>1, <2>6
  <2> QED BY <2>7, <2>8
<1>13. N \in T
  <2> HIDE DEF T
  <2>1. 0 .. N \subseteq T
    BY <1>1, <1>11, <1>12, UpTo
  <2> QED BY <1>1, <2>1
<1>14. Served(N) = players
  BY <1>2
<1>15. asked[players] \in Nat
  BY <1>7 DEF Sums
<1> HIDE DEF Served
<1>16. given[players] = Smaller(asked[players], n)
  BY <1>13, <1>14, <1>15 DEF Smaller
<1> QED BY <1>7, <1>8, <1>16 DEF dealt

(* Nobody gets anything in an auction while somebody who comes earlier in   *)
(* the order of offers has not got everything.                              *)
LEMMA ServedInOrder ==
  ASSUME IsFiniteSet(players), NEW offers \in Offers,
         NEW amount \in [players -> Nat], NEW n \in Nat,
         NEW i \in 1 .. Cardinality(players), NEW j \in 1 .. Cardinality(players), i < j,
         Dealt(offers, amount, n)[offers[j]] > 0
  PROVE  Dealt(offers, amount, n)[offers[i]] = amount[offers[i]]
<1> DEFINE N == Cardinality(players)
           left == Left(offers, amount, n)
           dealt == Dealt(offers, amount, n)
<1>1. N \in Nat
  BY FS_CardinalityType
<1>2. offers \in [1 .. N -> players]
  BY OffersRange
<1>3. /\ left \in [0 .. N -> 0 .. n]
      /\ \A k \in 1 .. N :
           left[k] = IF amount[offers[k]] <= left[k - 1]
                       THEN left[k - 1] - amount[offers[k]] ELSE 0
  BY LeftIsDefined
<1>4. \A k \in 1 .. N : dealt[offers[k]] = left[k - 1] - left[k]
  BY DealtInTurn
<1>5. dealt[offers[j]] > 0
  OBVIOUS
<1> HIDE DEF left, dealt, N
<1> DEFINE T == {k \in 0 .. N : i <= k /\ left[i] = 0 => left[k] = 0}
<1>6. 0 \in T
  BY <1>1
<1>7. ASSUME NEW k \in 1 .. N, k - 1 \in T PROVE k \in T
  <2> SUFFICES ASSUME i <= k, left[i] = 0 PROVE left[k] = 0
    BY <1>1
  <2>1. CASE i = k
    BY <2>1
  <2>2. CASE i # k
    <3>1. left[k - 1] = 0
      BY <1>7, <2>2 DEF N
    <3>2. amount[offers[k]] \in Nat
      BY <1>2
    <3> QED BY <1>3, <3>1, <3>2
  <2> QED BY <2>1, <2>2
<1>8. 0 .. N \subseteq T
  <2> HIDE DEF T
  <2> QED BY <1>1, <1>6, <1>7, UpTo
<1>9. i \in 1 .. N /\ j \in 1 .. N /\ j - 1 \in 0 .. N /\ i - 1 \in 0 .. N
  BY <1>1 DEF N
<1>10. left[j - 1] > 0
  <2>1. left[j - 1] \in Nat /\ left[j] \in Nat
    BY <1>3, <1>9
  <2> QED BY <1>4, <1>5, <1>9, <2>1
<1>11. left[i] # 0
  <2>1. i <= j - 1 /\ j - 1 \in T
    BY <1>8, <1>9
  <2> QED BY <1>10, <2>1
<1>12. left[i] = left[i - 1] - amount[offers[i]]
  BY <1>3, <1>9, <1>11
<1>13. amount[offers[i]] \in Nat /\ left[i - 1] \in Nat
  BY <1>2, <1>3, <1>9
<1>14. dealt[offers[i]] = left[i - 1] - left[i]
  BY <1>4, <1>9
<1> QED BY <1>12, <1>13, <1>14 DEF dealt

(* What an auction is to its players: b of what they want is dealt.         *)
LEMMA AuctionOutcome ==
  ASSUME IsFiniteSet(players), NEW offers \in Offers,
         NEW amount \in [players -> Nat], NEW n \in Nat, NEW b,
         b = Dealt(offers, amount, n)
  PROVE  /\ Total(b) = Smaller(Total(amount), n)
         /\ \A c \in players : b[c] <= amount[c]
         /\ \A c, d \in players :
              \/ ~ b[d] > 0
              \/ b[c] = amount[c]
              \/ \E i, j \in 1 .. Cardinality(players) :
                   j <= i /\ offers[i] = c /\ offers[j] = d
<1>1. Total(b) = Smaller(Total(amount), n)
  BY DealtTotal
<1>2. \A c \in players : b[c] <= amount[c]
  BY DealtBounds
<1>3. ASSUME NEW c \in players, NEW d \in players, b[d] > 0, b[c] # amount[c]
      PROVE  \E i, j \in 1 .. Cardinality(players) :
               j <= i /\ offers[i] = c /\ offers[j] = d
  <2>1. PICK i \in 1 .. Cardinality(players), j \in 1 .. Cardinality(players) :
          offers[i] = c /\ offers[j] = d
    BY OffersRange
  <2>2. ~(i < j)
    BY <1>3, <2>1, ServedInOrder
  <2>3. Cardinality(players) \in Nat
    BY FS_CardinalityType
  <2> QED BY <2>1, <2>2, <2>3
<1> QED BY <1>1, <1>2, <1>3

(* A round is closed by FinishRound only. *)
LEMMA OnlyFinishCloses ==
  ASSUME TypeOK, [Next]_vars, Closed
  PROVE  FinishRound
<1>1. round_counter \in Nat
  BY DEF TypeOK
<1>2. ASSUME NEW P \in SUBSET Client, GameStart(P) PROVE FALSE
  BY <1>1, <1>2 DEF GameStart, Closed
<1>3. round_counter' # round_counter
  BY <1>1 DEF Closed
<1>4. CASE StartRound
  BY <1>3, <1>4 DEF StartRound
<1>5. ASSUME NEW c \in Client, Leave(c) PROVE FALSE
  BY <1>3, <1>5 DEF Leave
<1>6. ASSUME NEW c \in Client, Request(c) PROVE FALSE
  BY <1>3, <1>6 DEF Request, Buy, Sell, Produce, Build, Requesting
<1>7. CASE UNCHANGED vars
  BY <1>3, <1>7 DEF vars
<1> QED BY <1>2, <1>4, <1>5, <1>6, <1>7 DEF Next

(* The promise of AuctionsFair, of one step *)
FairStep ==
  /\ Total(Bought) = Smaller(Total(Wanted), raw_count')
  /\ Total(Sold) = Smaller(Total(Stock), product_count')
  /\ \A c \in players : Bought[c] <= Wanted[c] /\ Sold[c] <= Stock[c]
  /\ \A c, d \in players :
       /\ req[c].raw_price > req[d].raw_price /\ Bought[d] > 0 => Bought[c] = Wanted[c]
       /\ req[c].product_price < req[d].product_price /\ Sold[d] > 0 => Sold[c] = Stock[c]

(* The auctions of a round keep it. *)
LEMMA RoundIsFair ==
  ASSUME TypeOK, FinishRound
  PROVE  FairStep
<1>1. IsFiniteSet(players) /\ Cardinality(players) \in Nat /\ players \subseteq Client
  BY FinitePlayers DEF TypeOK
<1>2. PICK r, q : r = raw_count' /\ q = product_count'
  OBVIOUS
<1>3. r \in Nat /\ q \in Nat
  BY <1>1, <1>2, SupplyType DEF FinishRound
<1>4. /\ Wanted \in [players -> Nat] /\ Stock \in [players -> Nat]
      /\ \A c \in players : /\ req[c].raw_price \in Nat /\ req[c].product_price \in Nat
                           /\ req[c].items_to_produce \in Nat
                           /\ raw[c] \in Nat /\ product[c] \in Nat
  BY <1>1 DEF Wanted, Stock, TypeOK, ClientRequest
<1>5. PICK o, p, b, s :
        /\ o \in RawOffers /\ p \in ProductOffers
        /\ b = Dealt(o, Wanted, r) /\ s = Dealt(p, Stock, q)
        /\ raw' = InGame([c \in players |-> raw[c] + b[c]], raw)
        /\ product' = InGame([c \in players |->
                                product[c] - s[c] + req[c].items_to_produce], product)
  BY <1>2 DEF FinishRound
<1>6. o \in Offers /\ p \in Offers
  BY <1>5 DEF RawOffers, ProductOffers
<1>7. b \in [players -> Nat] /\ s \in [players -> Nat]
  BY <1>1, <1>3, <1>4, <1>5, <1>6, DealtBounds
<1>8. Bought = b
  <2>1. \A c \in players : raw'[c] = raw[c] + b[c]
    BY <1>1, <1>5 DEF InGame
  <2>2. \A c \in players : raw'[c] - raw[c] = b[c]
    BY <1>4, <1>7, <2>1
  <2>3. Bought = [c \in players |-> b[c]]
    BY <2>2 DEF Bought
  <2> QED BY <1>7, <2>3
<1>9. Sold = s
  <2>1. \A c \in players : product'[c] = product[c] - s[c] + req[c].items_to_produce
    BY <1>1, <1>5 DEF InGame
  <2>2. \A c \in players : product[c] + req[c].items_to_produce - product'[c] = s[c]
    BY <1>4, <1>7, <2>1
  <2>3. Sold = [c \in players |-> s[c]]
    BY <2>2 DEF Sold
  <2> QED BY <1>7, <2>3
<1>10. /\ Total(b) = Smaller(Total(Wanted), r)
       /\ \A c \in players : b[c] <= Wanted[c]
       /\ \A c, d \in players :
            \/ ~ b[d] > 0
            \/ b[c] = Wanted[c]
            \/ \E i, j \in 1 .. Cardinality(players) : j <= i /\ o[i] = c /\ o[j] = d
  <2>1. IsFiniteSet(players) /\ o \in Offers /\ Wanted \in [players -> Nat] /\ r \in Nat
    BY <1>1, <1>3, <1>4, <1>6
  <2>2. b = Dealt(o, Wanted, r)
    BY <1>5
  <2> QED BY <2>1, <2>2, AuctionOutcome
<1>11. /\ Total(s) = Smaller(Total(Stock), q)
       /\ \A c \in players : s[c] <= Stock[c]
       /\ \A c, d \in players :
            \/ ~ s[d] > 0
            \/ s[c] = Stock[c]
            \/ \E i, j \in 1 .. Cardinality(players) : j <= i /\ p[i] = c /\ p[j] = d
  <2>1. IsFiniteSet(players) /\ p \in Offers /\ Stock \in [players -> Nat] /\ q \in Nat
    BY <1>1, <1>3, <1>4, <1>6
  <2>2. s = Dealt(p, Stock, q)
    BY <1>5
  <2> QED BY <2>1, <2>2, AuctionOutcome
<1>12. ASSUME NEW c \in players, NEW d \in players,
              req[c].raw_price > req[d].raw_price, b[d] > 0
       PROVE  b[c] = Wanted[c]
  <2> SUFFICES ASSUME NEW i \in 1 .. Cardinality(players),
                      NEW j \in 1 .. Cardinality(players),
                      j <= i, o[i] = c, o[j] = d
               PROVE  FALSE
    BY <1>10, <1>12
  <2>1. j < i \/ c = d
    BY <1>1
  <2>2. o \in [1 .. Cardinality(players) -> players]
    BY <1>6, OffersRange
  <2>3. \A k, l \in 1 .. Cardinality(players) :
          k < l => req[o[k]].raw_price >= req[o[l]].raw_price
    BY <1>5, <2>2 DEF RawOffers
  <2>4. req[d].raw_price >= req[c].raw_price
    BY <1>4, <2>1, <2>3
  <2> QED BY <1>4, <1>12, <2>4
<1>13. ASSUME NEW c \in players, NEW d \in players,
              req[c].product_price < req[d].product_price, s[d] > 0
       PROVE  s[c] = Stock[c]
  <2> SUFFICES ASSUME NEW i \in 1 .. Cardinality(players),
                      NEW j \in 1 .. Cardinality(players),
                      j <= i, p[i] = c, p[j] = d
               PROVE  FALSE
    BY <1>11, <1>13
  <2>1. j < i \/ c = d
    BY <1>1
  <2>2. p \in [1 .. Cardinality(players) -> players]
    BY <1>6, OffersRange
  <2>3. \A k, l \in 1 .. Cardinality(players) :
          k < l => req[p[k]].product_price <= req[p[l]].product_price
    BY <1>5, <2>2 DEF ProductOffers
  <2>4. req[d].product_price <= req[c].product_price
    BY <1>4, <2>1, <2>3
  <2> QED BY <1>4, <1>13, <2>4
<1> QED BY <1>2, <1>8, <1>9, <1>10, <1>11, <1>12, <1>13 DEF FairStep

(* Both auctions of every round deal out all they can, nobody more than     *)
(* asked for, and the best offers first, however ties are broken.           *)
THEOREM AuctionsAlwaysFair == Spec => AuctionsFair
<1>1. TypeOK /\ [Next]_vars => (Closed => FairStep)
  BY OnlyFinishCloses, RoundIsFair
<1>2. TypeOK /\ [Next]_vars => [Closed => FairStep]_vars
  BY <1>1
<1>3. Spec => [][Closed => FairStep]_vars
  BY <1>2, TypeCorrect, PTL DEF Spec
<1> QED BY <1>3 DEF AuctionsFair, FairStep
=============================================================================
