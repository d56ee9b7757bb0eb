------------------------- MODULE SocketLoop_proofs --------------------------
(***************************************************************************)
(* Proofs about SocketLoop, for any number of connections.                 *)
(*                                                                         *)
(* The invariant does not speak of Node, the walk along the list, but of   *)
(* ranks: an order of the clients that the next pointers go along without  *)
(* passing over anyone the server knows.  list_filter takes nodes out and  *)
(* relinks the others, and the ranks of these stay what they were, so that *)
(* no step has to count nodes anew.  One lemma, WalkFindsAll, leads from   *)
(* the ranks back to the walk.                                             *)
(***************************************************************************)
EXTENDS SocketLoop, Iteration, FiniteSetTheorems, TLAPS

-----------------------------------------------------------------------------
(* The walk *)

LEMMA ClientSets ==
  /\ Cardinality(Client) \in Nat
  /\ \A S \in SUBSET Client : IsFiniteSet(S) /\ Cardinality(S) \in Nat
BY ClientAssumption, FS_Subset, FS_CardinalityType

(* The recursive function Node is what its definition says. *)
LEMMA NodeIsDefined ==
  ASSUME head \in Client \cup {NULL}, next \in [Client -> Client \cup {NULL}]
  PROVE  /\ Node \in [0 .. Cardinality(Client) -> Client \cup {NULL}]
         /\ Node[0] = head
         /\ \A i \in 1 .. Cardinality(Client) :
              Node[i] = IF Node[i - 1] = NULL THEN NULL ELSE next[Node[i - 1]]
<1> DEFINE N == Cardinality(Client)
           S == Client \cup {NULL}
<1> N \in Nat
  BY ClientSets
<1> HIDE DEF N
<1> DEFINE h == [s \in S \X (1 .. N) |-> IF s[1] = NULL THEN NULL ELSE next[s[1]]]
           Body(g) == [i \in 0 .. N |->
                         IF i = 0 THEN head
                         ELSE IF g[i - 1] = NULL THEN NULL ELSE next[g[i - 1]]]
<1>1. h \in Steps(S, N)
  BY ClientAssumption DEF Steps
<1>2. PICK g \in [0 .. N -> S] : g[0] = head /\ \A i \in 1 .. N : g[i] = h[<<g[i - 1], i>>]
  <2> HIDE DEF h, S
  <2>1. head \in S
    BY DEF S
  <2>2. \E g : Iterates(g, S, N, head, h)
    BY <1>1, <2>1, Iterated
  <2> QED BY <2>2 DEF Iterates
<1>3. ASSUME NEW i \in 1 .. N
      PROVE  g[i] = IF g[i - 1] = NULL THEN NULL ELSE next[g[i - 1]]
  <2>1. <<g[i - 1], i>> \in S \X (1 .. N)
    BY <1>2
  <2> QED BY <1>2, <2>1
<1>4. g = Body(g)
  BY <1>2, <1>3
<1>5. Node = Body(Node)
  BY <1>4 DEF Node, N
<1>6. DOMAIN Node = 0 .. N /\ Node[0] = head
  BY <1>5
<1>7. ASSUME NEW i \in 1 .. N
      PROVE  Node[i] = IF Node[i - 1] = NULL THEN NULL ELSE next[Node[i - 1]]
  <2>1. Node[i] = Body(Node)[i]
    BY <1>5
  <2> QED BY <2>1
<1>8. 0 .. N \subseteq {i \in 0 .. N : Node[i] \in S}
  <2> DEFINE T == {i \in 0 .. N : Node[i] \in S}
  <2>1. 0 \in T
    BY <1>6
  <2>2. ASSUME NEW i \in 1 .. N, i - 1 \in T PROVE i \in T
    BY <1>7, <2>2, ClientAssumption
  <2> HIDE DEF T
  <2>3. 0 .. N \subseteq T
    BY <2>1, <2>2, UpTo
  <2> QED BY <2>3 DEF T
<1>9. Node \in [0 .. N -> S]
  BY <1>5, <1>6, <1>8
<1> QED BY <1>6, <1>7, <1>9 DEF N

-----------------------------------------------------------------------------
(* Ranks *)

Ranks == [Client -> Int]

(* The node to is where one gets to next from those known clients of a rank *)
(* at most b, none of the known ones being passed over; NULL is after all.  *)
Follows(r, to, b) ==
  /\ to \in known \cup freed \cup {NULL}
  /\ to = NULL => \A d \in known : r[d] <= b
  /\ to # NULL => b < r[to] /\ \A d \in known : r[d] <= b \/ r[to] <= r[d]

(* The pointers go along the ranks: from the head, which is before all, and *)
(* from each client that is known.                                          *)
Chained(r) ==
  /\ \A c, d \in known \cup freed : r[c] = r[d] => c = d
  /\ head \in known \cup freed \cup {NULL}
  /\ head = NULL => known = {}
  /\ head # NULL => \A d \in known : r[head] <= r[d]
  /\ \A c \in known : Follows(r, next[c], r[c])

(* Who walks along such a list finds everyone known and comes to its end,   *)
(* or meets a freed node on the way.                                        *)
LEMMA WalkFindsAll ==
  ASSUME TypeOK, NEW r \in Ranks, Chained(r), Linked \cap freed = {}
  PROVE  Linked = known /\ Node[Cardinality(Client)] = NULL
<1> DEFINE N == Cardinality(Client)
           Below(c) == {d \in known : r[d] < r[c]}
           Seen(i) == {Node[j] : j \in 0 .. i - 1}
           T == {i \in 0 .. N : IF Node[i] = NULL
                                  THEN known \subseteq Seen(i)
                                  ELSE /\ Node[i] \in known
                                       /\ Below(Node[i]) \subseteq Seen(i)
                                       /\ Cardinality(Below(Node[i])) = i}
<1>0. /\ known \subseteq Client /\ freed \subseteq Client /\ NULL \notin Client
      /\ head \in Client \cup {NULL} /\ next \in [Client -> Client \cup {NULL}]
  BY ClientAssumption DEF TypeOK
<1>1. /\ Node \in [0 .. N -> Client \cup {NULL}]
      /\ Node[0] = head
      /\ \A i \in 1 .. N : Node[i] = IF Node[i - 1] = NULL THEN NULL ELSE next[Node[i - 1]]
      /\ N \in Nat
  BY <1>0, NodeIsDefined, ClientSets
<1>2. \A i \in 0 .. N : Node[i] # NULL => Node[i] \in Linked /\ Node[i] \notin freed
  BY <1>1 DEF Linked
<1>3. 0 \in T
  <2>1. CASE head = NULL
    BY <1>1, <2>1 DEF Chained
  <2>2. CASE head # NULL
    <3>1. head \in known
      BY <1>1, <1>2, <2>2 DEF Chained
    <3>2. Below(head) = {}
      BY <1>0, <2>2 DEF Chained, Ranks
    <3>3. Cardinality(Below(head)) = 0
      BY <3>2, FS_EmptySet
    <3> HIDE DEF Below, Seen
    <3>4. Below(head) \subseteq Seen(0)
      BY <3>2
    <3>5. 0 \in 0 .. N /\ Node[0] = head
      BY <1>1
    <3> QED BY <2>2, <3>1, <3>3, <3>4, <3>5
  <2> QED BY <2>1, <2>2
<1>4. ASSUME NEW i \in 1 .. N, i - 1 \in T PROVE i \in T
  <2> DEFINE c == Node[i - 1]
             e == Node[i]
  <2>0. i - 1 \in 0 .. N /\ i \in 0 .. N
    <3> HIDE DEF N
    <3> QED BY <1>1
  <2>1. Seen(i - 1) \subseteq Seen(i) /\ c \in Seen(i)
    BY <1>1
  <2>2. CASE c = NULL
    <3>1. known \subseteq Seen(i - 1) /\ e = NULL
      BY <1>1, <1>4, <2>2
    <3> QED BY <2>0, <2>1, <3>1
  <2>3. CASE c # NULL
    <3>1. /\ c \in known /\ Below(c) \subseteq Seen(i - 1)
          /\ Cardinality(Below(c)) = i - 1 /\ e = next[c]
      BY <1>1, <1>4, <2>3
    <3>2. Follows(r, e, r[c])
      BY <3>1 DEF Chained
    <3> HIDE DEF c, e, Seen
    <3>3. \A d \in known : r[d] <= r[c] => d \in Below(c) \cup {c}
      BY <1>0, <3>1 DEF Chained, Ranks
    <3>4. CASE e = NULL
      <4>1. known \subseteq Below(c) \cup {c}
        BY <3>2, <3>3, <3>4 DEF Follows
      <4>2. known \subseteq Seen(i)
        BY <2>1, <3>1, <4>1
      <4> QED BY <2>0, <3>4, <4>2 DEF e
    <3>5. CASE e # NULL
      <4>1. e \in known
        <5>1. e \notin freed
          BY <1>2, <2>0, <3>5 DEF e
        <5> QED BY <3>2, <3>5, <5>1 DEF Follows
      <4>2. Below(e) = Below(c) \cup {c}
        BY <1>0, <3>1, <3>2, <3>3, <3>5, <4>1 DEF Follows, Ranks
      <4>3. c \notin Below(c) /\ IsFiniteSet(Below(c))
        BY <1>0, <3>1, ClientSets DEF Ranks
      <4>4. Cardinality(Below(e)) = i
        <5> HIDE DEF Below
        <5>1. Cardinality(Below(c) \cup {c}) = Cardinality(Below(c)) + 1
          BY <4>3, FS_AddElement
        <5> QED BY <3>1, <4>2, <5>1
      <4>5. Below(e) \subseteq Seen(i)
        BY <2>1, <3>1, <4>2
      <4> QED BY <2>0, <3>5, <4>1, <4>4, <4>5 DEF e
    <3> QED BY <3>4, <3>5
  <2> QED BY <2>2, <2>3
<1>5. 0 .. N \subseteq T
  <2> HIDE DEF T, N
  <2> QED BY <1>1, <1>3, <1>4, UpTo
<1>6. Node[N] = NULL
  <2> SUFFICES ASSUME Node[N] # NULL PROVE FALSE
    OBVIOUS
  <2> DEFINE e == Node[N]
  <2>1. N \in T
    <3>1. N \in 0 .. N
      BY <1>1
    <3> HIDE DEF T
    <3> QED BY <1>5, <3>1
  <2>2. e \in known /\ Cardinality(Below(e)) = N
    BY <2>1
  <2> HIDE DEF e
  <2>3. Below(e) \subseteq Client \ {e} /\ e \in Client
    BY <1>0, <2>2 DEF Ranks
  <2>4. Cardinality(Client \ {e}) = N - 1
    BY <2>3, ClientAssumption, FS_RemoveElement
  <2>5. Cardinality(Below(e)) <= Cardinality(Client \ {e})
    <3>1. IsFiniteSet(Client \ {e})
      BY ClientSets
    <3> HIDE DEF Below
    <3> QED BY <2>3, <3>1, FS_Subset
  <2> QED BY <1>1, <2>2, <2>4, <2>5
<1>7. known \subseteq Linked
  <2>1. N \in T
    <3>1. N \in 0 .. N
      BY <1>1
    <3> HIDE DEF T
    <3> QED BY <1>5, <3>1
  <2>2. known \subseteq Seen(N)
    BY <1>6, <2>1
  <2>3. Seen(N) \subseteq Linked \cup {NULL}
    BY <1>1 DEF Linked
  <2> QED BY <1>0, <2>2, <2>3
<1>8. Linked \subseteq known
  <2>1. \A i \in 0 .. N : Node[i] # NULL => Node[i] \in known
    BY <1>5
  <2> QED BY <1>1, <2>1 DEF Linked
<1> QED BY <1>6, <1>7, <1>8

(* Nodes of the list are clients. *)
LEMMA LinkedAreClients ==
  ASSUME TypeOK
  PROVE  Linked \subseteq Client
<1>1. Node \in [0 .. Cardinality(Client) -> Client \cup {NULL}]
  BY NodeIsDefined DEF TypeOK
<1> QED BY <1>1 DEF Linked

-----------------------------------------------------------------------------
(* Type correctness *)

LEMMA SendType ==
  ASSUME TypeOK, NEW targets, Send(targets)
  PROVE  /\ backlog' \in [Client -> BOOLEAN]
         /\ fault' \in {"none", "fatal", "stale", "astray"}
<1>1. PICK full \in SUBSET targets :
        backlog' = [c \in Client |-> IF c \in targets THEN c \in full ELSE backlog[c]]
  BY DEF Send
<1>2. \A c \in Client : backlog[c] \in BOOLEAN
  BY DEF TypeOK
<1>3. ASSUME NEW c \in Client
      PROVE  (IF c \in targets THEN c \in full ELSE backlog[c]) \in BOOLEAN
  <2>1. CASE c \in targets
    <3>1. (c \in full) \in BOOLEAN
      OBVIOUS
    <3> QED BY <2>1, <3>1, Zenon
  <2>2. CASE c \notin targets
    BY <1>2, <2>2, Zenon
  <2> QED BY <2>1, <2>2
<1>4. backlog' \in [Client -> BOOLEAN]
  BY <1>1, <1>3
<1> QED BY <1>4 DEF Send

(* Who is being read is somebody. *)
CurIsClient == pc = "reading" => cur \in Client

LEMMA CurIsClientStep ==
  ASSUME TypeOK, CurIsClient, [Next]_vars
  PROVE  CurIsClient'
<1> USE DEF CurIsClient
<1>1. CASE Line \/ Quit \/ BadSyntax
  BY <1>1 DEF Line, Quit, BadSyntax
<1>2. CASE InputEmpty \/ InputFails \/ InputEnds
  BY <1>2 DEF InputEmpty, InputFails, InputEnds
<1>3. CASE Run \/ Test \/ Select \/ AcceptDone \/ VisitedAll \/ FilterEnd
  BY <1>3 DEF Run, Test, Select, AcceptDone, VisitedAll, FilterEnd
<1>4. CASE VisitRead
  BY <1>4 DEF VisitRead, TypeOK
<1>5. CASE VisitDone \/ FilterKeep \/ FilterDelete
  BY <1>5 DEF VisitDone, FilterKeep, FilterDelete, Running
<1>6. ASSUME NEW l \in Listener PROVE AcceptFails(l) => CurIsClient'
  BY DEF AcceptFails, Running
<1>7. ASSUME NEW l \in Listener, NEW c \in Client PROVE Accept(l, c) => CurIsClient'
  BY DEF Accept, Running
<1>8. CASE Terminate
  BY <1>8 DEF Terminate
<1>9. ASSUME NEW c \in Client, NEW broken \in BOOLEAN, PeerLeaves(c, broken)
      PROVE  CurIsClient'
  BY <1>9 DEF PeerLeaves
<1>10. CASE UNCHANGED vars
  BY <1>10 DEF vars
<1> QED BY <1>1, <1>2, <1>3, <1>4, <1>5, <1>6, <1>7, <1>8, <1>9, <1>10
        DEF Next, Loop, Reading

(* Every variable of the loop keeps its type. *)
THEOREM TypeCorrect == Spec => []TypeOK
<1>1. Init => TypeOK /\ CurIsClient
  BY DEF Init, TypeOK, CurIsClient
<1>2. TypeOK /\ CurIsClient /\ [Next]_vars => TypeOK'
  <2> SUFFICES ASSUME TypeOK, CurIsClient, [Next]_vars PROVE TypeOK'
    OBVIOUS
  <2>1. CASE Run \/ Test
    BY <2>1 DEF TypeOK, Run, Test, list, client, filter, fds, peer
  <2>2. CASE Select
    BY <2>2, LinkedAreClients DEF TypeOK, Select, list, client, filter, peer
  <2>3. ASSUME NEW l \in Listener, NEW c \in Client, Accept(l, c) PROVE TypeOK'
    BY <2>3 DEF TypeOK, Accept, filter, peer
  <2>4. ASSUME NEW l \in Listener, AcceptFails(l) PROVE TypeOK'
    BY <2>4 DEF TypeOK, AcceptFails, list, client, filter, peer
  <2>5. CASE AcceptDone \/ VisitedAll
    BY <2>5 DEF TypeOK, AcceptDone, VisitedAll, list, client, filter, fds, peer
  <2>6. CASE VisitRead
    BY <2>6 DEF TypeOK, VisitRead, list, client, filter, peer
  <2>7. CASE VisitDone
    BY <2>7 DEF TypeOK, VisitDone, list, filter, fds, peer
  <2>8. CASE Line
    <3>1. /\ backlog' \in [Client -> BOOLEAN]
          /\ fault' \in {"none", "fatal", "stale", "astray"}
      BY <2>8, SendType DEF Line, TypeOK
    <3>2. UNCHANGED <<list, do_continue, is_active, is_dropped, pc, cur, filter, fds, known, peer>>
      BY <2>8 DEF Line
    <3> QED BY <3>1, <3>2 DEF TypeOK, list, filter, fds, peer
  <2>9. CASE Quit
    <3>1. /\ backlog' \in [Client -> BOOLEAN]
          /\ fault' \in {"none", "fatal", "stale", "astray"}
      BY <2>9, SendType DEF Quit
    <3>2. is_dropped' \in [Client -> BOOLEAN]
      BY <2>9 DEF TypeOK, Quit
    <3>3. UNCHANGED <<list, do_continue, is_active, pc, cur, filter, fds, known, eof, reset,
                      asked>>
      BY <2>9 DEF Quit
    <3>4. gone' \subseteq Client
      BY <2>9 DEF Quit, CurIsClient, Running, TypeOK
    <3> QED BY <3>1, <3>2, <3>3, <3>4 DEF TypeOK, list, filter, fds
  <2>10. CASE BadSyntax
    <3>1. /\ backlog' \in [Client -> BOOLEAN] /\ is_dropped' \in [Client -> BOOLEAN]
          /\ fault' = "null"
      BY <2>10 DEF TypeOK, BadSyntax
    <3>2. UNCHANGED <<list, do_continue, is_active, pc, cur, filter, fds, known, eof, reset,
                      asked>>
      BY <2>10 DEF BadSyntax
    <3>3. gone' \subseteq Client
      BY <2>10 DEF BadSyntax, CurIsClient, Running, TypeOK
    <3> QED BY <3>1, <3>2, <3>3 DEF TypeOK, list, filter, fds
  <2>11. CASE InputEmpty \/ InputFails
    BY <2>11 DEF TypeOK, InputEmpty, InputFails, list, client, filter, fds, peer
  <2>18. CASE InputEnds
    <3>1. gone' \subseteq Client
      BY <2>18 DEF InputEnds, CurIsClient, Running, TypeOK
    <3> QED BY <2>18, <3>1 DEF TypeOK, InputEnds, list, filter, fds
  <2>12. CASE FilterKeep
    BY <2>12 DEF TypeOK, FilterKeep, SetLink, client, fds, peer
  <2>13. CASE FilterDelete
    <3>1. /\ backlog' \in [Client -> BOOLEAN]
          /\ fault' \in {"none", "fatal", "stale", "astray"}
      BY <2>13, SendType DEF FilterDelete
    <3> QED BY <2>13, <3>1 DEF TypeOK, FilterDelete, list, fds, peer
  <2>14. CASE FilterEnd
    BY <2>14 DEF TypeOK, FilterEnd, SetLink, client, fds, peer
  <2>15. CASE Terminate
    BY <2>15 DEF TypeOK, Terminate, list, client, filter, fds
  <2>16. ASSUME NEW c \in Client, NEW broken \in BOOLEAN, PeerLeaves(c, broken)
         PROVE  TypeOK'
    BY <2>16 DEF TypeOK, PeerLeaves, list, client, filter, fds
  <2>17. CASE UNCHANGED vars
    BY <2>17 DEF TypeOK, vars, list, client, filter, fds, peer
  <2> QED BY <2>1, <2>2, <2>3, <2>4, <2>5, <2>6, <2>7, <2>8, <2>9, <2>10, <2>11, <2>12,
             <2>13, <2>14, <2>15, <2>16, <2>17, <2>18 DEF Next, Loop, Reading
<1>3. TypeOK /\ CurIsClient /\ [Next]_vars => CurIsClient'
  BY CurIsClientStep
<1> QED BY <1>1, <1>2, <1>3, PTL DEF Spec

-----------------------------------------------------------------------------
(* The invariant *)

(* list_filter has been past d. *)
Passed(r, d) == cur = NULL \/ r[d] < r[cur]

(* In list_filter: those passed are kept, and active, or freed; link is the  *)
(* last one kept, root the first, and the pointers of the others kept lead  *)
(* to one kept.                                                             *)
Filtering(r) ==
  /\ cur \in known \cup {NULL}
  /\ \A d \in freed : Passed(r, d)
  /\ \A d \in known : Passed(r, d) => is_active[d]
  /\ link = Root => \A d \in known : ~Passed(r, d)
  /\ link # Root =>
       /\ link \in known /\ Passed(r, link)
       /\ \A d \in known : Passed(r, d) => r[d] <= r[link]
       /\ root \in known /\ \A d \in known : r[root] <= r[d]
       /\ \A d \in known : r[d] < r[link] => next[d] \in known

Ranked == \E r \in Ranks : Chained(r) /\ (pc = "filter" => Filtering(r))

(* The rest: where the loop is, and who is active between two passes. *)
Placed ==
  /\ pc # "filter" => freed = {}
  /\ pc = "clients" => cur \in known \cup {NULL}
  /\ pc = "reading" => cur \in known
  /\ pc \in {"boot", "test", "select", "accept", "done"} => \A c \in known : is_active[c]

Inv == /\ fault = "none" => Ranked /\ Placed
       /\ fault # "fatal"

(* A callback that sends to clients the server knows finds them, or meets a  *)
(* freed node first.                                                        *)
LEMMA SendFinds ==
  ASSUME TypeOK, NEW r \in Ranks, Chained(r), NEW targets \in SUBSET known, Send(targets)
  PROVE  /\ fault' \in {"none", "stale", "astray"}
         /\ freed = {} => fault' = "none"
<1>0. known \subseteq Client /\ NULL \notin Client
  BY ClientAssumption DEF TypeOK
<1>1. CASE Linked \cap freed = {}
  <2>1. targets \subseteq Linked
    BY <1>1, WalkFindsAll
  <2> QED BY <2>1 DEF Send
<1>2. CASE Linked \cap freed # {} /\ ~(targets \subseteq Linked)
  <2>1. PICK d \in targets : d \notin Linked
    BY <1>2
  <2>2. d # NULL
    BY <1>0
  <2>3. \A k \in DOMAIN Node : Node[k] # d
    BY <2>1, <2>2 DEF Linked
  <2>4. DOMAIN Node = 0 .. Cardinality(Client) /\ Cardinality(Client) \in Nat
    BY NodeIsDefined, ClientSets DEF TypeOK
  <2>5. {j \in DOMAIN Node : \A k \in 0 .. j - 1 : Node[k] # d} = DOMAIN Node
    BY <2>3, <2>4
  <2>6. ReadOnTheWay(d) = Linked
    BY <2>5 DEF ReadOnTheWay, Linked
  <2> QED BY <1>2, <2>6 DEF Send
<1>3. CASE Linked \cap freed # {} /\ targets \subseteq Linked
  BY <1>3 DEF Send
<1> QED BY <1>1, <1>2, <1>3

(* A step that leaves the list alone leaves its ranks valid. *)
LEMMA ChainKept ==
  ASSUME NEW r, Chained(r), UNCHANGED <<head, next, known, freed>>
  PROVE  Chained(r)'
BY DEF Chained, Follows

(* What leaves the list alone keeps the ranks, outside list_filter. *)
LEMMA RankedKept ==
  ASSUME Ranked, UNCHANGED <<head, next, known, freed>>, pc' # "filter"
  PROVE  Ranked'
<1> PICK r \in Ranks : Chained(r)
  BY DEF Ranked
<1>1. Chained(r)'
  BY ChainKept
<1> QED BY <1>1 DEF Ranked

(* list_push puts a new client before all others: it gets the first rank. *)
LEMMA AcceptRanks ==
  ASSUME TypeOK, Ranked, Placed, NEW l \in Listener, NEW c \in Client, Accept(l, c)
  PROVE  Ranked'
<1> PICK r \in Ranks : Chained(r)
  BY DEF Ranked
<1>0. /\ pc' = "accept" /\ freed = {} /\ freed' = {} /\ NULL \notin Client
      /\ c \notin known /\ known' = known \cup {c} /\ known \subseteq Client
      /\ head' = c /\ next' = [next EXCEPT ![c] = head]
      /\ next \in [Client -> Client \cup {NULL}]
  BY ClientAssumption DEF Accept, Placed, Running, filter, TypeOK
<1>1. PICK q \in Ranks :
        \A d \in known : q[d] = r[d] /\ q[c] < q[d] /\ d # c
  <2> DEFINE q == [r EXCEPT ![c] = IF head = NULL THEN 0 ELSE r[head] - 1]
  <2>1. q \in Ranks
    BY <1>0 DEF Ranks, Chained
  <2>2. \A d \in known : q[d] = r[d] /\ q[c] < q[d] /\ d # c
    BY <1>0 DEF Ranks, Chained
  <2> HIDE DEF q
  <2> QED BY <2>1, <2>2
<1>2. /\ head # NULL => head \in known /\ \A d \in known : q[head] <= q[d]
      /\ head = NULL => known = {}
  BY <1>0, <1>1 DEF Chained, Ranks
<1>3. \A d, e \in known' : q[d] = q[e] => d = e
  BY <1>0, <1>1 DEF Chained, Ranks
<1>4. ASSUME NEW d \in known PROVE Follows(q, next[d], q[d])'
  <2>1. Follows(r, next[d], r[d]) /\ next'[d] = next[d]
    BY <1>0, <1>1 DEF Chained
  <2>2. CASE next[d] = NULL
    BY <1>0, <1>1, <2>1, <2>2 DEF Follows, Ranks
  <2>3. CASE next[d] # NULL
    <3>1. next[d] \in known /\ r[d] < r[next[d]]
      BY <1>0, <2>1, <2>3 DEF Follows
    <3> QED BY <1>0, <1>1, <2>1, <2>3, <3>1 DEF Follows, Ranks
  <2> QED BY <2>2, <2>3
<1>5. Follows(q, next[c], q[c])'
  <2>1. next'[c] = head
    BY <1>0
  <2> QED BY <1>0, <1>1, <1>2, <2>1 DEF Follows, Ranks
<1>6. Chained(q)'
  BY <1>0, <1>1, <1>3, <1>4, <1>5 DEF Chained, Ranks
<1> QED BY <1>0, <1>1, <1>6 DEF Ranked

(* list_filter starts with a list that is whole. *)
LEMMA FilterStarts ==
  ASSUME TypeOK, Ranked, Placed, VisitedAll
  PROVE  Ranked'
<1> PICK r \in Ranks : Chained(r)
  BY DEF Ranked
<1>1. Chained(r)'
  BY ChainKept DEF VisitedAll, list
<1>2. /\ cur' = head /\ link' = Root /\ known' = known /\ freed' = {} /\ freed = {}
      /\ known \subseteq Client /\ Root \notin Client
  BY ClientAssumption DEF VisitedAll, Placed, Running, TypeOK
<1>3. Filtering(r)'
  BY <1>2 DEF Filtering, Passed, Chained, Ranks
<1> QED BY <1>1, <1>3 DEF Ranked

(* The client list_filter has come to is kept. *)
LEMMA KeepRanks ==
  ASSUME TypeOK, Ranked, Placed, FilterKeep
  PROVE  Ranked'
<1> PICK r \in Ranks : Chained(r) /\ Filtering(r)
  BY DEF Ranked, FilterKeep, Running
<1>0. /\ cur \in known /\ cur # NULL /\ is_active[cur] /\ SetLink(cur)
      /\ link' = cur /\ cur' = next[cur]
      /\ UNCHANGED <<head, freed, known, is_active>>
      /\ known \subseteq Client /\ freed \subseteq Client
      /\ NULL \notin Client /\ Root \notin Client
      /\ next \in [Client -> Client \cup {NULL}]
      /\ link # Root => link \in known /\ link # cur
  BY ClientAssumption DEF FilterKeep, Filtering, Passed, Dead, client, TypeOK, Ranks
<1>1. /\ \A d \in known : r[d] \in Int
      /\ \A d \in freed : r[d] \in Int /\ r[d] < r[cur]
  BY <1>0 DEF Ranks, Filtering, Passed
<1>2. \A d \in known : (link = Root \/ d # link) => next'[d] = next[d]
  BY <1>0 DEF SetLink
<1>3. link # Root => next'[link] = cur /\ root' = root
  BY <1>0 DEF SetLink
<1>4. link = Root => root' = cur
  BY <1>0 DEF SetLink
<1>5. ASSUME NEW d \in known PROVE Follows(r, next[d], r[d])'
  <2>1. CASE link # Root /\ d = link
    BY <1>0, <1>1, <1>3, <2>1 DEF Follows, Filtering, Passed
  <2>2. CASE link = Root \/ d # link
    BY <1>0, <1>2, <2>2 DEF Follows, Chained
  <2> QED BY <2>1, <2>2
<1>6. Chained(r)'
  BY <1>0, <1>5 DEF Chained
<1>7. Follows(r, next[cur], r[cur])
  BY <1>0 DEF Chained
<1>8. /\ next[cur] \in known \cup {NULL}
      /\ \A d \in known : Passed(r, d)' <=> r[d] <= r[cur]
      /\ \A d \in freed : Passed(r, d)'
  BY <1>0, <1>1, <1>7 DEF Follows, Passed
<1>9. \A d \in known : r[d] <= r[cur] => d = cur \/ Passed(r, d)
  BY <1>0, <1>1 DEF Passed, Chained
<1>10. \A d \in known : Passed(r, d)' => is_active'[d]
  BY <1>0, <1>8, <1>9 DEF Filtering
<1>11. root' \in known /\ \A d \in known : r[root'] <= r[d]
  <2>1. CASE link = Root
    BY <1>0, <1>1, <1>4, <2>1 DEF Filtering, Passed
  <2>2. CASE link # Root
    BY <1>3, <2>2 DEF Filtering
  <2> QED BY <2>1, <2>2
<1>12. ASSUME NEW d \in known, r[d] < r[cur] PROVE next'[d] \in known
  <2>1. Passed(r, d) /\ link # Root /\ r[d] <= r[link] /\ link \in known
    BY <1>12 DEF Passed, Filtering
  <2>2. CASE d = link
    BY <1>0, <1>3, <2>1, <2>2
  <2>3. CASE d # link
    <3>1. r[d] < r[link]
      BY <1>0, <1>1, <2>1, <2>3 DEF Chained
    <3> QED BY <1>2, <2>1, <2>3, <3>1 DEF Filtering
  <2> QED BY <2>2, <2>3
<1>13. Passed(r, link)'
  BY <1>0, <1>7 DEF Passed, Follows
<1>14. Filtering(r)'
  BY <1>0, <1>8, <1>10, <1>11, <1>12, <1>13 DEF Filtering
<1> QED BY <1>6, <1>14 DEF Ranked

(* It is freed. *)
LEMMA DeleteRanks ==
  ASSUME TypeOK, Ranked, Placed, FilterDelete
  PROVE  Ranked'
<1> PICK r \in Ranks : Chained(r) /\ Filtering(r)
  BY DEF Ranked, FilterDelete, Running
<1>0. /\ cur \in known /\ cur # NULL
      /\ known' = known \ {cur} /\ freed' = freed \cup {cur} /\ cur' = next[cur]
      /\ UNCHANGED <<head, next, link, root, is_active>>
      /\ known \subseteq Client /\ freed \subseteq Client
      /\ NULL \notin Client /\ Root \notin Client
      /\ next \in [Client -> Client \cup {NULL}]
      /\ link # Root => link \in known /\ link # cur
  <2>1. /\ cur # NULL
        /\ known' = known \ {cur} /\ freed' = freed \cup {cur} /\ cur' = next[cur]
        /\ UNCHANGED <<head, next, link, root, is_active>>
    BY DEF FilterDelete, list
  <2>2. cur \in known
    BY <2>1 DEF Filtering
  <2>3. link # Root => link \in known /\ link # cur
    BY <2>1, <2>2 DEF Filtering, Passed, Ranks, TypeOK
  <2> QED BY <2>1, <2>2, <2>3, ClientAssumption DEF TypeOK
<1>1. /\ \A d \in known : r[d] \in Int
      /\ \A d \in freed : r[d] \in Int /\ r[d] < r[cur]
  BY <1>0 DEF Ranks, Filtering, Passed
<1>2. ASSUME NEW d \in known' PROVE Follows(r, next[d], r[d])'
  BY <1>0 DEF Follows, Chained
<1>3. Chained(r)'
  BY <1>0, <1>2 DEF Chained
<1>4. Follows(r, next[cur], r[cur])
  BY <1>0 DEF Chained
<1>5. /\ next[cur] \in known' \cup {NULL}
      /\ \A d \in known' : Passed(r, d)' <=> Passed(r, d)
      /\ \A d \in freed' : Passed(r, d)'
  <2>1. next[cur] \in known' \cup {NULL}
    BY <1>0, <1>1, <1>4 DEF Follows
  <2>2. \A d \in known' : r[d] # r[cur]
    BY <1>0 DEF Chained
  <2>3. \A d \in known' : Passed(r, d)' <=> Passed(r, d)
    BY <1>0, <1>1, <1>4, <2>1, <2>2 DEF Follows, Passed
  <2>4. \A d \in freed' : Passed(r, d)'
    BY <1>0, <1>1, <1>4, <2>1 DEF Follows, Passed
  <2> QED BY <2>1, <2>3, <2>4
<1>6. ASSUME link # Root
      PROVE  /\ root \in known'
             /\ \A d \in known' : r[d] < r[link] => next[d] \in known'
  <2>1. /\ link \in known /\ r[link] < r[cur]
        /\ root \in known /\ r[root] <= r[link]
    BY <1>0, <1>6 DEF Filtering, Passed
  <2>2. root \in known'
    BY <1>0, <1>1, <2>1
  <2>3. ASSUME NEW d \in known', r[d] < r[link] PROVE next[d] \in known'
    <3>1. next[d] \in known /\ Follows(r, next[d], r[d])
      BY <1>0, <1>6, <2>3 DEF Filtering, Chained
    <3>2. r[next[d]] <= r[link]
      BY <1>0, <1>1, <2>1, <2>3, <3>1 DEF Follows
    <3>3. r[next[d]] < r[cur]
      BY <1>0, <1>1, <2>1, <3>1, <3>2
    <3> QED BY <1>0, <1>1, <3>1, <3>3
  <2> QED BY <2>2, <2>3
<1>7. Filtering(r)'
  BY <1>0, <1>5, <1>6 DEF Filtering
<1> QED BY <1>3, <1>7 DEF Ranked

(* The list is closed and takes the place of the old one. *)
LEMMA EndRanks ==
  ASSUME TypeOK, Ranked, Placed, FilterEnd
  PROVE  Ranked' /\ \A d \in known : is_active[d]
<1> PICK r \in Ranks : Chained(r) /\ Filtering(r)
  BY DEF Ranked, FilterEnd, Running
<1>0. /\ cur = NULL /\ SetLink(NULL) /\ head' = root' /\ freed' = {} /\ pc' = "test"
      /\ known' = known /\ known \subseteq Client /\ NULL \notin Client
      /\ Root \notin Client
      /\ next \in [Client -> Client \cup {NULL}]
  BY ClientAssumption DEF FilterEnd, TypeOK
<1>1. \A d \in known : Passed(r, d) /\ r[d] \in Int
  BY <1>0 DEF Passed, Ranks
<1>2. CASE link = Root
  <2>1. known = {} /\ root' = NULL
    BY <1>0, <1>1, <1>2 DEF Filtering, SetLink
  <2>2. Chained(r)'
    BY <1>0, <2>1 DEF Chained
  <2> QED BY <1>0, <2>1, <2>2 DEF Ranked
<1>3. CASE link # Root
  <2>1. /\ link \in known /\ \A d \in known : r[d] <= r[link]
        /\ root' = root /\ root \in known /\ \A d \in known : r[root] <= r[d]
        /\ next'[link] = NULL
        /\ \A d \in known \ {link} : next'[d] = next[d]
    BY <1>0, <1>1, <1>3 DEF Filtering, SetLink
  <2>2. ASSUME NEW d \in known PROVE Follows(r, next[d], r[d])'
    <3>1. CASE d = link
      BY <1>0, <2>1, <3>1 DEF Follows
    <3>2. CASE d # link
      <4>1. r[d] < r[link]
        BY <1>1, <2>1, <3>2 DEF Chained
      <4>2. next[d] \in known
        BY <1>3, <4>1 DEF Filtering
      <4> QED BY <1>0, <2>1, <3>2, <4>2 DEF Follows, Chained
    <3> QED BY <3>1, <3>2
  <2>3. Chained(r)'
    BY <1>0, <2>1, <2>2 DEF Chained
  <2> QED BY <1>0, <1>1, <2>3 DEF Ranked, Filtering
<1> QED BY <1>2, <1>3

-----------------------------------------------------------------------------
(* The steps *)

LEMMA InvInit == Init => Inv
<1> SUFFICES ASSUME Init PROVE Inv
  OBVIOUS
<1>1. head = NULL /\ known = {} /\ freed = {} /\ pc = "boot" /\ fault = "none"
  BY DEF Init
<1> DEFINE r == [c \in Client |-> 0]
<1>2. r \in Ranks /\ Chained(r)
  BY <1>1 DEF Ranks, Chained
<1> HIDE DEF r
<1>3. Ranked
  BY <1>1, <1>2 DEF Ranked
<1> QED BY <1>1, <1>3 DEF Inv, Placed

(* Every step keeps the ranks and the walk's place in them. *)
LEMMA InvNext ==
  ASSUME TypeOK, Inv, [Next]_vars
  PROVE  Inv'
<1>0. /\ fault = "none" => Ranked /\ Placed
      /\ known \subseteq Client
  BY DEF Inv, TypeOK
<1>1. ASSUME fault = "none", UNCHANGED <<list, known, freed>>, pc' # "filter",
             pc # "filter", Placed', fault' # "fatal"
      PROVE  Inv'
  <2>1. Ranked'
    BY <1>0, <1>1, RankedKept DEF list
  <2> QED BY <1>1, <2>1 DEF Inv
<1>2. CASE Run \/ Test
  BY <1>0, <1>1, <1>2 DEF Run, Test, Placed, Running, list, client, filter
<1>3. CASE Select
  BY <1>0, <1>1, <1>3 DEF Select, Placed, Running, list, client, filter
<1>4. ASSUME NEW l \in Listener, NEW c \in Client, Accept(l, c) PROVE Inv'
  <2>1. Ranked /\ Placed /\ pc = "accept" /\ pc' = "accept" /\ fault' = "none" /\ freed' = {}
    BY <1>0, <1>4 DEF Accept, Running, filter, Placed
  <2>2. Ranked'
    BY <1>4, <2>1, AcceptRanks
  <2>3. ASSUME NEW d \in known' PROVE is_active'[d]
    BY <1>0, <1>4, <2>1 DEF Accept, Placed, TypeOK
  <2>4. Placed'
    BY <2>1, <2>3 DEF Placed
  <2> QED BY <2>1, <2>2, <2>4 DEF Inv
<1>5. ASSUME NEW l \in Listener, AcceptFails(l) PROVE Inv'
  BY <1>0, <1>1, <1>5 DEF AcceptFails, Placed, Running, list, client, filter
<1>6. CASE AcceptDone
  <2>1. Ranked /\ Placed /\ freed = {} /\ pc' = "clients" /\ cur' = head
    BY <1>0, <1>6 DEF AcceptDone, Running, Placed
  <2>2. cur' \in known \cup {NULL}
    BY <2>1 DEF Ranked, Chained
  <2>3. Placed'
    BY <1>6, <2>1, <2>2 DEF AcceptDone, Placed, Running, client, filter
  <2> QED BY <1>1, <1>6, <2>3 DEF AcceptDone, Running, list, filter
<1>7. CASE VisitRead
  <2>1. Placed /\ pc = "clients" /\ cur \in known
    BY <1>0, <1>7, ClientAssumption DEF VisitRead, Running, Placed, TypeOK
  <2>2. Placed'
    BY <1>7, <2>1 DEF VisitRead, Placed, client, filter
  <2> QED BY <1>1, <1>7, <2>2 DEF VisitRead, Running, list, filter
<1>8. CASE VisitDone
  <2>1. Ranked /\ Placed /\ cur \in known /\ freed = {} /\ cur' = next[cur]
    BY <1>0, <1>8 DEF VisitDone, Running, Placed
  <2>2. cur' \in known \cup {NULL}
    BY <2>1 DEF Ranked, Chained, Follows
  <2>3. Placed'
    BY <1>8, <2>1, <2>2 DEF VisitDone, Running, Placed, client, filter
  <2> QED BY <1>1, <1>8, <2>3 DEF VisitDone, Running, list, filter
<1>9. ASSUME pc = "reading", fault = "none",
             NEW targets \in SUBSET known, Send(targets)
      PROVE  fault' = "none"
  <2>1. Ranked /\ freed = {}
    BY <1>0, <1>9 DEF Placed
  <2> PICK r \in Ranks : Chained(r)
    BY <2>1 DEF Ranked
  <2> QED BY <1>9, <2>1, SendFinds
<1>10. CASE Line
  <2>1. Placed /\ pc = "reading" /\ fault = "none" /\ cur \in known
    BY <1>0, <1>10 DEF Line, Running, Placed
  <2>2. PICK others \in SUBSET known : Send(others \cup {cur})
    BY <1>10, <2>1 DEF Line
  <2>3. others \cup {cur} \in SUBSET known
    BY <2>1
  <2>4. fault' = "none"
    BY <1>9, <2>1, <2>2, <2>3
  <2>5. Placed'
    BY <1>10, <2>1 DEF Line, Placed, filter
  <2> QED BY <1>1, <1>10, <2>1, <2>4, <2>5 DEF Line, list, filter
<1>11. CASE Quit
  <2>1. Placed /\ pc = "reading" /\ fault = "none" /\ cur \in known
    BY <1>0, <1>11 DEF Quit, Running, Placed
  <2>2. fault' = "none"
    BY <1>9, <1>11, <2>1 DEF Quit
  <2>3. Placed'
    BY <1>0, <1>11, <2>1 DEF Quit, Placed, filter, TypeOK
  <2> QED BY <1>1, <1>11, <2>1, <2>2, <2>3 DEF Quit, list, filter
<1>12. CASE BadSyntax
  BY <1>12 DEF BadSyntax, Inv
<1>13. CASE InputEmpty \/ InputFails
  <2>1. Placed'
    BY <1>0, <1>13 DEF InputEmpty, InputFails, Running, Placed, client, filter
  <2> QED BY <1>1, <1>13, <2>1 DEF InputEmpty, InputFails, Running, list, filter
<1>14. CASE InputEnds
  <2>1. Placed'
    BY <1>0, <1>14 DEF InputEnds, Running, Placed, filter, TypeOK
  <2> QED BY <1>1, <1>14, <2>1 DEF InputEnds, Running, list, filter
<1>15. CASE VisitedAll
  <2>1. Ranked /\ Placed
    BY <1>0, <1>15 DEF VisitedAll, Running
  <2>2. Ranked' /\ Placed'
    BY <1>15, <2>1, FilterStarts DEF VisitedAll, Running, Placed, client
  <2> QED BY <1>15, <2>2 DEF VisitedAll, Running, Inv
<1>16. CASE FilterKeep
  <2>1. Ranked /\ Placed
    BY <1>0, <1>16 DEF FilterKeep, Running
  <2>2. Ranked' /\ Placed'
    BY <1>16, <2>1, KeepRanks DEF FilterKeep, Running, Placed, client
  <2> QED BY <1>16, <2>2 DEF FilterKeep, Running, Inv
<1>17. CASE FilterDelete
  <2>1. Ranked /\ Placed
    BY <1>0, <1>17 DEF FilterDelete, Running
  <2>2. Ranked' /\ Placed'
    BY <1>17, <2>1, DeleteRanks DEF FilterDelete, Running, Placed
  <2>3. PICK targets \in SUBSET known : Send(targets)
    BY <1>17 DEF FilterDelete
  <2>4. fault' # "fatal"
    <3> PICK r \in Ranks : Chained(r)
      BY <2>1 DEF Ranked
    <3> QED BY <2>3, SendFinds
  <2> QED BY <2>2, <2>4 DEF Inv
<1>18. CASE FilterEnd
  <2>1. Ranked /\ Placed
    BY <1>0, <1>18 DEF FilterEnd, Running
  <2>2. Ranked' /\ \A d \in known : is_active[d]
    BY <1>18, <2>1, EndRanks
  <2>3. Placed'
    BY <1>18, <2>1, <2>2 DEF FilterEnd, Running, Placed, client
  <2> QED BY <1>18, <2>2, <2>3 DEF FilterEnd, Running, Inv
<1>19. CASE Terminate
  <2>1. Ranked /\ Placed /\ fault = "none" /\ fault' = "none"
    BY <1>0, <1>19 DEF Terminate
  <2>2. pc' = pc \/ (pc = "select" /\ pc' = "test")
    BY <1>19 DEF Terminate
  <2>3. UNCHANGED <<list, client, cur, filter, known>>
    BY <1>19 DEF Terminate
  <2>4. Placed'
    BY <2>1, <2>2, <2>3 DEF Placed, client, filter
  <2>5. CASE pc = "filter"
    BY <2>1, <2>2, <2>3, <2>4, <2>5
       DEF Inv, Ranked, Chained, Follows, Filtering, Passed, list, filter, client
  <2>6. CASE pc # "filter"
    BY <1>1, <2>1, <2>2, <2>3, <2>4, <2>6 DEF filter
  <2> QED BY <2>5, <2>6
<1>20. CASE UNCHANGED <<list, client, pc, cur, filter, known, fault>>
  BY <1>20 DEF Inv, Ranked, Chained, Follows, Filtering, Passed, Placed, list, filter, client
<1>21. ASSUME NEW c \in Client, NEW broken \in BOOLEAN, PeerLeaves(c, broken)
       PROVE  Inv'
  BY <1>20, <1>21 DEF PeerLeaves
<1>22. CASE UNCHANGED vars
  BY <1>20, <1>22 DEF vars
<1> QED BY <1>2, <1>3, <1>4, <1>5, <1>6, <1>7, <1>8, <1>10, <1>11, <1>12, <1>13, <1>14,
           <1>15, <1>16, <1>17, <1>18, <1>19, <1>21, <1>22 DEF Next, Loop, Reading

(* They therefore hold always. *)
LEMMA InvHolds == Spec => []Inv
<1>1. Init => Inv
  BY InvInit
<1>2. TypeOK /\ Inv /\ [Next]_vars => Inv'
  BY InvNext
<1> QED BY <1>1, <1>2, TypeCorrect, PTL DEF Spec

(* No find_client ever fails, with any number of connections and whatever   *)
(* the server sends to whom in its callbacks.                               *)
THEOREM NeverFatalHolds == Spec => []NeverFatal
<1>1. Inv => NeverFatal
  BY DEF Inv, NeverFatal
<1> QED BY <1>1, InvHolds, PTL

(* However many clients list_filter takes out, and from wherever in the     *)
(* list, the list goes on to hold exactly the clients that are connected.   *)
THEOREM ListStaysIntact == Spec => []ListIntact
<1>1. TypeOK /\ Inv => ListIntact
  <2> SUFFICES ASSUME TypeOK, Inv, fault = "none",
                      pc \in {"test", "select", "accept", "done"}
               PROVE  /\ Linked = known
                      /\ Node[Cardinality(Client)] = NULL
                      /\ freed = {}
                      /\ \A c \in known : is_active[c]
    BY DEF ListIntact
  <2>1. Ranked /\ Placed /\ freed = {}
    BY DEF Inv, Placed
  <2> PICK r \in Ranks : Chained(r)
    BY <2>1 DEF Ranked
  <2>2. Linked = known /\ Node[Cardinality(Client)] = NULL
    BY <2>1, WalkFindsAll
  <2> QED BY <2>1, <2>2 DEF Placed
<1> QED BY <1>1, InvHolds, TypeCorrect, PTL

-----------------------------------------------------------------------------
(* Whose end is due in a pass *)

(* Of those due, whoever is still active is to be read: the walk over the    *)
(* clients has not come past them.                                          *)
Unvisited(r) ==
  \A c \in gone : is_active[c] =>
    \/ c \in fds_read /\ cur # NULL /\ r[cur] <= r[c]
    \/ pc = "reading" /\ c = cur

Walk == {"clients", "reading"}

(* Only who is at an end is inactive.                                       *)
EndsInv == \A c \in known : ~is_active[c] => AtEnd(c)

DueInv ==
  /\ pc \in Walk \cup {"accept"} => \A c \in gone : c \in known /\ AtEnd(c)
  /\ pc = "accept" => gone \subseteq fds_read
  /\ pc \in Walk => \E r \in Ranks : Chained(r) /\ Unvisited(r)
  /\ pc = "filter" => \A c \in gone \cap known : ~is_active[c]

PassInv == fault = "none" => EndsInv /\ DueInv

(* Who is at an end stays there, or gets there. *)
LEMMA EndsKept ==
  ASSUME TypeOK, EndsInv, known' \subseteq known,
         \A c \in known' : is_active'[c] = is_active[c],
         \A c \in known' : (eof[c] => eof'[c]) /\ (is_dropped[c] => is_dropped'[c])
  PROVE  EndsInv'
BY DEF EndsInv, AtEnd

(* A step aside of the walk changes nothing of what is due. *)
LEMMA DueKept ==
  ASSUME TypeOK, DueInv, UNCHANGED <<head, next, known, freed, is_active, cur, fds_read>>,
         pc' = pc, gone' = gone,
         \A c \in known' : (eof[c] => eof'[c]) /\ (is_dropped[c] => is_dropped'[c])
  PROVE  DueInv'
<1>1. pc' \in Walk \cup {"accept"} => \A c \in gone' : c \in known' /\ AtEnd(c)'
  BY DEF DueInv, AtEnd
<1>2. pc' \in Walk => \E r \in Ranks : Chained(r)' /\ Unvisited(r)'
  BY DEF DueInv, Unvisited, Chained, Follows
<1> QED BY <1>1, <1>2 DEF DueInv

(* The reader cur has been dealt with: it is inactive, or not due.          *)
LEMMA DueRead ==
  ASSUME TypeOK, DueInv, pc = "reading", pc' = "clients",
         UNCHANGED <<head, next, known, freed, cur, fds_read, eof, is_dropped>>,
         \A c \in known \ {cur} : is_active'[c] = is_active[c],
         cur \in known,
         \/ gone' \subseteq gone \ {cur}
         \/ gone' \subseteq gone \cup {cur} /\ ~is_active'[cur] /\ AtEnd(cur)
  PROVE  DueInv'
<1>1. \A c \in gone' : c \in known' /\ AtEnd(c)'
  BY DEF DueInv, AtEnd, Walk
<1>2. PICK r \in Ranks : Chained(r) /\ Unvisited(r)
  BY DEF DueInv, Walk
<1>3. Chained(r)'
  BY <1>2, ChainKept
<1>4. ASSUME NEW c \in gone', is_active'[c]
      PROVE  c \in fds_read' /\ cur' # NULL /\ r[cur'] <= r[c]
  <2>1. c # cur /\ c \in gone /\ c \in known /\ is_active[c]
    BY <1>4 DEF DueInv, Walk
  <2> QED BY <1>2, <2>1 DEF Unvisited
<1>5. Unvisited(r)'
  BY <1>4 DEF Unvisited
<1> QED BY <1>1, <1>3, <1>5 DEF DueInv, Walk

(* Every step keeps account of whose end is due. *)
LEMMA PassInvStep ==
  ASSUME TypeOK, Inv, PassInv, [Next]_vars
  PROVE  PassInv'
<1> SUFFICES ASSUME fault' = "none" PROVE EndsInv' /\ DueInv'
  BY DEF PassInv
<1>0. /\ fault = "none" => Ranked /\ Placed /\ EndsInv /\ DueInv
      /\ known \subseteq Client
  BY DEF Inv, PassInv, TypeOK
<1>1. CASE Run \/ Test
  <2>1. /\ fault = "none" /\ pc' \in {"test", "select", "done"}
        /\ UNCHANGED <<known, is_active, is_dropped, eof>>
    BY <1>1 DEF Run, Test, Running, client, peer
  <2> QED BY <1>0, <2>1, EndsKept DEF DueInv, Walk
<1>2. CASE Select
  <2>1. /\ fault = "none" /\ pc = "select" /\ pc' = "accept"
        /\ UNCHANGED <<known, is_active, is_dropped, eof>>
        /\ gone' \subseteq {c \in Linked : AtEnd(c)}
        /\ \A c \in Linked : AtEnd(c) => c \in fds_read'
    BY <1>2 DEF Select, Running, client
  <2>2. Linked = known
    <3>1. freed = {} /\ Ranked
      BY <1>0, <2>1 DEF Placed
    <3> PICK r \in Ranks : Chained(r)
      BY <3>1 DEF Ranked
    <3> QED BY <3>1, WalkFindsAll
  <2>3. \A c \in gone' : c \in known' /\ AtEnd(c)' /\ c \in fds_read'
    BY <2>1, <2>2 DEF AtEnd
  <2> QED BY <1>0, <2>1, <2>3, EndsKept DEF DueInv, Walk
<1>3. ASSUME NEW l \in Listener, NEW c \in Client, Accept(l, c) PROVE EndsInv' /\ DueInv'
  <2>1. /\ fault = "none" /\ pc = "accept" /\ pc' = "accept"
        /\ known' = known \cup {c} /\ c \notin known
        /\ is_active' = [is_active EXCEPT ![c] = TRUE]
        /\ is_dropped' = [is_dropped EXCEPT ![c] = FALSE]
        /\ UNCHANGED <<eof, gone, fds_read>>
    BY <1>3 DEF Accept, Running, peer
  <2>2. EndsInv'
    BY <1>0, <2>1 DEF EndsInv, AtEnd, TypeOK
  <2>3. \A d \in gone' : d \in known' /\ AtEnd(d)'
    BY <1>0, <2>1 DEF DueInv, AtEnd, TypeOK, Walk
  <2> QED BY <1>0, <2>1, <2>2, <2>3 DEF DueInv, Walk
<1>4. ASSUME NEW l \in Listener, AcceptFails(l) PROVE EndsInv' /\ DueInv'
  BY <1>0, <1>4, EndsKept, DueKept
     DEF AcceptFails, Running, list, client, filter, peer
<1>5. CASE AcceptDone
  <2>1. /\ fault = "none" /\ pc = "accept" /\ pc' = "clients" /\ cur' = head
        /\ UNCHANGED <<list, known, freed, is_active, is_dropped, eof, gone, fds_read>>
    BY <1>5 DEF AcceptDone, Running, client, filter, peer, fds
  <2>2. Ranked /\ freed = {}
    BY <1>0, <2>1 DEF Placed
  <2>3. PICK r \in Ranks : Chained(r)
    BY <2>2 DEF Ranked
  <2>4. Chained(r)'
    BY <2>1, <2>3, ChainKept DEF list
  <2>5. \A c \in gone : c \in known /\ AtEnd(c) /\ c \in fds_read
    BY <1>0, <2>1 DEF DueInv, Walk
  <2>6. \A c \in gone : head # NULL /\ r[head] <= r[c]
    BY <2>3, <2>5 DEF Chained
  <2>7. Unvisited(r)'
    BY <2>1, <2>5, <2>6 DEF Unvisited
  <2>8. \A c \in gone' : c \in known' /\ AtEnd(c)'
    BY <2>1, <2>5 DEF AtEnd
  <2> QED BY <1>0, <2>1, <2>4, <2>7, <2>8, EndsKept DEF DueInv, Walk
<1>6. CASE VisitRead
  <2>1. /\ fault = "none" /\ pc = "clients" /\ pc' = "reading"
        /\ fds_read' = fds_read \ {cur} /\ cur \in fds_read
        /\ UNCHANGED <<list, known, freed, cur, is_active, is_dropped, eof, gone>>
    BY <1>6 DEF VisitRead, Running, client, filter, peer
  <2>2. PICK r \in Ranks : Chained(r) /\ Unvisited(r)
    BY <1>0, <2>1 DEF DueInv, Walk
  <2>3. Chained(r)'
    BY <2>1, <2>2, ChainKept DEF list
  <2>4. Unvisited(r)'
    BY <2>1, <2>2 DEF Unvisited
  <2>5. \A c \in gone' : c \in known' /\ AtEnd(c)'
    BY <1>0, <2>1 DEF DueInv, Walk, AtEnd
  <2> QED BY <1>0, <2>1, <2>3, <2>4, <2>5, EndsKept DEF DueInv, Walk
<1>7. CASE VisitDone
  <2>1. /\ fault = "none" /\ pc = "clients" /\ pc' = "clients"
        /\ cur # NULL /\ cur \notin fds_read /\ cur' = next[cur]
        /\ UNCHANGED <<list, known, freed, is_active, is_dropped, eof, gone, fds_read>>
    BY <1>7 DEF VisitDone, Running, filter, peer
  <2>2. PICK r \in Ranks : Chained(r) /\ Unvisited(r)
    BY <1>0, <2>1 DEF DueInv, Walk
  <2>3. Chained(r)'
    BY <2>1, <2>2, ChainKept DEF list
  <2>4. cur \in known /\ freed = {}
    BY <1>0, <2>1 DEF Placed
  <2>5. Follows(r, next[cur], r[cur])
    BY <2>2, <2>4 DEF Chained
  <2>6. \A c \in gone : c \in known /\ AtEnd(c)
    BY <1>0, <2>1 DEF DueInv, Walk
  <2>7. ASSUME NEW c \in gone, is_active[c]
        PROVE  c \in fds_read /\ next[cur] # NULL /\ r[next[cur]] <= r[c]
    <3>1. c \in fds_read /\ r[cur] <= r[c] /\ c # cur
      BY <2>1, <2>2, <2>7 DEF Unvisited
    <3>2. r[cur] < r[c]
      <4>1. r[c] # r[cur]
        BY <2>2, <2>4, <2>6, <3>1 DEF Chained
      <4>2. r[c] \in Int /\ r[cur] \in Int
        BY <1>0, <2>4, <2>6 DEF Ranks
      <4> QED BY <3>1, <4>1, <4>2
    <3>3. r[c] \in Int /\ r[cur] \in Int /\ c \in known
      BY <1>0, <2>4, <2>6 DEF Ranks
    <3> QED BY <2>5, <3>1, <3>2, <3>3 DEF Follows
  <2>8. Unvisited(r)'
    BY <2>1, <2>7 DEF Unvisited
  <2>9. \A c \in gone' : c \in known' /\ AtEnd(c)'
    BY <2>1, <2>6 DEF AtEnd
  <2> QED BY <1>0, <2>1, <2>3, <2>8, <2>9, EndsKept DEF DueInv, Walk
<1>8. CASE Line
  <2>1. /\ fault = "none" /\ UNCHANGED <<list, filter, known, cur, fds, is_active, is_dropped,
                                         pc, peer>>
    BY <1>8 DEF Line, Running
  <2> QED BY <1>0, <2>1, EndsKept, DueKept DEF list, filter, fds, peer
<1>9. CASE Quit
  <2>1. /\ fault = "none" /\ pc = "reading" /\ pc' = "reading"
        /\ is_dropped' = [is_dropped EXCEPT ![cur] = TRUE]
        /\ gone' = gone \cup {cur}
        /\ UNCHANGED <<list, known, freed, cur, fds_read, is_active, eof>>
    BY <1>9 DEF Quit, Running, filter, fds
  <2>2. cur \in known
    BY <1>0, <2>1 DEF Placed
  <2>3. \A c \in Client : is_dropped[c] => is_dropped'[c]
    BY <2>1 DEF TypeOK
  <2>4. AtEnd(cur)'
    BY <1>0, <2>1, <2>2 DEF AtEnd, TypeOK
  <2>5. PICK r \in Ranks : Chained(r) /\ Unvisited(r)
    BY <1>0, <2>1 DEF DueInv, Walk
  <2>6. Chained(r)'
    BY <2>1, <2>5, ChainKept DEF list
  <2>7. Unvisited(r)'
    BY <2>1, <2>5 DEF Unvisited
  <2>8. \A c \in gone' : c \in known' /\ AtEnd(c)'
    <3>1. \A c \in gone : c \in known /\ AtEnd(c)
      BY <1>0, <2>1 DEF DueInv, Walk
    <3>2. \A c \in gone : AtEnd(c)'
      BY <1>0, <2>1, <2>3, <3>1 DEF AtEnd
    <3> QED BY <2>1, <2>2, <2>4, <3>1, <3>2
  <2>9. EndsInv'
    BY <1>0, <2>1, <2>3, EndsKept
  <2> QED BY <2>1, <2>6, <2>7, <2>8, <2>9 DEF DueInv, Walk
<1>10. CASE BadSyntax
  BY <1>10 DEF BadSyntax
<1>11. CASE InputEmpty
  <2>1. /\ fault = "none" /\ pc = "reading" /\ pc' = "clients" /\ ~AtEnd(cur)
        /\ UNCHANGED <<list, known, freed, cur, fds_read, is_active, is_dropped, eof, gone>>
    BY <1>11 DEF InputEmpty, Running, filter, fds, client, peer
  <2>2. cur \in known /\ cur \notin gone
    BY <1>0, <2>1 DEF Placed, DueInv, Walk
  <2>3. gone' \subseteq gone \ {cur}
    BY <2>1, <2>2
  <2>4. DueInv'
    BY <1>0, <2>1, <2>2, <2>3, DueRead DEF list
  <2> QED BY <1>0, <2>1, <2>4, EndsKept
<1>12. CASE InputFails
  <2>1. /\ fault = "none" /\ pc = "reading" /\ pc' = "clients" /\ gone' = gone \ {cur}
        /\ UNCHANGED <<list, known, freed, cur, fds_read, is_active, is_dropped, eof>>
    BY <1>12 DEF InputFails, Running, filter, fds, client
  <2>2. cur \in known
    BY <1>0, <2>1 DEF Placed
  <2>3. DueInv'
    BY <1>0, <2>1, <2>2, DueRead DEF list
  <2> QED BY <1>0, <2>1, <2>3, EndsKept
<1>13. CASE InputEnds
  <2>1. /\ fault = "none" /\ pc = "reading" /\ pc' = "clients" /\ gone' = gone \cup {cur}
        /\ AtEnd(cur)
        /\ is_active' = [is_active EXCEPT ![cur] = FALSE]
        /\ UNCHANGED <<list, known, freed, cur, fds_read, is_dropped, eof>>
    BY <1>13 DEF InputEnds, Running, filter, fds
  <2>2. cur \in known
    BY <1>0, <2>1 DEF Placed
  <2>3. ~is_active'[cur] /\ \A c \in known \ {cur} : is_active'[c] = is_active[c]
    BY <1>0, <2>1, <2>2 DEF TypeOK
  <2>4. DueInv'
    BY <1>0, <2>1, <2>2, <2>3, DueRead DEF list
  <2>5. EndsInv'
    BY <1>0, <2>1, <2>3 DEF EndsInv, AtEnd
  <2> QED BY <2>4, <2>5
<1>14. CASE VisitedAll
  <2>1. /\ fault = "none" /\ pc = "clients" /\ pc' = "filter" /\ cur = NULL
        /\ UNCHANGED <<known, is_active, is_dropped, eof, gone>>
    BY <1>14 DEF VisitedAll, Running, client, peer
  <2>2. \A c \in gone : ~is_active[c]
    BY <1>0, <2>1 DEF DueInv, Walk, Unvisited
  <2> QED BY <1>0, <2>1, <2>2, EndsKept DEF DueInv, Walk
<1>15. CASE FilterKeep
  <2>1. /\ fault = "none" /\ pc = "filter" /\ pc' = "filter"
        /\ UNCHANGED <<known, is_active, is_dropped, eof, gone>>
    BY <1>15 DEF FilterKeep, Running, client, peer
  <2> QED BY <1>0, <2>1, EndsKept DEF DueInv, Walk
<1>16. CASE FilterDelete
  <2>1. /\ fault = "none" /\ pc = "filter" /\ pc' = "filter"
        /\ known' = known \ {cur} /\ eof' = [eof EXCEPT ![cur] = FALSE]
        /\ UNCHANGED <<is_active, is_dropped, gone>>
    BY <1>16 DEF FilterDelete, Running
  <2>2. \A c \in known' : eof'[c] = eof[c]
    BY <1>0, <2>1 DEF TypeOK
  <2>3. EndsInv'
    BY <1>0, <2>1, <2>2, EndsKept
  <2> QED BY <1>0, <2>1, <2>3 DEF DueInv, Walk
<1>17. CASE FilterEnd
  <2>1. /\ fault = "none" /\ pc' = "test"
        /\ UNCHANGED <<known, is_active, is_dropped, eof>>
    BY <1>17 DEF FilterEnd, Running, client
  <2> QED BY <1>0, <2>1, EndsKept DEF DueInv, Walk
<1>18. CASE Terminate
  <2>1. /\ fault = "none" /\ (pc' = pc \/ pc' = "test")
        /\ UNCHANGED <<list, freed, known, cur, fds_read, is_active, is_dropped, eof, gone>>
    BY <1>18 DEF Terminate, client, filter, fds
  <2>2. CASE pc' = pc
    BY <1>0, <2>1, <2>2, EndsKept, DueKept DEF list
  <2>3. CASE pc' = "test"
    BY <1>0, <2>1, <2>3, EndsKept DEF DueInv, Walk
  <2> QED BY <2>1, <2>2, <2>3
<1>19. ASSUME NEW c \in Client, NEW broken \in BOOLEAN, PeerLeaves(c, broken)
       PROVE  EndsInv' /\ DueInv'
  <2>1. /\ fault' = fault /\ eof' = [eof EXCEPT ![c] = TRUE]
        /\ UNCHANGED <<list, freed, known, cur, fds_read, is_active, is_dropped, gone, pc>>
    BY <1>19 DEF PeerLeaves, client, filter, fds
  <2>2. \A d \in known' : eof[d] => eof'[d]
    BY <1>0, <2>1 DEF TypeOK
  <2> QED BY <1>0, <2>1, <2>2, EndsKept, DueKept DEF list
<1>20. CASE UNCHANGED vars
  <2>1. UNCHANGED <<list, filter, known, cur, fds, client, pc, peer, fault>>
    BY <1>20 DEF vars
  <2> QED BY <1>0, <2>1, EndsKept, DueKept DEF list, filter, fds, peer, client
<1> QED BY <1>1, <1>2, <1>3, <1>4, <1>5, <1>6, <1>7, <1>8, <1>9, <1>10, <1>11, <1>12, <1>13,
           <1>14, <1>15, <1>16, <1>17, <1>18, <1>19, <1>20 DEF Next, Loop, Reading

(* Who had hung up when select() returned, whose end is read in a pass and   *)
(* who is dropped in it is deleted before the pass is over, but for those   *)
(* of whom recv() reports an error; and nobody else is deleted.             *)
THEOREM DeadAreAlwaysDeleted == Spec => DeadAreDeleted
<1>1. TypeOK /\ Inv /\ PassInv /\ [Next]_vars =>
        [/\ pc = "filter" /\ pc' = "test" => gone \cap known' = {}
         /\ \A c \in known \ known' : AtEnd(c)]_vars
  <2> SUFFICES ASSUME TypeOK, Inv, PassInv, Next
               PROVE  /\ pc = "filter" /\ pc' = "test" => gone \cap known' = {}
                      /\ \A c \in known \ known' : AtEnd(c)
    OBVIOUS
  <2>1. CASE FilterEnd
    <3>1. Ranked /\ Placed /\ known' = known /\ pc = "filter" /\ EndsInv /\ DueInv
      BY <2>1 DEF FilterEnd, Running, Inv, PassInv
    <3>2. \A c \in known : is_active[c]
      BY <2>1, <3>1, EndRanks
    <3> QED BY <3>1, <3>2 DEF DueInv
  <2>2. CASE FilterDelete
    <3>1. known' = known \ {cur} /\ pc' = pc /\ Dead(cur) /\ fault = "none" /\ pc = "filter"
      BY <2>2 DEF FilterDelete, Running
    <3>2. EndsInv
      BY <3>1 DEF PassInv
    <3> QED BY <3>1, <3>2 DEF EndsInv, Dead, AtEnd
  <2>3. CASE ~FilterEnd /\ ~FilterDelete
    <3>1. CASE Terminate
      BY <3>1 DEF Terminate
    <3>2. ASSUME NEW c \in Client, NEW broken \in BOOLEAN, PeerLeaves(c, broken)
          PROVE  known' = known /\ pc' = pc
      BY <3>2 DEF PeerLeaves
    <3>3. CASE Reading
      BY <3>3 DEF Reading, Line, Quit, BadSyntax, InputEmpty, InputFails, InputEnds, Running
    <3>4. CASE Run \/ Test \/ Select \/ AcceptDone \/ VisitRead \/ VisitDone \/ VisitedAll
      BY <3>4 DEF Run, Test, Select, AcceptDone, VisitRead, VisitDone, VisitedAll, Running
    <3>5. ASSUME NEW l \in Listener, NEW c \in Client, Accept(l, c)
          PROVE  known \subseteq known' /\ pc' = pc
      BY <3>5 DEF Accept
    <3>6. ASSUME NEW l \in Listener, AcceptFails(l)
          PROVE  known' = known /\ pc' = pc
      BY <3>6 DEF AcceptFails
    <3>7. CASE FilterKeep
      BY <3>7 DEF FilterKeep
    <3> QED BY <2>3, <3>1, <3>2, <3>3, <3>4, <3>5, <3>6, <3>7 DEF Next, Loop
  <2> QED BY <2>1, <2>2, <2>3
<1>2. Init => PassInv
  BY DEF Init, PassInv, EndsInv, DueInv, Walk
<1>3. TypeOK /\ Inv /\ PassInv /\ [Next]_vars => PassInv'
  BY PassInvStep
<1> QED BY <1>1, <1>2, <1>3, InvHolds, TypeCorrect, PTL DEF Spec, DeadAreDeleted
=============================================================================
