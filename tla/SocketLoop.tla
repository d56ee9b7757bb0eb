----------------------------- MODULE SocketLoop -----------------------------
(***************************************************************************)
(* core/socket_loop.c: the select() loop that owns the connections, with   *)
(* the pointer structure of its list of clients (core/list.c) and the      *)
(* callbacks into the server (server/main.c), which send to clients while  *)
(* that list is being walked or filtered.                                  *)
(*                                                                         *)
(* A client stands for its descriptor, its SocketLoopClient and its list   *)
(* node.  Lines are told apart only by what they make the loop do; a send  *)
(* queue only by whether it is empty.  Which clients the server sends to   *)
(* in a callback depends on the game: any of those it knows.               *)
(* Beside the loop run the peers and the signal handler.  Definitions that  *)
(* begin with "Slip" are plausible slips in the code, kept beside the       *)
(* definitions they would change.                                           *)
(***************************************************************************)
EXTENDS Naturals, FiniteSets

CONSTANTS
  Client,     \* connections
  Listener,   \* listening sockets
  NULL,       \* the end of a list
  Root,       \* the address of list_filter's local variable root
  MayStop     \* is the server ever asked to stop?

ASSUME ClientAssumption  == IsFiniteSet(Client) /\ NULL \notin Client /\ Root \notin Client
ASSUME StopAssumption    == MayStop \in BOOLEAN

VARIABLES
  \* SocketLoop
  head,         \* loop->clients
  next,         \* the next pointer of each client's node
  do_continue,
  \* SocketLoopClient
  is_active,
  is_dropped,
  backlog,      \* !smq_is_empty(client->smq)
  \* the running call
  pc,           \* where socketloop_run is
  cur,          \* the node FOREACH or list_filter has come to
  link, root,   \* list_filter: the pointer to set next, and the new list
  freed,        \* nodes that list_filter has freed so far
  fds_accept, fds_read, fds_send,
  \* outside
  known,        \* the clients the server has been told of
  eof,          \* the peer is gone: nothing more will come from it
  reset,        \* those of them that left an error for recv() to report
  asked,        \* a termination signal has arrived
  fault,        \* "none", "fatal", "null", and in freed memory "stale", "astray"
  \* a history variable, which the loop does not read
  gone          \* those whose end is due in this pass: see the property below

list   == <<head, next>>
client == <<is_active, is_dropped, backlog>>
filter == <<link, root, freed>>
fds    == <<fds_accept, fds_read, fds_send>>
peer   == <<eof, reset, asked, gone>>
vars   == <<list, do_continue, client, pc, cur, filter, fds, known, peer, fault>>

Running(where) == pc = where /\ fault = "none"

-----------------------------------------------------------------------------
(* find_client: follow the list from loop->clients. *)

(* The node after i steps along the next pointers *)
Node[i \in 0 .. Cardinality(Client)] ==
  IF i = 0 THEN head
  ELSE IF Node[i - 1] = NULL THEN NULL ELSE next[Node[i - 1]]

Linked == {Node[i] : i \in DOMAIN Node} \ {NULL}

(* The nodes read on the way to d, all of the list if d is not on it *)
ReadOnTheWay(d) ==
  {Node[i] : i \in {j \in DOMAIN Node : \A k \in 0 .. j - 1 : Node[k] # d}} \ {NULL}

(* socketloop_send to each of targets: find_client, smq_enqueue and         *)
(* smq_try_send.  The kernel takes everything or leaves a backlog.  Reading *)
(* a freed node goes unnoticed, ends the program, or leads the walk astray  *)
(* and into fatal() although the client is there.                           *)
Send(targets) ==
  /\ \E full \in SUBSET targets :
       backlog' = [c \in Client |-> IF c \in targets THEN c \in full ELSE backlog[c]]
  /\ IF \E d \in targets : ReadOnTheWay(d) \cap freed # {}
       THEN fault' \in {"none", "stale", "astray"}
     ELSE IF targets \subseteq Linked THEN fault' = "none"
     ELSE fault' = "fatal"

-----------------------------------------------------------------------------
(* main: handlers are installed and the sockets listen; calloc has cleared  *)
(* the loop.                                                                *)

Init ==
  /\ head = NULL /\ next = [c \in Client |-> NULL]
  /\ do_continue = FALSE
  /\ is_active = [c \in Client |-> FALSE]
  /\ is_dropped = [c \in Client |-> FALSE]
  /\ backlog = [c \in Client |-> FALSE]
  /\ pc = "boot" /\ cur = NULL
  /\ link = Root /\ root = NULL /\ freed = {}
  /\ fds_accept = {} /\ fds_read = {} /\ fds_send = {}
  /\ known = {}
  /\ eof = [c \in Client |-> FALSE] /\ reset = {}
  /\ asked = FALSE
  /\ fault = "none"
  /\ gone = {}

(* terminate_handler: socketloop_stop, between any two steps.  A select()   *)
(* that waits is interrupted, but not one that has yet to begin.            *)
Terminate ==
  /\ MayStop /\ ~asked /\ pc # "done" /\ fault = "none"
  /\ asked' = TRUE
  /\ do_continue' = FALSE
  /\ \/ pc = "select" /\ pc' = "test"
     \/ UNCHANGED pc
  /\ UNCHANGED <<list, client, cur, filter, fds, known, eof, reset, gone, fault>>

(* The peer closes its end of the connection, or breaks it: a reset.        *)
PeerLeaves(c, broken) ==
  /\ c \in known /\ ~eof[c]
  /\ eof' = [eof EXCEPT ![c] = TRUE]
  /\ reset' = IF broken THEN reset \cup {c} ELSE reset
  /\ UNCHANGED <<list, do_continue, client, pc, cur, filter, fds, known, asked, gone, fault>>

-----------------------------------------------------------------------------
(* socketloop_run *)

Run ==
  /\ Running("boot")
  /\ do_continue' = TRUE
  /\ pc' = "test"
  /\ UNCHANGED <<list, client, cur, filter, fds, known, peer, fault>>

SlipForEver ==   \* do_continue is not looked at
  /\ Running("test")
  /\ pc' = "select"
  /\ UNCHANGED <<list, do_continue, client, cur, filter, fds, known, peer, fault>>

(* The while condition, then fill_fd_set *)
Test ==
  /\ Running("test")
  /\ pc' = IF do_continue THEN "select" ELSE "done"
  /\ UNCHANGED <<list, do_continue, client, cur, filter, fds, known, peer, fault>>

(* select() returns when a descriptor is ready.  One at the end of its      *)
(* input, which a dropped one is at once, is ready at once: its end is due  *)
(* in this pass, unless an error is to be reported first.                   *)
AtEnd(c) == eof[c] \/ is_dropped[c]

Select ==
  /\ Running("select")
  /\ fds_accept' \in SUBSET Listener
  /\ fds_read' \in {R \in SUBSET Linked : \A c \in Linked : AtEnd(c) => c \in R}
  /\ fds_send' \in SUBSET {c \in Linked : backlog[c]}
  /\ fds_accept' # {} \/ fds_read' # {} \/ fds_send' # {}
  /\ pc' = "accept"
  /\ gone' = {c \in Linked : AtEnd(c)} \ reset
  /\ UNCHANGED <<list, do_continue, client, cur, filter, known, eof, reset, asked, fault>>

(* check_events, over the listeners.  socketloop_add_client pushes the new  *)
(* client and reports it; the server greets it.                             *)
Accept(l, c) ==
  /\ Running("accept")
  /\ l \in fds_accept /\ c \notin known
  /\ fds_accept' = fds_accept \ {l}
  /\ next' = [next EXCEPT ![c] = head]
  /\ head' = c
  /\ is_active' = [is_active EXCEPT ![c] = TRUE]
  /\ is_dropped' = [is_dropped EXCEPT ![c] = FALSE]
  /\ \E full \in BOOLEAN : backlog' = [backlog EXCEPT ![c] = full]
  /\ known' = known \cup {c}
  /\ UNCHANGED <<do_continue, pc, cur, filter, fds_read, fds_send, peer, fault>>

AcceptFails(l) ==
  /\ Running("accept")
  /\ l \in fds_accept
  /\ fds_accept' = fds_accept \ {l}
  /\ UNCHANGED <<list, do_continue, client, pc, cur, filter, fds_read, fds_send, known,
                 peer, fault>>

AcceptDone ==
  /\ Running("accept")
  /\ fds_accept = {}
  /\ pc' = "clients"
  /\ cur' = head
  /\ UNCHANGED <<list, do_continue, client, filter, fds, known, peer, fault>>

(* check_events, over the clients *)
VisitRead ==
  /\ Running("clients")
  /\ cur \in fds_read
  /\ pc' = "reading"
  /\ fds_read' = fds_read \ {cur}
  /\ UNCHANGED <<list, do_continue, client, cur, filter, fds_accept, fds_send, known, peer,
                 fault>>

(* smq_try_send if the socket can be written, and on to the next client *)
VisitDone ==
  /\ Running("clients")
  /\ cur # NULL /\ cur \notin fds_read
  /\ \E sent \in BOOLEAN :
       backlog' = IF cur \in fds_send /\ sent THEN [backlog EXCEPT ![cur] = FALSE] ELSE backlog
  /\ fds_send' = fds_send \ {cur}
  /\ cur' = next[cur]
  /\ UNCHANGED <<list, do_continue, is_active, is_dropped, pc, filter, fds_accept, fds_read,
                 known, peer, fault>>

(* read_data: one line after another, until the input is empty or at an     *)
(* end.  The server's find_client needs to know who sent the line; its      *)
(* reply goes to the sender, and broadcasts to any of the others.           *)
Line ==
  /\ Running("reading")
  /\ IF cur \in known
       THEN \E others \in SUBSET known : Send(others \cup {cur})
       ELSE fault' = "fatal" /\ UNCHANGED backlog
  /\ UNCHANGED <<list, do_continue, is_active, is_dropped, pc, cur, filter, fds, known, peer>>

(* "quit": socketloop_drop_client, which also ends the client's input.      *)
Quit ==
  /\ Running("reading")
  /\ Send({cur})
  /\ is_dropped' = [is_dropped EXCEPT ![cur] = TRUE]
  /\ gone' = gone \cup {cur}
  /\ UNCHANGED <<list, do_continue, is_active, pc, cur, filter, fds, known, eof, reset,
                 asked>>

(* A line the lexer refuses: the error is sent, the client is dropped, and  *)
(* lexer_delete dereferences the token list that is not there.              *)
BadSyntax ==
  /\ Running("reading")
  /\ \E full \in BOOLEAN : backlog' = [backlog EXCEPT ![cur] = full]
  /\ is_dropped' = [is_dropped EXCEPT ![cur] = TRUE]
  /\ fault' = "null"
  /\ gone' = gone \cup {cur}
  /\ UNCHANGED <<list, do_continue, is_active, pc, cur, filter, fds, known, eof, reset,
                 asked>>

(* recv() returns -1 (EAGAIN): no more input for now *)
InputEmpty ==
  /\ Running("reading")
  /\ ~AtEnd(cur)
  /\ pc' = "clients"
  /\ UNCHANGED <<list, do_continue, client, cur, filter, fds, known, peer, fault>>

(* recv() returns -1 (ECONNRESET): a warning, and the client is kept.  The  *)
(* error is reported once, the end of the input comes behind it.            *)
InputFails ==
  /\ Running("reading")
  /\ cur \in reset
  /\ reset' = reset \ {cur} /\ gone' = gone \ {cur}
  /\ pc' = "clients"
  /\ UNCHANGED <<list, do_continue, client, cur, filter, fds, known, eof, asked, fault>>

SlipEndIgnored ==   \* the client is not marked
  /\ Running("reading")
  /\ AtEnd(cur)
  /\ gone' = gone \cup {cur}
  /\ pc' = "clients"
  /\ UNCHANGED <<list, do_continue, client, cur, filter, fds, known, eof, reset, asked,
                 fault>>

(* recv() returns 0; a send may have met the error of a reset before it.    *)
InputEnds ==
  /\ Running("reading")
  /\ AtEnd(cur)
  /\ is_active' = [is_active EXCEPT ![cur] = FALSE]
  /\ gone' = gone \cup {cur}
  /\ pc' = "clients"
  /\ UNCHANGED <<list, do_continue, is_dropped, backlog, cur, filter, fds, known, eof, reset,
                 asked, fault>>

VisitedAll ==
  /\ Running("clients")
  /\ cur = NULL
  /\ pc' = "filter"
  /\ cur' = head
  /\ link' = Root
  /\ UNCHANGED <<list, do_continue, client, root, freed, fds, known, peer, fault>>

-----------------------------------------------------------------------------
(* list_filter(loop->clients, client_is_dead, client_destr) *)

Dead(c) == ~is_active[c] \/ (is_dropped[c] /\ ~backlog[c])

(* *link = node *)
SetLink(node) ==
  IF link = Root THEN root' = node /\ UNCHANGED next
                 ELSE next' = [next EXCEPT ![link] = node] /\ UNCHANGED root

FilterKeep ==
  /\ Running("filter")
  /\ cur # NULL /\ ~Dead(cur)
  /\ SetLink(cur)
  /\ link' = cur
  /\ cur' = next[cur]
  /\ UNCHANGED <<head, do_continue, client, pc, freed, fds, known, peer, fault>>

SlipUntold ==   \* the server is not told
  /\ Running("filter")
  /\ cur # NULL /\ Dead(cur)
  /\ freed' = freed \cup {cur}
  /\ cur' = next[cur]
  /\ UNCHANGED <<list, do_continue, client, pc, link, root, fds, known, peer, fault>>

(* delete_client, then list_pop.  The server is told first, while           *)
(* loop->clients is still the list as it was before the filter: it may send *)
(* to the client that leaves and to the others.  close() at last: the       *)
(* descriptor's next connection has an end of its own.                      *)
FilterDelete ==
  /\ Running("filter")
  /\ cur # NULL /\ Dead(cur)
  /\ \E targets \in SUBSET known : Send(targets)
  /\ known' = known \ {cur}
  /\ freed' = freed \cup {cur}
  /\ eof' = [eof EXCEPT ![cur] = FALSE] /\ reset' = reset \ {cur}
  /\ cur' = next[cur]
  /\ UNCHANGED <<list, do_continue, is_active, is_dropped, pc, link, root, fds, asked, gone>>

SlipUnterminated ==   \* the last link is not cut
  /\ Running("filter")
  /\ cur = NULL
  /\ head' = root /\ UNCHANGED <<next, root>>
  /\ freed' = {} /\ gone' = {}
  /\ pc' = "test"
  /\ UNCHANGED <<do_continue, client, cur, link, fds, known, eof, reset, asked, fault>>

SlipReturnsLink ==   \* the last link is returned for the first
  /\ Running("filter")
  /\ cur = NULL
  /\ SetLink(NULL)
  /\ head' = link
  /\ freed' = {} /\ gone' = {}
  /\ pc' = "test"
  /\ UNCHANGED <<do_continue, client, cur, link, fds, known, eof, reset, asked, fault>>

FilterEnd ==
  /\ Running("filter")
  /\ cur = NULL
  /\ SetLink(NULL)
  /\ head' = root'
  /\ freed' = {} /\ gone' = {}
  /\ pc' = "test"
  /\ UNCHANGED <<do_continue, client, cur, link, fds, known, eof, reset, asked, fault>>

-----------------------------------------------------------------------------
(* Specification *)

Reading == Line \/ Quit \/ BadSyntax \/ InputEmpty \/ InputFails \/ InputEnds

Loop ==
  \/ Run \/ Test \/ Select
  \/ \E l \in Listener, c \in Client : Accept(l, c)
  \/ \E l \in Listener : AcceptFails(l)
  \/ AcceptDone
  \/ VisitRead \/ VisitDone \/ VisitedAll
  \/ Reading
  \/ FilterKeep \/ FilterDelete \/ FilterEnd

Next ==
  \/ Loop
  \/ Terminate
  \/ \E c \in Client, broken \in BOOLEAN : PeerLeaves(c, broken)

Spec == Init /\ [][Next]_vars

(* The loop does not stand still except in select() with nothing to do, and *)
(* no peer sends so fast that its input never comes to an end.              *)
MustReturn == \E c \in Linked : AtEnd(c)
Fairness ==
  /\ WF_vars(Loop /\ (pc = "select" => MustReturn))
  /\ SF_vars(InputEmpty \/ InputFails \/ InputEnds)

FairSpec == Spec /\ Fairness

-----------------------------------------------------------------------------
(* Invariants *)

(* Every variable keeps its type. *)
TypeOK ==
  /\ head \in Client \cup {NULL} /\ next \in [Client -> Client \cup {NULL}]
  /\ do_continue \in BOOLEAN
  /\ is_active \in [Client -> BOOLEAN] /\ is_dropped \in [Client -> BOOLEAN]
  /\ backlog \in [Client -> BOOLEAN]
  /\ pc \in {"boot", "test", "select", "accept", "clients", "reading", "filter", "done"}
  /\ cur \in Client \cup {NULL} /\ link \in Client \cup {Root}
  /\ root \in Client \cup {NULL} /\ freed \subseteq Client
  /\ fds_accept \subseteq Listener /\ fds_read \subseteq Client /\ fds_send \subseteq Client
  /\ known \subseteq Client
  /\ eof \in [Client -> BOOLEAN] /\ reset \subseteq Client /\ asked \in BOOLEAN
  /\ fault \in {"none", "fatal", "null", "stale", "astray"}
  /\ gone \subseteq Client

(* Between two passes the list holds exactly the clients the server knows,  *)
(* in a chain that ends, with all nodes alive and all clients active: the   *)
(* relinking of list_filter loses and revives nobody, wherever the dead     *)
(* ones stood.                                                              *)
ListIntact ==
  pc \in {"test", "select", "accept", "done"} /\ fault = "none" =>
    /\ Linked = known
    /\ Node[Cardinality(Client)] = NULL
    /\ freed = {}
    /\ \A c \in known : is_active[c]

(* Neither of the two find_clients is ever asked for a client that does not *)
(* exist: a connection is reported, then its lines, then its end.  (Where a *)
(* walk through freed memory leads is NoStaleNode's question.)              *)
NeverFatal == fault # "fatal"

(* Whose end is due is reported and deleted before the pass is over: whose  *)
(* peer had hung up when select() returned, whose end recv() came upon      *)
(* later in the pass, and who was dropped in it; but not yet those of whom  *)
(* recv() reported an error instead.  And nobody else is deleted.           *)
DeadAreDeleted ==
  [][/\ pc = "filter" /\ pc' = "test" => gone \cap known' = {}
     /\ \A c \in known \ known' : AtEnd(c)]_vars

-----------------------------------------------------------------------------
(* Liveness, under FairSpec *)

(* Whoever quits or hangs up is reported as disconnected, however the       *)
(* filtering and the traffic of the others interleave, unless the program   *)
(* dies or is stopped first.                                                *)
GoneIsReported ==
  \A c \in Client :
    (c \in known /\ AtEnd(c)) ~> (c \notin known \/ fault # "none" \/ pc = "done")

(* A termination signal that comes while the loop is at work, or that wakes *)
(* up its select(), ends the loop: nothing that callbacks and clients do    *)
(* afterwards makes it go on.  A signal before socketloop_run, or between   *)
(* the test and select(), is not promised as much.                          *)
StopHeeded ==
  ~do_continue /\ pc \notin {"boot", "select"} ~> pc = "done" \/ fault # "none"

-----------------------------------------------------------------------------
(* Claims of the repository that the code does not keep *)

(* socket_loop.c on is_dropped: the client becomes dead after its buffer is *)
(* flushed.  Here: if the peer is still there, it is deleted with an empty  *)
(* queue only.                                                              *)
FlushedBeforeDeath ==
  [][\A c \in known \ known' : is_dropped[c] /\ ~eof[c] => ~backlog[c]]_vars

(* list.h: no memory management is exposed.  No walk along a list meets a   *)
(* freed node to its harm.                                                  *)
NoStaleNode == fault \notin {"stale", "astray"}

(* main.c: a syntax error is answered by an error and a drop of the client. *)
SurvivesBadSyntax == fault # "null"
=============================================================================
