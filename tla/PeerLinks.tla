------------------------------ MODULE PeerLinks ------------------------------
(***************************************************************************)
(* The TCP links between nodes (backend/network/connection.py), the peer   *)
(* registry they are dialled from (backend/node/state.py, filled by the    *)
(* UDP HELLOs of backend/network/discovery.py), the connector loop of      *)
(* backend/node/node.py, and the traffic that runs over the links: the     *)
(* flooded swarm chat of backend/api/routes.py ("Phase 19").               *)
(*                                                                         *)
(* Both ends of a link put it in their `connections` under the identity of *)
(* the other.  Only the end that accepted a link reads from it.  Crashes   *)
(* end a process and everything it holds in memory; its peer finds out by  *)
(* reading the end of the stream, if it reads at all.                      *)
(*                                                                         *)
(* An action is what a coroutine does between two awaits.                  *)
(***************************************************************************)
EXTENDS Naturals, Sequences, FiniteSets

CONSTANTS
    Nodes,        \* node identities, which a restart keeps
    Heard,        \* <<n, m>>: the HELLOs of m reach n
    Links,        \* identities of TCP connections open at a time (bound)
    Chats,        \* identities (msg_id) of chat messages (bound)
    MaxSeen,      \* _MAX_SEEN, how many msg_ids a node remembers
    Capacity,     \* messages a link takes in one direction before drain() waits
    MaxCrashes,   \* how many crashes happen (bound)
    None          \* no link, no task

ASSUME HeardAssumption == Heard \subseteq {p \in Nodes \X Nodes : p[1] # p[2]}
ASSUME BoundsAssumption == MaxSeen \in Nat /\ Capacity \in Nat \ {0} /\ MaxCrashes \in Nat

Link == [from: Nodes, to: Nodes,
         dialer: {"waiting", "up", "gone"},
         acceptor: {"opened", "serving", \* its ACK is written; "acked" if it
                    "acked", "gone"},    \* crashed before the dialer read it
         out: Seq(Chats),      \* written by the dialer, not yet read
         back: Seq(Chats)]     \* written by the acceptor, not yet read

(* A chat message on its way: while it is shown to the user, and then with *)
(* the peers of broadcast_to_peers' snapshot that are left; and the link   *)
(* whose loop waits for it, or None for the user's own.                    *)
Task == [chat: Chats, stage: {"showing", "sending"}, todo: SUBSET Nodes,
         loop: Links \cup {None}]

ASSUME NoneAssumption == None \notin Link \cup Links

VARIABLES
    up,         \* up[n]: the process of n runs
    known,      \* known[n][m]: is m in the registry of n, and is_alive()
    conns,      \* conns[n][m]: the entry of m in ConnectionManager.connections
    link,       \* link[k]: a TCP connection, or None
    seen,       \* seen[n]: _seen_chat_ids
    tasks,      \* tasks[n]: the broadcasts under way in n
    crashes,    \* how many crashes have happened
    (* what happened, for the properties only *)
    shown       \* shown[n][c]: how often this process has shown c to its user

vars == <<up, known, conns, link, seen, tasks, crashes, shown>>

(* n waits for the HANDSHAKE_ACK on k. *)
Waiting(n, k) == link[k] # None /\ link[k].from = n /\ link[k].dialer = "waiting"

TypeOK ==
    /\ up \in [Nodes -> BOOLEAN]
    /\ known \in [Nodes -> [Nodes -> {"unknown", "fresh", "stale"}]]
    /\ conns \in [Nodes -> [Nodes -> Links \cup {None}]]
    /\ link \in [Links -> Link \cup {None}]
    /\ seen \in [Nodes -> SUBSET Chats]
    /\ tasks \in [Nodes -> SUBSET Task]
    /\ crashes \in 0 .. MaxCrashes
    /\ shown \in [Nodes -> [Chats -> Nat]]
    /\ \A n \in Nodes : \* the connector waits for one handshake at a time
         \A j, k \in Links : Waiting(n, j) /\ Waiting(n, k) => j = k

Init ==
    /\ up = [n \in Nodes |-> TRUE]
    /\ known = [n \in Nodes |-> [m \in Nodes |-> "unknown"]]
    /\ conns = [n \in Nodes |-> [m \in Nodes |-> None]]
    /\ link = [k \in Links |-> None]
    /\ seen = [n \in Nodes |-> {}]
    /\ tasks = [n \in Nodes |-> {}]
    /\ crashes = 0
    /\ shown = [n \in Nodes |-> [c \in Chats |-> 0]]

Open(k) == link[k] # None

(* A connection both ends of which are open and past the handshake. *)
Live(k) == Open(k) /\ link[k].dialer = "up" /\ link[k].acceptor = "serving"

(* Nothing refers to k any more, so that its identity can be taken again. *)
Free(k) ==
    Open(k) => /\ link[k].dialer # "waiting" /\ link[k].acceptor = "gone"
               /\ \A n, m \in Nodes : conns[n][m] # k

-----------------------------------------------------------------------------
(* The registry *)

AddPeerOnce(n, m) ==
    known' = IF known[n][m] = "stale" THEN known ELSE [known EXCEPT ![n][m] = "fresh"]

AddPeer(n, m) == known' = [known EXCEPT ![n][m] = "fresh"]

(* A HELLO of m arrives (datagram_received): its own HELLOs a node drops. *)
Hello(n, m) ==
    /\ up[n] /\ up[m]
    /\ <<n, m>> \in Heard
    /\ known[n][m] # "fresh"
    /\ AddPeer(n, m)
    /\ UNCHANGED <<up, conns, link, seen, tasks, crashes, shown>>

(* peer_timeout passed without a sign of m. *)
Expire(n, m) ==
    /\ known[n][m] = "fresh"
    /\ known' = [known EXCEPT ![n][m] = "stale"]
    /\ UNCHANGED <<up, conns, link, seen, tasks, crashes, shown>>

-----------------------------------------------------------------------------
(* Links *)

DialingUnawaited(n) == FALSE

Dialing(n) == \E k \in Links : Waiting(n, k)

StartDial(n, m) ==
    /\ up[n] /\ up[m]
    /\ known[n][m] = "fresh"
    /\ ~Dialing(n)
    /\ \E k \in Links : Free(k)
    /\ link' = [link EXCEPT ![CHOOSE k \in Links : Free(k)] =
         [from |-> n, to |-> m, dialer |-> "waiting", acceptor |-> "opened",
          out |-> <<>>, back |-> <<>>]]
    /\ UNCHANGED <<up, known, conns, seen, tasks, crashes, shown>>

(* The connector loop dials one alive peer at a time, of those it has no   *)
(* entry for; AUTH and HANDSHAKE go out with it.  A refused dial changes   *)
(* nothing.                                                                *)
Dial(n, m) == conns[n][m] = None /\ StartDial(n, m)

(* _handle_client: AUTH and HANDSHAKE are read, the HANDSHAKE_ACK goes out *)
(* and the message loop starts, be the dialer gone since or not.           *)
Accept(k) ==
    /\ Open(k) /\ link[k].acceptor = "opened"
    /\ link' = [link EXCEPT ![k].acceptor = "serving"]
    /\ conns' = [conns EXCEPT ![link[k].to][link[k].from] = k]
    /\ AddPeer(link[k].to, link[k].from)
    /\ UNCHANGED <<up, seen, tasks, crashes, shown>>

(* No AUTH within its 2 seconds, or the dialer is gone before it came: the *)
(* connection is closed, with no entry under its empty peer_id to remove.  *)
AcceptFails(k) ==
    /\ Open(k) /\ link[k].acceptor = "opened"
    /\ link' = [link EXCEPT ![k].acceptor = "gone"]
    /\ UNCHANGED <<up, known, conns, seen, tasks, crashes, shown>>

Abandoned(k) == Open(k) /\ link[k].dialer = "gone"

(* What is left of an acceptor after the dial is over. *)
AfterAck(acceptor) == IF acceptor = "acked" THEN "gone" ELSE acceptor

(* The dialer reads the HANDSHAKE_ACK and starts no loop of its own.  The  *)
(* ACK of an acceptor that is gone by now is still read, and the dead link *)
(* gets an entry, unless the connection was reset first.                   *)
DialDone(k) ==
    /\ Open(k) /\ link[k].dialer = "waiting" /\ link[k].acceptor # "opened"
    /\ \/ /\ link[k].acceptor \in {"serving", "acked"}
          /\ link' = [link EXCEPT ![k].dialer = "up", ![k].acceptor = AfterAck(@)]
          /\ conns' = [conns EXCEPT ![link[k].from][link[k].to] = k]
          /\ AddPeer(link[k].from, link[k].to)
       \/ /\ link[k].acceptor \in {"acked", "gone"}
          /\ link' = [link EXCEPT ![k].dialer = "gone", ![k].acceptor = AfterAck(@)]
          /\ UNCHANGED <<known, conns>>
    /\ UNCHANGED <<up, seen, tasks, crashes, shown>>

(* The loop of k awaits a handler. *)
Handling(k) == \E n \in Nodes : \E t \in tasks[n] : t.loop = k

LoopEnd(k) ==
    /\ Open(k) /\ link[k].acceptor = "serving" /\ link[k].dialer = "gone"
    /\ link[k].out = <<>> /\ ~Handling(k)
    /\ link' = [link EXCEPT ![k].acceptor = "gone"]
    /\ UNCHANGED <<up, known, seen, tasks, crashes, shown>>

LoopEndKeepsEntry(k) == LoopEnd(k) /\ UNCHANGED conns

(* The message loop reads the end of the stream; its `finally` removes the *)
(* entry under the dialer's identity, whichever link that is.              *)
EndOfStream(k) ==
    /\ LoopEnd(k)
    /\ conns' = [conns EXCEPT ![link[k].to][link[k].from] = None]

-----------------------------------------------------------------------------
(* Swarm chat *)

Peers(n) == {m \in Nodes : conns[n][m] # None}

(* The id is remembered; beyond _MAX_SEEN, set.pop() forgets any id. *)
Remember(n, c) ==
    LET ids == seen[n] \cup {c} IN
    IF Cardinality(ids) <= MaxSeen THEN seen' = [seen EXCEPT ![n] = ids]
    ELSE \E x \in ids : seen' = [seen EXCEPT ![n] = ids \ {x}]

Show(n, c) == shown' = [shown EXCEPT ![n][c] = @ + 1]

StartTask(n, c, k) ==
    tasks' = [tasks EXCEPT ![n] =
                @ \cup {[chat |-> c, stage |-> "showing", todo |-> {}, loop |-> k]}]

NewId(c) ==
    /\ \A m \in Nodes : shown[m][c] = 0 /\ c \notin seen[m]
    /\ \A k \in Links : Open(k) => c \notin {link[k].out[i] : i \in DOMAIN link[k].out}
                                     \cup {link[k].back[i] : i \in DOMAIN link[k].back}
    /\ \A m \in Nodes : \A t \in tasks[m] : t.chat # c

SayShowing(n, c) ==
    /\ up[n] /\ NewId(c)
    /\ Show(n, c)
    /\ StartTask(n, c, None)
    /\ UNCHANGED <<up, known, conns, link, crashes>>

SayUnremembered(n, c) == SayShowing(n, c) /\ UNCHANGED seen

(* The user of n says c, for which a new id is made (websocket_chat). *)
Say(n, c) == SayShowing(n, c) /\ Remember(n, c)

ReadChat(k) ==
    /\ Open(k) /\ link[k].acceptor = "serving" /\ ~Handling(k)
    /\ link[k].out # <<>>
    /\ link' = [link EXCEPT ![k].out = Tail(@)]

(* The loop reads a chat message; one whose id it has seen is dropped. *)
HandleChat(k) ==
    /\ ReadChat(k)
    /\ LET n == link[k].to
           c == Head(link[k].out)
       IN  IF c \in seen[n] THEN UNCHANGED <<seen, shown, tasks>>
           ELSE Remember(n, c) /\ Show(n, c) /\ StartTask(n, c, k)
    /\ UNCHANGED <<up, known, conns, crashes>>

(* The user's clients have got it; broadcast_to_peers takes its snapshot. *)
Snapshot(n, t) ==
    /\ t \in tasks[n] /\ t.stage = "showing"
    /\ tasks' = [tasks EXCEPT ![n] =
                   (@ \ {t}) \cup {[t EXCEPT !.stage = "sending", !.todo = Peers(n)]}]
    /\ UNCHANGED <<up, known, conns, link, seen, crashes, shown>>

PeerEndGone(n, k) ==
    IF link[k].from = n THEN link[k].acceptor = "gone" ELSE link[k].dialer = "gone"

(* Node n writes c in its direction of k, once that has room for it. *)
Write(n, k, c) ==
    \/ /\ link[k].from = n /\ Len(link[k].out) < Capacity
       /\ link' = [link EXCEPT ![k].out = Append(@, c)]
    \/ /\ link[k].from # n /\ Len(link[k].back) < Capacity
       /\ link' = [link EXCEPT ![k].back = Append(@, c)]

(* send_to_peer: the entry is looked up again; a link the other end of     *)
(* which is gone swallows the message or raises; a full one waits.         *)
SendNext(n, t, m) ==
    /\ t \in tasks[n] /\ m \in t.todo
    /\ LET k == conns[n][m] IN
       IF k # None => PeerEndGone(n, k) THEN UNCHANGED link ELSE Write(n, k, t.chat)
    /\ tasks' = [tasks EXCEPT ![n] =
                   (@ \ {t}) \cup {[t EXCEPT !.todo = @ \ {m}]}]
    /\ UNCHANGED <<up, known, conns, seen, crashes, shown>>

BroadcastDone(n, t) ==
    /\ t \in tasks[n] /\ t.stage = "sending" /\ t.todo = {}
    /\ tasks' = [tasks EXCEPT ![n] = @ \ {t}]
    /\ UNCHANGED <<up, known, conns, link, seen, crashes, shown>>

-----------------------------------------------------------------------------
(* Processes *)

(* What the end of n's process makes of the acceptor of link l. *)
AcceptorAfter(n, l) ==
    CASE l.to = n -> IF l.dialer = "waiting" /\ l.acceptor \in {"serving", "acked"}
                     THEN "acked" ELSE "gone"
      [] l.from = n -> AfterAck(l.acceptor)
      [] OTHER -> l.acceptor

CloseEnds(n) ==
    link' = [k \in Links |->
       IF ~Open(k) THEN None
       ELSE [link[k] EXCEPT !.dialer = IF link[k].from = n THEN "gone" ELSE @,
                            !.acceptor = AcceptorAfter(n, link[k])]]

Crash(n) ==
    /\ up[n] /\ crashes < MaxCrashes
    /\ up' = [up EXCEPT ![n] = FALSE]
    /\ CloseEnds(n)
    /\ conns' = [conns EXCEPT ![n] = [m \in Nodes |-> None]]
    /\ seen' = [seen EXCEPT ![n] = {}]
    /\ tasks' = [tasks EXCEPT ![n] = {}]
    /\ shown' = [shown EXCEPT ![n] = [c \in Chats |-> 0]]
    /\ crashes' = crashes + 1
    /\ UNCHANGED known

(* load_peers_from_db: the registry comes back with the times it had. *)
Restart(n) ==
    /\ ~up[n]
    /\ up' = [up EXCEPT ![n] = TRUE]
    /\ UNCHANGED <<known, conns, link, seen, tasks, crashes, shown>>

-----------------------------------------------------------------------------
LinkStep(k) == Accept(k) \/ AcceptFails(k) \/ DialDone(k) \/ EndOfStream(k)

TaskStep(n) ==
    \E t \in tasks[n] :
        Snapshot(n, t) \/ BroadcastDone(n, t) \/ \E m \in Nodes : SendNext(n, t, m)

NodeStep(n) ==
    \/ \E m \in Nodes : Hello(n, m) \/ Expire(n, m) \/ Dial(n, m)
    \/ \E c \in Chats : Say(n, c)
    \/ TaskStep(n)
    \/ Crash(n) \/ Restart(n)

Next ==
    \/ \E k \in Links : LinkStep(k) \/ HandleChat(k)
    \/ \E n \in Nodes : NodeStep(n)

Spec == Init /\ [][Next]_vars

(* Each loop goes on, HELLOs are repeated every 5 seconds and a crashed    *)
(* node is started again.  A peer stays alive for 15 seconds after each    *)
(* sign of life and the connector looks every 3: it meets each of these    *)
(* intervals, hence strong fairness; an AUTH is not late for ever.         *)
Fairness ==
    /\ \A n \in Nodes :
         /\ WF_vars(Restart(n))
         /\ \A m \in Nodes \ {n} :
              /\ WF_vars(Hello(n, m))
              /\ SF_vars(Dial(n, m))
         /\ WF_vars(TaskStep(n))
    /\ \A k \in Links :
         /\ SF_vars(Accept(k))
         /\ WF_vars(\* at most one of them is enabled
              \/ DialDone(k) \/ EndOfStream(k) \/ HandleChat(k)
              \/ Abandoned(k) /\ AcceptFails(k))

FairSpec == Spec /\ Fairness
-----------------------------------------------------------------------------
(* Properties *)

(* A node shows a chat message to its user at most once, by however many   *)
(* links and rounds the flood brings it ("Deduplicate: don't re-broadcast  *)
(* messages we've already seen"), unless its memory of ids is full.        *)
ShownOnce ==
    \A n \in Nodes, c \in Chats : shown[n][c] > 1 => Cardinality(seen[n]) >= MaxSeen

(* An entry is a link with that peer, and if it is an inbound one its loop *)
(* still runs: the end of a stream leaves no entry behind to be written    *)
(* to, also when links of the same peer overlap around a restart.          *)
InboundEntryIsServed ==
    \A n, m \in Nodes : conns[n][m] # None =>
        LET k == conns[n][m] IN
        /\ Open(k) /\ {link[k].from, link[k].to} = {n, m}
        /\ link[k].to = n => link[k].acceptor = "serving"

(* "connect to discovered peers we're not connected to": a node has at     *)
(* most one connection that it dialled to a given peer.  It is not so: the *)
(* late end of a link from before a crash removes the entry of a newer one.*)
OneLinkEachWay ==
    \A j, k \in Links :
        /\ Live(j) /\ Live(k)
        /\ link[j].from = link[k].from /\ link[j].to = link[k].to
        => j = k

Linked(n, m) == \E k \in Links : Live(k) /\ {link[k].from, link[k].to} = {n, m}

(* Nodes that hear each other get and keep a connection once they crash no *)
(* more, whatever entries earlier links left behind: of two ends that have *)
(* a dead entry, one lost it in the crash, and dials.                      *)
EventuallyLinked ==
    <>[](\A p \in Heard : <<p[2], p[1]>> \in Heard => Linked(p[1], p[2]))

(* The same of nodes of which one need not hear the other, as where UDP is *)
(* blocked in one direction.  It is not so: the entry of a link that it    *)
(* dialled to a peer that crashed keeps the one that hears from dialling   *)
(* again, and the other does not know it any more.                         *)
HeardPeersLinked == <>[](\A p \in Heard : Linked(p[1], p[2]))

(* "CHAT | Any -> Any | Swarm chat messages" (docs): a message being sent   *)
(* to a linked peer is shown there, as long as both nodes keep running.    *)
ChatReachesLinkedPeer ==
    \A n, m \in Nodes, c \in Chats :
        (Linked(n, m) /\ \E t \in tasks[n] : t.chat = c /\ m \in t.todo)
            ~> (shown[m][c] > 0 \/ ~up[n] \/ ~up[m])
=============================================================================
