----------------------------- MODULE ChatThreads -----------------------------
(***************************************************************************)
(* The invite-based one-to-one chat of backend/api/routes.py ("Phase 24A") *)
(* over the chat tables of backend/storage/db.py: every node keeps a row   *)
(* per peer, and changes it by an HTTP call to that peer followed by a     *)
(* write of its own.  Several calls of the same nodes are under way at     *)
(* once; a call times out, loses its request or its answer, or is cut off  *)
(* by the crash of either end.                                             *)
(*                                                                         *)
(* An action is what one node does between two awaits of the network or of *)
(* the database.  Whether a peer is visible is left open: an invisible one *)
(* only makes an endpoint refuse, except for /reject (RejectUnseen).       *)
(***************************************************************************)
EXTENDS Naturals, FiniteSets

CONSTANTS
    Nodes,      \* node identities, which a restart keeps
    Calls,      \* identities of HTTP calls under way at the same time (bound)
    Messages,   \* message bodies (bound)
    None        \* no row, no call, nothing read

Status == {"outgoing_pending", "incoming_pending", "accepted"}
Ops == {"invite", "accept", "reject", "message"}
Row == Status \cup {None}

(* A call: the peer's handler is at `server`, has read the row `seen`, and *)
(* the caller's coroutine is `waiting` for the answer or has given up.     *)
Call == [op: Ops, from: Nodes, to: Nodes, body: Messages \cup {None},
         server: {"posted", "read", "refreshed", "ok", "failed"},
         seen: Row, waiting: BOOLEAN]

ASSUME NoneAssumption ==
    /\ None \notin Status \cup Messages
    /\ \A k \in Call : k # None

VARIABLES
    thread,     \* thread[n][m]: status of n's chat_threads row for m
    log,        \* log[n][m]: n's chat_messages rows for m
    call,       \* call[c]: an HTTP call under way, or None
    (* what happened, for the properties only *)
    consent,    \* <<n, m>>: n invited m or accepted m's invite
    delivered   \* <<n, m, b>>: m stored the message b of n

vars == <<thread, log, call, consent, delivered>>

LogEntry == {"sent", "received"} \X Messages

CallTypeOK ==
    /\ call \in [Calls -> Call \cup {None}]
    /\ \A c \in Calls : call[c] # None =>
          (call[c].op = "message" => call[c].body \in Messages)

TypeOK ==
    /\ thread \in [Nodes -> [Nodes -> Row]]
    /\ log \in [Nodes -> [Nodes -> SUBSET LogEntry]]
    /\ CallTypeOK
    /\ consent \in SUBSET (Nodes \X Nodes)
    /\ delivered \in SUBSET (Nodes \X Nodes \X Messages)

Init ==
    /\ thread = [n \in Nodes |-> [m \in Nodes |-> None]]
    /\ log = [n \in Nodes |-> [m \in Nodes |-> {}]]
    /\ call = [c \in Calls |-> None]
    /\ consent = {}
    /\ delivered = {}

-----------------------------------------------------------------------------
(* The database *)

MergedAlways(old, st) == st
(* The CASE of the upsert: an accepted row takes no other status. *)
Merged(old, st) == IF old = "accepted" THEN old ELSE st

Upsert(n, m, st) ==
    thread' = [thread EXCEPT ![n][m] = Merged(@, st)]

DeleteRowOnly(n, m) ==
    /\ thread' = [thread EXCEPT ![n][m] = None]
    /\ UNCHANGED log
(* The row and its messages go in one transaction. *)
DeleteThread(n, m) ==
    /\ thread' = [thread EXCEPT ![n][m] = None]
    /\ log' = [log EXCEPT ![n][m] = {}]

AppendMessage(n, m, direction, b) ==
    log' = [log EXCEPT ![n][m] = @ \cup {<<direction, b>>}]

-----------------------------------------------------------------------------
(* Requests of the user of node n: what happens up to the HTTP call. *)

Post(c, o, n, m, b) ==
    /\ call[c] = None
    /\ n # m
    /\ call' = [call EXCEPT ![c] =
         [op |-> o, from |-> n, to |-> m, body |-> b,
          server |-> "posted", seen |-> None, waiting |-> TRUE]]

Invite(c, n, m) ==
    /\ thread[n][m] \notin {"accepted", "incoming_pending"}
    /\ Post(c, "invite", n, m, None)
    /\ consent' = consent \cup {<<n, m>>}
    /\ UNCHANGED <<thread, log, delivered>>

AcceptAnything(c, n, m) ==
    /\ Post(c, "accept", n, m, None)
    /\ consent' = consent \cup {<<n, m>>}
    /\ UNCHANGED <<thread, log, delivered>>

Accept(c, n, m) ==
    /\ thread[n][m] = "incoming_pending"
    /\ Post(c, "accept", n, m, None)
    /\ consent' = consent \cup {<<n, m>>}
    /\ UNCHANGED <<thread, log, delivered>>

Reject(c, n, m) ==
    /\ thread[n][m] = "incoming_pending"
    /\ Post(c, "reject", n, m, None)
    /\ UNCHANGED <<thread, log, consent, delivered>>

(* The peer is not visible: there is nobody to notify. *)
RejectUnseen(n, m) ==
    /\ thread[n][m] = "incoming_pending"
    /\ DeleteThread(n, m)
    /\ UNCHANGED <<call, consent, delivered>>

Send(c, n, m, b) ==
    /\ thread[n][m] = "accepted"
    /\ Post(c, "message", n, m, b)
    /\ UNCHANGED <<thread, log, consent, delivered>>

(* DELETE /chats: the peer keeps its row and is not told. *)
Delete(n, m) ==
    /\ thread[n][m] # None
    /\ DeleteThread(n, m)
    /\ UNCHANGED <<call, consent, delivered>>

-----------------------------------------------------------------------------
(* Handlers of the called peer *)

At(c, o, step) == call[c] # None /\ call[c].op = o /\ call[c].server = step

(* The handler of call c goes on to `step`. *)
Advance(c, step) == call' = [call EXCEPT ![c].server = step]

(* The handler answers; nobody listens once the caller gave up. *)
Answer(c, step) ==
    call' = [call EXCEPT ![c] = IF @.waiting THEN [@ EXCEPT !.server = step]
                                             ELSE None]

Caller(c) == call[c].from
Callee(c) == call[c].to

PeerInviteRead(c) ==
    /\ At(c, "invite", "posted")
    /\ \/ /\ thread[Callee(c)][Caller(c)] = "accepted"
          /\ Answer(c, "ok")
       \/ /\ thread[Callee(c)][Caller(c)] # "accepted"
          /\ call' = [call EXCEPT ![c].server = "read",
                                  ![c].seen = thread[Callee(c)][Caller(c)]]
    /\ UNCHANGED <<thread, log, consent, delivered>>

(* A mutual invite is accepted on the spot, judged by the row read before. *)
PeerInviteWrite(c) ==
    /\ At(c, "invite", "read")
    /\ Upsert(Callee(c), Caller(c),
              IF call[c].seen = "outgoing_pending" THEN "accepted"
                                                   ELSE "incoming_pending")
    /\ Answer(c, "ok")
    /\ UNCHANGED <<log, consent, delivered>>

(* Whatever the row says: "accept it anyway so we don't desync". *)
PeerAccept(c) ==
    /\ At(c, "accept", "posted")
    /\ Upsert(Callee(c), Caller(c), "accepted")
    /\ Answer(c, "ok")
    /\ UNCHANGED <<log, consent, delivered>>

PeerRejectKeepsRow(c) ==
    /\ At(c, "reject", "posted")
    /\ thread' = [thread EXCEPT ![Callee(c)][Caller(c)] = "rejected"]
    /\ Answer(c, "ok")
    /\ UNCHANGED <<log, consent, delivered>>

PeerReject(c) ==
    /\ At(c, "reject", "posted")
    /\ DeleteThread(Callee(c), Caller(c))
    /\ Answer(c, "ok")
    /\ UNCHANGED <<consent, delivered>>

PeerMessageRead(c) ==
    /\ At(c, "message", "posted")
    /\ IF thread[Callee(c)][Caller(c)] = "accepted"
       THEN Advance(c, "read")
       ELSE Answer(c, "failed")
    /\ UNCHANGED <<thread, log, consent, delivered>>

(* The sender's name changed: the row is written again, as accepted. *)
PeerMessageRefresh(c) ==
    /\ At(c, "message", "read")
    /\ Upsert(Callee(c), Caller(c), "accepted")
    /\ Advance(c, "refreshed")
    /\ UNCHANGED <<log, consent, delivered>>

PeerMessageAppend(c) ==
    /\ At(c, "message", "read") \/ At(c, "message", "refreshed")
    /\ AppendMessage(Callee(c), Caller(c), "received", call[c].body)
    /\ delivered' = delivered \cup {<<Caller(c), Callee(c), call[c].body>>}
    /\ Answer(c, "ok")
    /\ UNCHANGED <<thread, consent>>

-----------------------------------------------------------------------------
(* The caller's coroutine after the answer *)

End(c) == call' = [call EXCEPT ![c] = None]

InviteDone(c) ==
    /\ At(c, "invite", "ok")
    /\ Upsert(Caller(c), Callee(c), "outgoing_pending")
    /\ End(c)
    /\ UNCHANGED <<log, consent, delivered>>

AcceptDone(c) ==
    /\ At(c, "accept", "ok")
    /\ Upsert(Caller(c), Callee(c), "accepted")
    /\ End(c)
    /\ UNCHANGED <<log, consent, delivered>>

(* The peer was told, or could not be: the row goes in any case. *)
RejectDone(c) ==
    /\ At(c, "reject", "ok") \/ At(c, "reject", "failed")
    /\ DeleteThread(Caller(c), Callee(c))
    /\ End(c)
    /\ UNCHANGED <<consent, delivered>>

SendDoneUnchecked(c) ==
    /\ At(c, "message", "ok") \/ At(c, "message", "failed")
    /\ AppendMessage(Caller(c), Callee(c), "sent", call[c].body)
    /\ End(c)
    /\ UNCHANGED <<thread, consent, delivered>>

(* The sender's row is not read again before its own copy is stored. *)
SendDone(c) ==
    /\ At(c, "message", "ok")
    /\ AppendMessage(Caller(c), Callee(c), "sent", call[c].body)
    /\ End(c)
    /\ UNCHANGED <<thread, consent, delivered>>

(* An error answer or a broken connection ends the request with an error. *)
CallRefused(c) ==
    /\ \E o \in Ops \ {"reject"} : At(c, o, "failed")
    /\ End(c)
    /\ UNCHANGED <<thread, log, consent, delivered>>

(* CHAT_PEER_TIMEOUT, or the answer is lost.  The handler, if it is still  *)
(* to run or running, is not stopped by it.                                *)
Timeout(c) ==
    /\ call[c] # None /\ call[c].waiting
    /\ call' = [call EXCEPT ![c] =
                  IF @.server \in {"ok", "failed"} THEN None
                                                   ELSE [@ EXCEPT !.waiting = FALSE]]
    /\ IF call[c].op = "reject" THEN DeleteThread(Caller(c), Callee(c))
                                ELSE UNCHANGED <<thread, log>>
    /\ UNCHANGED <<consent, delivered>>

(* The request of a caller that gave up never reaches the peer. *)
RequestLost(c) ==
    /\ call[c] # None /\ call[c].server = "posted" /\ ~call[c].waiting
    /\ End(c)
    /\ UNCHANGED <<thread, log, consent, delivered>>

(* Node n dies and restarts on the same database: the callers it had and   *)
(* the handlers it ran are gone, the latter with a broken connection.      *)
Crash(n) ==
    /\ \E c \in Calls : call[c] # None /\ n \in {Caller(c), Callee(c)}
    /\ call' = [c \in Calls |->
         CASE call[c] # None /\ Callee(c) = n ->
                IF call[c].waiting THEN [call[c] EXCEPT !.server = "failed"] ELSE None
           [] call[c] # None /\ Caller(c) = n ->
                IF call[c].server \in {"ok", "failed"}
                THEN None ELSE [call[c] EXCEPT !.waiting = FALSE]
           [] OTHER -> call[c]]
    /\ UNCHANGED <<thread, log, consent, delivered>>

-----------------------------------------------------------------------------
UserRequest ==
    \/ \E c \in Calls, n, m \in Nodes :
        \/ Invite(c, n, m) \/ Accept(c, n, m) \/ Reject(c, n, m)
        \/ \E b \in Messages : Send(c, n, m, b)
    \/ \E n, m \in Nodes : RejectUnseen(n, m) \/ Delete(n, m)

PeerStep(c) ==
    \/ PeerInviteRead(c) \/ PeerInviteWrite(c) \/ PeerAccept(c) \/ PeerReject(c)
    \/ PeerMessageRead(c) \/ PeerMessageRefresh(c) \/ PeerMessageAppend(c)

CallerStep(c) ==
    \/ InviteDone(c) \/ AcceptDone(c) \/ RejectDone(c) \/ SendDone(c)
    \/ CallRefused(c) \/ Timeout(c)

Next ==
    \/ UserRequest
    \/ \E c \in Calls : PeerStep(c) \/ CallerStep(c) \/ RequestLost(c)
    \/ \E n \in Nodes : Crash(n)

Spec == Init /\ [][Next]_vars
-----------------------------------------------------------------------------
(* Properties *)

MutualConsent(n, m) == <<n, m>> \in consent /\ <<m, n>> \in consent

(* "The chat invite IS the consent signal": a node has an accepted thread  *)
(* with a peer, or holds a message from it, only when each of the two has  *)
(* invited the other or accepted the other's invite.  The unconditional    *)
(* /peer/chat/accept and the row read before a write put this at risk.     *)
AcceptedByConsent ==
    \A n, m \in Nodes :
        \/ thread[n][m] = "accepted"
        \/ \E b \in Messages : <<"received", b>> \in log[n][m]
        => MutualConsent(n, m)

(* What a node keeps as sent was stored by the peer, whichever calls       *)
(* failed, timed out or were cut off by a crash.                           *)
SentWasDelivered ==
    \A n, m \in Nodes, b \in Messages :
        <<"sent", b>> \in log[n][m] => <<n, m, b>> \in delivered

(* An accepted thread never goes back to a pending state, also when the    *)
(* write of an earlier invite is late: it stays accepted or is deleted.    *)
AcceptedNeverRegresses ==
    [][\A n, m \in Nodes :
        thread[n][m] = "accepted" => thread'[n][m] \in {"accepted", None}]_vars

(* Whatever calls are lost, late, repeated or cut off, the chat is what    *)
(* two people who agreed to it expect: see ConsensualChat.  In particular  *)
(* deleting a thread leaves none of its messages behind.                   *)
Promise == INSTANCE ConsensualChat WITH
    agreed <- consent,
    open <- {e \in Nodes \X Nodes : thread[e[1]][e[2]] = "accepted"},
    arrived <- delivered

KeepsPromise == Promise!Spec

Quiet == \A c \in Calls : call[c] = None

(* "If we already invited THEM and now they invited us, auto-accept": two  *)
(* nodes do not both end up waiting for the other to accept.               *)
MutualInvitesMeet ==
    Quiet => \A n, m \in Nodes :
        ~(thread[n][m] = "outgoing_pending" /\ thread[m][n] = "outgoing_pending")

(* "Both flip to accepted": once nothing is under way, a node does not     *)
(* wait for the acceptance of a peer that has accepted.                    *)
BothFlipToAccepted ==
    Quiet => \A n, m \in Nodes :
        ~(thread[n][m] = "outgoing_pending" /\ thread[m][n] = "accepted")

-----------------------------------------------------------------------------
(* What makes the invariants inductive: pending rows, and the calls and    *)
(* rows read that a later write relies on, also stand for consent.         *)
RowsHaveConsent ==
    \A n, m \in Nodes :
        /\ thread[n][m] = "outgoing_pending" => <<n, m>> \in consent
        /\ thread[n][m] = "incoming_pending" => <<m, n>> \in consent

CallsHaveConsent ==
    \A c \in Calls : call[c] # None =>
        /\ call[c].op = "invite" => <<Caller(c), Callee(c)>> \in consent
        /\ call[c].op = "invite" /\ call[c].seen = "outgoing_pending" =>
               <<Callee(c), Caller(c)>> \in consent
        /\ call[c].op \in {"accept", "message"} => MutualConsent(Caller(c), Callee(c))

ConsentInv == AcceptedByConsent /\ RowsHaveConsent /\ CallsHaveConsent

AnsweredWasDelivered ==
    \A c \in Calls : At(c, "message", "ok") =>
        <<Caller(c), Callee(c), call[c].body>> \in delivered

DeliveryInv == SentWasDelivered /\ AnsweredWasDelivered
=============================================================================
