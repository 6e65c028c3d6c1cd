-------------------------- MODULE ChatThreadsProofs --------------------------
(***************************************************************************)
(* Proofs about ChatThreads for any number of nodes, calls and messages.   *)
(***************************************************************************)
EXTENDS ChatThreads, TLAPS

USE NoneAssumption

(* Steps that change no more of a call than a handler or a caller does. *)
LEMMA CallStepType ==
  ASSUME TypeOK, NEW c \in Calls, call[c] # None,
         NEW st \in {"posted", "read", "refreshed", "ok", "failed"}
  PROVE  /\ call[c] \in Call
         /\ [call[c] EXCEPT !.server = st] \in Call
         /\ [call[c] EXCEPT !.waiting = FALSE] \in Call
         /\ Answer(c, st) => CallTypeOK'
         /\ Advance(c, st) => CallTypeOK'
<1>1. call[c] \in Call
  BY DEF TypeOK, CallTypeOK
<1>2. [call[c] EXCEPT !.server = st] \in Call
  BY <1>1 DEF Call
<1>3. [call[c] EXCEPT !.waiting = FALSE] \in Call
  BY <1>1 DEF Call
<1>4. /\ [call[c] EXCEPT !.server = st].op = call[c].op
      /\ [call[c] EXCEPT !.server = st].body = call[c].body
  BY <1>1 DEF Call
<1>5. Answer(c, st) => CallTypeOK'
  BY <1>2, <1>4 DEF Answer, TypeOK, CallTypeOK
<1>6. Advance(c, st) => CallTypeOK'
  BY <1>2, <1>4 DEF Advance, TypeOK, CallTypeOK
<1> QED
  BY <1>1, <1>2, <1>3, <1>5, <1>6

(* Every reachable state is well typed: a handler only ever moves a call to *)
(* another of its stages, and a row only takes one of the three statuses.   *)
LEMMA TypeCorrect == Spec => []TypeOK
<1> USE DEF TypeOK, CallTypeOK, Status, Row, LogEntry
<1>1. Init => TypeOK
  BY DEF Init
<1>2. TypeOK /\ [Next]_vars => TypeOK'
  <2> SUFFICES ASSUME TypeOK, [Next]_vars PROVE TypeOK'
    OBVIOUS
  <2>1. ASSUME NEW c \in Calls, NEW n \in Nodes, NEW m \in Nodes, Invite(c, n, m)
        PROVE  TypeOK'
    BY <2>1 DEF Invite, Post, Call, Ops
  <2>2. ASSUME NEW c \in Calls, NEW n \in Nodes, NEW m \in Nodes, Accept(c, n, m)
        PROVE  TypeOK'
    BY <2>2 DEF Accept, Post, Call, Ops
  <2>3. ASSUME NEW c \in Calls, NEW n \in Nodes, NEW m \in Nodes, Reject(c, n, m)
        PROVE  TypeOK'
    BY <2>3 DEF Reject, Post, Call, Ops
  <2>4. ASSUME NEW n \in Nodes, NEW m \in Nodes, RejectUnseen(n, m) PROVE TypeOK'
    BY <2>4 DEF RejectUnseen, DeleteThread
  <2>5. ASSUME NEW c \in Calls, NEW n \in Nodes, NEW m \in Nodes,
              NEW b \in Messages,
              Send(c, n, m, b) PROVE TypeOK'
    BY <2>5 DEF Send, Post, Call, Ops
  <2>6. ASSUME NEW n \in Nodes, NEW m \in Nodes, Delete(n, m) PROVE TypeOK'
    BY <2>6 DEF Delete, DeleteThread
  <2>7. ASSUME NEW c \in Calls, PeerInviteRead(c) PROVE TypeOK'
    <3>1. call[c] # None /\ call[c] \in Call
      BY <2>7 DEF PeerInviteRead, At
    <3>2. thread[Callee(c)][Caller(c)] \in Row
      BY <3>1 DEF Call, Caller, Callee
    <3> DEFINE k == [call[c] EXCEPT !.server = "read",
                                    !.seen = thread[Callee(c)][Caller(c)]]
    <3>3. k \in Call /\ k.op = call[c].op /\ k.body = call[c].body
      BY <3>1, <3>2 DEF Call
    <3>4. CASE Answer(c, "ok")
      BY <2>7, <3>1, <3>4, CallStepType DEF PeerInviteRead
    <3>5. CASE call' = [call EXCEPT ![c] = k]
      BY <2>7, <3>1, <3>3, <3>5 DEF PeerInviteRead
    <3>6. Answer(c, "ok") \/ call' = [call EXCEPT ![c] = k]
      BY <2>7 DEF PeerInviteRead
    <3> QED
      BY <3>4, <3>5, <3>6
  <2>8. ASSUME NEW c \in Calls, PeerInviteWrite(c) PROVE TypeOK'
    <3>1. call[c] # None /\ call[c] \in Call
      BY <2>8 DEF PeerInviteWrite, At
    <3>2. Caller(c) \in Nodes /\ Callee(c) \in Nodes
      BY <3>1 DEF Call, Caller, Callee
    <3>3. CallTypeOK'
      BY <2>8, <3>1, CallStepType DEF PeerInviteWrite, At, Advance
    <3> QED
      BY <2>8, <3>2, <3>3 DEF PeerInviteWrite, Upsert, Merged
  <2>9. ASSUME NEW c \in Calls, PeerAccept(c) PROVE TypeOK'
    <3>1. call[c] # None /\ call[c] \in Call
      BY <2>9 DEF PeerAccept, At
    <3>2. Caller(c) \in Nodes /\ Callee(c) \in Nodes
      BY <3>1 DEF Call, Caller, Callee
    <3>3. CallTypeOK'
      BY <2>9, <3>1, CallStepType DEF PeerAccept, At, Advance
    <3> QED
      BY <2>9, <3>2, <3>3 DEF PeerAccept, Upsert, Merged
  <2>10. ASSUME NEW c \in Calls, PeerReject(c) PROVE TypeOK'
    <3>1. call[c] # None /\ call[c] \in Call
      BY <2>10 DEF PeerReject, At
    <3>2. Caller(c) \in Nodes /\ Callee(c) \in Nodes
      BY <3>1 DEF Call, Caller, Callee
    <3>3. CallTypeOK'
      BY <2>10, <3>1, CallStepType DEF PeerReject, At, Advance
    <3> QED
      BY <2>10, <3>2, <3>3 DEF PeerReject, DeleteThread
  <2>11. ASSUME NEW c \in Calls, PeerMessageRead(c) PROVE TypeOK'
    <3>1. call[c] # None /\ call[c] \in Call
      BY <2>11 DEF PeerMessageRead, At
    <3>2. Caller(c) \in Nodes /\ Callee(c) \in Nodes
      BY <3>1 DEF Call, Caller, Callee
    <3>3. CallTypeOK'
      BY <2>11, <3>1, CallStepType DEF PeerMessageRead, At, Advance
    <3> QED
      BY <2>11, <3>2, <3>3 DEF PeerMessageRead
  <2>12. ASSUME NEW c \in Calls, PeerMessageRefresh(c) PROVE TypeOK'
    <3>1. call[c] # None /\ call[c] \in Call
      BY <2>12 DEF PeerMessageRefresh, At
    <3>2. Caller(c) \in Nodes /\ Callee(c) \in Nodes
      BY <3>1 DEF Call, Caller, Callee
    <3>3. CallTypeOK'
      BY <2>12, <3>1, CallStepType DEF PeerMessageRefresh, At, Advance
    <3> QED
      BY <2>12, <3>2, <3>3 DEF PeerMessageRefresh, Upsert, Merged
  <2>13. ASSUME NEW c \in Calls, PeerMessageAppend(c) PROVE TypeOK'
    <3>1. call[c] # None /\ call[c] \in Call
      BY <2>13 DEF PeerMessageAppend, At
    <3>2. Caller(c) \in Nodes /\ Callee(c) \in Nodes
      BY <3>1 DEF Call, Caller, Callee
    <3>3. call[c].body \in Messages
      BY <2>13, <3>1 DEF PeerMessageAppend, At
    <3>4. CallTypeOK'
      BY <2>13, <3>1, CallStepType DEF PeerMessageAppend
    <3> QED
      BY <2>13, <3>2, <3>3, <3>4 DEF PeerMessageAppend, AppendMessage, Answer
  <2>14. ASSUME NEW c \in Calls, InviteDone(c) PROVE TypeOK'
    <3>1. call[c] # None /\ call[c] \in Call
      BY <2>14 DEF InviteDone, At
    <3>2. Caller(c) \in Nodes /\ Callee(c) \in Nodes
      BY <3>1 DEF Call, Caller, Callee
    <3> QED
      BY <2>14, <3>2 DEF InviteDone, Upsert, Merged, End
  <2>15. ASSUME NEW c \in Calls, AcceptDone(c) PROVE TypeOK'
    <3>1. call[c] # None /\ call[c] \in Call
      BY <2>15 DEF AcceptDone, At
    <3>2. Caller(c) \in Nodes /\ Callee(c) \in Nodes
      BY <3>1 DEF Call, Caller, Callee
    <3> QED
      BY <2>15, <3>2 DEF AcceptDone, Upsert, Merged, End
  <2>16. ASSUME NEW c \in Calls, RejectDone(c) PROVE TypeOK'
    <3>1. call[c] # None /\ call[c] \in Call
      BY <2>16 DEF RejectDone, At
    <3>2. Caller(c) \in Nodes /\ Callee(c) \in Nodes
      BY <3>1 DEF Call, Caller, Callee
    <3> QED
      BY <2>16, <3>2 DEF RejectDone, DeleteThread, End
  <2>17. ASSUME NEW c \in Calls, SendDone(c) PROVE TypeOK'
    <3>1. call[c] # None /\ call[c] \in Call
      BY <2>17 DEF SendDone, At
    <3>2. Caller(c) \in Nodes /\ Callee(c) \in Nodes
      BY <3>1 DEF Call, Caller, Callee
    <3>3. call[c].body \in Messages
      BY <2>17, <3>1 DEF SendDone, At
    <3> QED
      BY <2>17, <3>2, <3>3 DEF SendDone, AppendMessage, End
  <2>18. ASSUME NEW c \in Calls, CallRefused(c) PROVE TypeOK'
    BY <2>18 DEF CallRefused, End
  <2>19. ASSUME NEW c \in Calls, Timeout(c) PROVE TypeOK'
    <3>1. call[c] \in Call /\ [call[c] EXCEPT !.waiting = FALSE] \in Call
      BY <2>19, CallStepType DEF Timeout
    <3>2. Caller(c) \in Nodes /\ Callee(c) \in Nodes
      BY <3>1 DEF Call, Caller, Callee
    <3>3. CallTypeOK'
      BY <2>19, <3>1 DEF Timeout, Call
    <3> DEFINE n == Caller(c)
               m == Callee(c)
    <3>4. DeleteThread(n, m) \/ UNCHANGED <<thread, log>>
      BY <2>19 DEF Timeout
    <3> HIDE DEF n, m
    <3>5. ASSUME DeleteThread(n, m)
          PROVE  /\ thread' \in [Nodes -> [Nodes -> Row]]
                 /\ log' \in [Nodes -> [Nodes -> SUBSET LogEntry]]
      BY <3>2, <3>5 DEF DeleteThread
    <3> QED
      BY <2>19, <3>3, <3>4, <3>5 DEF Timeout
  <2>20. ASSUME NEW c \in Calls, RequestLost(c) PROVE TypeOK'
    BY <2>20 DEF RequestLost, End
  <2>21. ASSUME NEW n \in Nodes, Crash(n) PROVE TypeOK'
    <3>1. ASSUME NEW c \in Calls, call[c] # None
          PROVE  /\ call[c] \in Call
                 /\ [call[c] EXCEPT !.server = "failed"] \in Call
                 /\ [call[c] EXCEPT !.waiting = FALSE] \in Call
      BY <3>1, CallStepType
    <3>2. CallTypeOK'
      BY <2>21, <3>1 DEF Crash
    <3> QED
      BY <2>21, <3>2 DEF Crash
  <2>22. CASE UNCHANGED vars
    BY <2>22 DEF vars
  <2> QED
    BY <2>1, <2>2, <2>3, <2>4, <2>5, <2>6, <2>7, <2>8, <2>9, <2>10, <2>11,
       <2>12, <2>13, <2>14, <2>15, <2>16, <2>17, <2>18, <2>19, <2>20, <2>21, <2>22
       DEF Next, UserRequest, PeerStep, CallerStep
<1> QED
  BY <1>1, <1>2, PTL DEF Spec

-----------------------------------------------------------------------------
(* The upsert writes one row, and an accepted one only as accepted. *)
LEMMA UpsertRow ==
  ASSUME TypeOK, NEW i \in Nodes, NEW j \in Nodes, NEW st, Upsert(i, j, st),
         NEW n \in Nodes, NEW m \in Nodes
  PROVE  thread'[n][m] = IF i = n /\ j = m THEN Merged(thread[n][m], st)
                                           ELSE thread[n][m]
BY DEF TypeOK, Upsert

(* Deleting a thread removes one row and its messages, and no other. *)
LEMMA DeleteRow ==
  ASSUME TypeOK, NEW i \in Nodes, NEW j \in Nodes, DeleteThread(i, j),
         NEW n \in Nodes, NEW m \in Nodes
  PROVE  /\ thread'[n][m] = IF i = n /\ j = m THEN None ELSE thread[n][m]
         /\ log'[n][m] = IF i = n /\ j = m THEN {} ELSE log[n][m]
BY DEF TypeOK, DeleteThread

(* A call has a caller and a callee that are nodes. *)
LEMMA Ends ==
  ASSUME TypeOK, NEW c \in Calls, call[c] # None
  PROVE  Caller(c) \in Nodes /\ Callee(c) \in Nodes
BY CallStepType DEF Call, Caller, Callee

(* Every step leaves the rows alone, merges one, or deletes one. *)
RowStep ==
    \/ UNCHANGED thread
    \/ \E i, j \in Nodes, st \in Status : Upsert(i, j, st)
    \/ \E i, j \in Nodes : DeleteThread(i, j)

(* Every step of the system changes the threads by one of these, or not.   *)
LEMMA RowSteps == TypeOK /\ [Next]_vars => RowStep
<1> SUFFICES ASSUME TypeOK, [Next]_vars PROVE RowStep
  OBVIOUS
<1> USE DEF RowStep
<1>1. ASSUME NEW c \in Calls, NEW n \in Nodes, NEW m \in Nodes, Invite(c, n, m)
      PROVE  RowStep
  BY <1>1 DEF Invite
<1>2. ASSUME NEW c \in Calls, NEW n \in Nodes, NEW m \in Nodes, Accept(c, n, m)
      PROVE  RowStep
  BY <1>2 DEF Accept
<1>3. ASSUME NEW c \in Calls, NEW n \in Nodes, NEW m \in Nodes, Reject(c, n, m)
      PROVE  RowStep
  BY <1>3 DEF Reject
<1>4. ASSUME NEW n \in Nodes, NEW m \in Nodes, RejectUnseen(n, m) PROVE RowStep
  BY <1>4 DEF RejectUnseen
<1>5. ASSUME NEW c \in Calls, NEW n \in Nodes, NEW m \in Nodes,
              NEW b \in Messages,
              Send(c, n, m, b) PROVE RowStep
  BY <1>5 DEF Send
<1>6. ASSUME NEW n \in Nodes, NEW m \in Nodes, Delete(n, m) PROVE RowStep
  BY <1>6 DEF Delete
<1>7. ASSUME NEW c \in Calls, PeerInviteRead(c) PROVE RowStep
  BY <1>7 DEF PeerInviteRead
<1>8. ASSUME NEW c \in Calls, PeerInviteWrite(c) PROVE RowStep
  BY <1>8, Ends DEF PeerInviteWrite, At, Status
<1>9. ASSUME NEW c \in Calls, PeerAccept(c) PROVE RowStep
  BY <1>9, Ends DEF PeerAccept, At, Status
<1>10. ASSUME NEW c \in Calls, PeerReject(c) PROVE RowStep
  BY <1>10, Ends DEF PeerReject, At, Status
<1>11. ASSUME NEW c \in Calls, PeerMessageRead(c) PROVE RowStep
  BY <1>11 DEF PeerMessageRead
<1>12. ASSUME NEW c \in Calls, PeerMessageRefresh(c) PROVE RowStep
  BY <1>12, Ends DEF PeerMessageRefresh, At, Status
<1>13. ASSUME NEW c \in Calls, PeerMessageAppend(c) PROVE RowStep
  BY <1>13 DEF PeerMessageAppend
<1>14. ASSUME NEW c \in Calls, InviteDone(c) PROVE RowStep
  BY <1>14, Ends DEF InviteDone, At, Status
<1>15. ASSUME NEW c \in Calls, AcceptDone(c) PROVE RowStep
  BY <1>15, Ends DEF AcceptDone, At, Status
<1>16. ASSUME NEW c \in Calls, RejectDone(c) PROVE RowStep
  BY <1>16, Ends DEF RejectDone, At, Status
<1>17. ASSUME NEW c \in Calls, SendDone(c) PROVE RowStep
  BY <1>17 DEF SendDone
<1>18. ASSUME NEW c \in Calls, CallRefused(c) PROVE RowStep
  BY <1>18 DEF CallRefused
<1>19. ASSUME NEW c \in Calls, Timeout(c) PROVE RowStep
  BY <1>19, Ends DEF Timeout
<1>20. ASSUME NEW c \in Calls, RequestLost(c) PROVE RowStep
  BY <1>20 DEF RequestLost
<1>21. ASSUME NEW n \in Nodes, Crash(n) PROVE RowStep
  BY <1>21 DEF Crash
<1>22. CASE UNCHANGED vars
  BY <1>22 DEF vars
<1> QED
  BY <1>1, <1>2, <1>3, <1>4, <1>5, <1>6, <1>7, <1>8, <1>9, <1>10, <1>11,
     <1>12, <1>13, <1>14, <1>15, <1>16, <1>17, <1>18, <1>19, <1>20, <1>21, <1>22
     DEF Next, UserRequest, PeerStep, CallerStep

(* An accepted row stays accepted or is deleted, in any step of any node. *)
THEOREM AcceptedStays == Spec => AcceptedNeverRegresses
<1>1. ASSUME TypeOK, [Next]_vars, NEW n \in Nodes, NEW m \in Nodes, thread[n][m] = "accepted"
      PROVE  thread'[n][m] \in {"accepted", None}
  <2>1. CASE UNCHANGED thread
    BY <1>1, <2>1
  <2>2. ASSUME NEW i \in Nodes, NEW j \in Nodes, NEW st \in Status, Upsert(i, j, st)
        PROVE  thread'[n][m] = "accepted"
    BY <1>1, <2>2, UpsertRow DEF Merged
  <2>3. ASSUME NEW i \in Nodes, NEW j \in Nodes, DeleteThread(i, j)
        PROVE  thread'[n][m] \in {"accepted", None}
    BY <1>1, <2>3, DeleteRow
  <2> QED
    BY <1>1, <2>1, <2>2, <2>3, RowSteps DEF RowStep
<1>2. TypeOK /\ [Next]_vars =>
        [\A n, m \in Nodes :
            thread[n][m] = "accepted" => thread'[n][m] \in {"accepted", None}]_vars
  BY <1>1
<1> QED
  BY <1>2, TypeCorrect, PTL DEF Spec, AcceptedNeverRegresses
-----------------------------------------------------------------------------
(* Consent *)

(* What the consent of a call rests on is never edited while it lasts. *)
CallsKept ==
    \A c \in Calls : call'[c] # None =>
        /\ call[c] # None
        /\ call'[c].op = call[c].op
        /\ call'[c].from = call[c].from
        /\ call'[c].to = call[c].to
        /\ call'[c].body = call[c].body
        /\ call'[c].seen = call[c].seen

(* A handler's or caller's step on call c keeps every call or ends it. *)
LEMMA StepKeepsCalls ==
  ASSUME TypeOK, NEW c \in Calls, call[c] # None,
         NEW st \in {"posted", "read", "refreshed", "ok", "failed"},
         Answer(c, st) \/ Advance(c, st) \/ End(c)
  PROVE  CallsKept
<1>1. call[c] \in Call
  BY CallStepType
<1> DEFINE k == [call[c] EXCEPT !.server = st]
<1>2. /\ k.op = call[c].op /\ k.from = call[c].from /\ k.to = call[c].to
      /\ k.body = call[c].body /\ k.seen = call[c].seen
  BY <1>1 DEF Call
<1>3. call' = [call EXCEPT ![c] = k] \/ call' = [call EXCEPT ![c] = None]
  BY DEF Answer, Advance, End
<1> HIDE DEF k
<1> QED
  BY <1>2, <1>3 DEF CallsKept, TypeOK, CallTypeOK

(* Kept calls with no less consent given still stand for consent. *)
LEMMA KeptCallsHaveConsent ==
  ASSUME CallsHaveConsent, CallsKept, consent \subseteq consent'
  PROVE  CallsHaveConsent'
BY DEF CallsHaveConsent, CallsKept, MutualConsent, Caller, Callee

(* The consent a row of this status stands for. *)
StatusConsent(n, m, st) ==
    /\ st = "outgoing_pending" => <<n, m>> \in consent
    /\ st = "incoming_pending" => <<m, n>> \in consent
    /\ st = "accepted" => MutualConsent(n, m)

LogConsent(n, m) ==
    (\E b \in Messages : <<"received", b>> \in log[n][m]) => MutualConsent(n, m)

RowConsent ==
    \A n, m \in Nodes : StatusConsent(n, m, thread[n][m]) /\ LogConsent(n, m)

(* Rows and calls together are the invariant. *)
LEMMA ConsentSplit == ConsentInv <=> RowConsent /\ CallsHaveConsent
BY DEF ConsentInv, AcceptedByConsent, RowsHaveConsent, RowConsent, StatusConsent,
       LogConsent

(* The consent of rows nobody touches, *)
LEMMA UntouchedRows ==
  ASSUME RowConsent, UNCHANGED <<thread, log>>, consent \subseteq consent'
  PROVE  RowConsent'
BY DEF RowConsent, StatusConsent, LogConsent, MutualConsent

(* of the rows left when one is deleted, *)
LEMMA DeletedRow ==
  ASSUME TypeOK, RowConsent, NEW i \in Nodes, NEW j \in Nodes, DeleteThread(i, j),
         UNCHANGED consent
  PROVE  RowConsent'
<1> SUFFICES ASSUME NEW n \in Nodes, NEW m \in Nodes
             PROVE  (StatusConsent(n, m, thread[n][m]) /\ LogConsent(n, m))'
  BY DEF RowConsent
<1>1. /\ thread'[n][m] \in {None, thread[n][m]}
      /\ log'[n][m] \in {{}, log[n][m]}
  BY DeleteRow
<1> QED
  BY <1>1 DEF RowConsent, StatusConsent, LogConsent, MutualConsent, Status

(* and of a row that takes a status there is consent for. *)
LEMMA UpsertedRow ==
  ASSUME TypeOK, RowConsent, NEW i \in Nodes, NEW j \in Nodes, NEW st \in Status,
         Upsert(i, j, st), StatusConsent(i, j, st), UNCHANGED <<log, consent>>
  PROVE  RowConsent'
<1> SUFFICES ASSUME NEW n \in Nodes, NEW m \in Nodes
             PROVE  (StatusConsent(n, m, thread[n][m]) /\ LogConsent(n, m))'
  BY DEF RowConsent
<1>1. thread'[n][m] \in {thread[n][m], IF i = n /\ j = m THEN st ELSE thread[n][m]}
  BY UpsertRow DEF Merged
<1> QED
  BY <1>1 DEF RowConsent, StatusConsent, LogConsent, MutualConsent

(* The two parts of the invariant survive every step. *)
LEMMA ConsentSteps ==
  TypeOK /\ TypeOK' /\ ConsentInv /\ [Next]_vars => ConsentInv'
<1> SUFFICES ASSUME TypeOK, TypeOK', ConsentInv, [Next]_vars PROVE ConsentInv'
  OBVIOUS
<1>0. RowConsent /\ CallsHaveConsent
  BY ConsentSplit
<1> SUFFICES RowConsent' /\ CallsHaveConsent'
  BY DEF ConsentInv, AcceptedByConsent, RowsHaveConsent, RowConsent, StatusConsent,
         LogConsent, MutualConsent
<1> USE DEF StatusConsent
<1>1. ASSUME NEW c \in Calls, NEW n \in Nodes, NEW m \in Nodes, Invite(c, n, m)
      PROVE  RowConsent' /\ CallsHaveConsent'
  <2>1. RowConsent'
    BY <1>1, <1>0, UntouchedRows DEF Invite
  <2>2. /\ call'[c].op = "invite" /\ call'[c].from = n /\ call'[c].to = m
        /\ call'[c].seen = None
        /\ \A d \in Calls : d # c => call'[d] = call[d]
    BY <1>1 DEF Invite, Post, TypeOK, CallTypeOK
  <2>3. consent \subseteq consent' /\ <<n, m>> \in consent'
    BY <1>1, <1>0 DEF Invite, RowConsent, MutualConsent
  <2>4. CallsHaveConsent'
    BY <1>0, <2>2, <2>3 DEF CallsHaveConsent, MutualConsent, Caller, Callee, Status
  <2> QED
    BY <2>1, <2>4
<1>2. ASSUME NEW c \in Calls, NEW n \in Nodes, NEW m \in Nodes, Accept(c, n, m)
      PROVE  RowConsent' /\ CallsHaveConsent'
  <2>1. RowConsent'
    BY <1>2, <1>0, UntouchedRows DEF Accept
  <2>2. /\ call'[c].op = "accept" /\ call'[c].from = n /\ call'[c].to = m
        /\ call'[c].seen = None
        /\ \A d \in Calls : d # c => call'[d] = call[d]
    BY <1>2 DEF Accept, Post, TypeOK, CallTypeOK
  <2>3. consent \subseteq consent' /\ MutualConsent(n, m)'
    BY <1>2, <1>0 DEF Accept, RowConsent, MutualConsent
  <2>4. CallsHaveConsent'
    BY <1>0, <2>2, <2>3 DEF CallsHaveConsent, MutualConsent, Caller, Callee, Status
  <2> QED
    BY <2>1, <2>4
<1>3. ASSUME NEW c \in Calls, NEW n \in Nodes, NEW m \in Nodes, Reject(c, n, m)
      PROVE  RowConsent' /\ CallsHaveConsent'
  <2>1. RowConsent'
    BY <1>3, <1>0, UntouchedRows DEF Reject
  <2>2. /\ call'[c].op = "reject" /\ call'[c].from = n /\ call'[c].to = m
        /\ call'[c].seen = None
        /\ \A d \in Calls : d # c => call'[d] = call[d]
    BY <1>3 DEF Reject, Post, TypeOK, CallTypeOK
  <2>3. consent \subseteq consent' /\ UNCHANGED consent
    BY <1>3, <1>0 DEF Reject, RowConsent, MutualConsent
  <2>4. CallsHaveConsent'
    BY <1>0, <2>2, <2>3 DEF CallsHaveConsent, MutualConsent, Caller, Callee, Status
  <2> QED
    BY <2>1, <2>4
<1>4. ASSUME NEW n \in Nodes, NEW m \in Nodes, RejectUnseen(n, m)
      PROVE  RowConsent' /\ CallsHaveConsent'
  <2>1. RowConsent'
    BY <1>4, <1>0, DeletedRow DEF RejectUnseen
  <2>2. CallsHaveConsent'
    BY <1>4, <1>0 DEF RejectUnseen, CallsHaveConsent, MutualConsent, Caller, Callee
  <2> QED
    BY <2>1, <2>2
<1>5. ASSUME NEW c \in Calls, NEW n \in Nodes, NEW m \in Nodes,
              NEW b \in Messages,
              Send(c, n, m, b) PROVE RowConsent' /\ CallsHaveConsent'
  <2>1. RowConsent'
    BY <1>5, <1>0, UntouchedRows DEF Send
  <2>2. /\ call'[c].op = "message" /\ call'[c].from = n /\ call'[c].to = m
        /\ call'[c].seen = None
        /\ \A d \in Calls : d # c => call'[d] = call[d]
    BY <1>5 DEF Send, Post, TypeOK, CallTypeOK
  <2>3. consent \subseteq consent' /\ MutualConsent(n, m)
    BY <1>5, <1>0 DEF Send, RowConsent, MutualConsent
  <2>4. CallsHaveConsent'
    BY <1>0, <2>2, <2>3 DEF CallsHaveConsent, MutualConsent, Caller, Callee, Status
  <2> QED
    BY <2>1, <2>4
<1>6. ASSUME NEW n \in Nodes, NEW m \in Nodes, Delete(n, m)
      PROVE  RowConsent' /\ CallsHaveConsent'
  <2>1. RowConsent'
    BY <1>6, <1>0, DeletedRow DEF Delete
  <2>2. CallsHaveConsent'
    BY <1>6, <1>0 DEF Delete, CallsHaveConsent, MutualConsent, Caller, Callee
  <2> QED
    BY <2>1, <2>2
<1>7. ASSUME NEW c \in Calls, PeerInviteRead(c)
      PROVE  RowConsent' /\ CallsHaveConsent'
  <2>1. RowConsent'
    BY <1>7, <1>0, UntouchedRows DEF PeerInviteRead
  <2>2. CallsHaveConsent'
    <3>1. CASE Answer(c, "ok")
      BY <1>7, <3>1, <1>0, StepKeepsCalls, KeptCallsHaveConsent DEF PeerInviteRead,
         At
    <3>2. CASE call' = [call EXCEPT ![c].server = "read",
                                    ![c].seen = thread[Callee(c)][Caller(c)]]
      <4>1. call[c] \in Call /\ call[c].op = "invite"
        BY <1>7, CallStepType DEF PeerInviteRead, At
      <4>2. /\ call'[c].op = call[c].op /\ call'[c].from = call[c].from
            /\ call'[c].to = call[c].to
            /\ call'[c].seen = thread[Callee(c)][Caller(c)]
            /\ \A d \in Calls : d # c => call'[d] = call[d]
        BY <3>2, <4>1 DEF TypeOK, CallTypeOK, Call
      <4>3. Caller(c) \in Nodes /\ Callee(c) \in Nodes /\ call[c] # None
        BY <1>7, Ends DEF PeerInviteRead, At
      <4> QED
        BY <1>7, <4>1, <4>2, <4>3, <1>0 DEF PeerInviteRead, CallsHaveConsent,
           RowConsent,
           MutualConsent, Caller, Callee
    <3> QED
      BY <1>7, <3>1, <3>2 DEF PeerInviteRead
  <2> QED
    BY <2>1, <2>2
<1>8. ASSUME NEW c \in Calls, PeerInviteWrite(c)
      PROVE  RowConsent' /\ CallsHaveConsent'
  <2>1. /\ call[c] # None
        /\ CallsKept
        /\ UNCHANGED consent
    BY <1>8, StepKeepsCalls DEF PeerInviteWrite, At
  <2>2. CallsHaveConsent'
    BY <2>1, <1>0, KeptCallsHaveConsent
  <2>3. RowConsent'
    <3> DEFINE st == IF call[c].seen = "outgoing_pending" THEN "accepted"
                                                          ELSE "incoming_pending"
    <3>1. StatusConsent(Callee(c), Caller(c), st)
      BY <1>8, <1>0 DEF PeerInviteWrite, At, CallsHaveConsent, MutualConsent
    <3> QED
      BY <1>8, <2>1, <1>0, <3>1, UpsertedRow, Ends DEF PeerInviteWrite, Status
  <2> QED
    BY <2>2, <2>3
<1>9. ASSUME NEW c \in Calls, PeerAccept(c) PROVE RowConsent' /\ CallsHaveConsent'
  <2>1. /\ call[c] # None
        /\ CallsKept
        /\ UNCHANGED consent
    BY <1>9, StepKeepsCalls DEF PeerAccept, At
  <2>2. CallsHaveConsent'
    BY <2>1, <1>0, KeptCallsHaveConsent
  <2>3. RowConsent'
    <3>1. StatusConsent(Callee(c), Caller(c), "accepted")
      BY <1>9, <1>0 DEF PeerAccept, At, CallsHaveConsent, MutualConsent
    <3> QED
      BY <1>9, <2>1, <1>0, <3>1, UpsertedRow, Ends DEF PeerAccept, Status
  <2> QED
    BY <2>2, <2>3
<1>10. ASSUME NEW c \in Calls, PeerReject(c) PROVE RowConsent' /\ CallsHaveConsent'
  <2>1. /\ call[c] # None
        /\ CallsKept
        /\ UNCHANGED consent
    BY <1>10, StepKeepsCalls DEF PeerReject, At
  <2>2. CallsHaveConsent'
    BY <2>1, <1>0, KeptCallsHaveConsent
  <2>3. RowConsent'
    BY <1>10, <2>1, <1>0, DeletedRow, Ends DEF PeerReject
  <2> QED
    BY <2>2, <2>3
<1>11. ASSUME NEW c \in Calls, PeerMessageRead(c)
       PROVE  RowConsent' /\ CallsHaveConsent'
  <2>1. /\ call[c] # None
        /\ CallsKept
        /\ UNCHANGED consent
    BY <1>11, StepKeepsCalls DEF PeerMessageRead, At
  <2>2. CallsHaveConsent'
    BY <2>1, <1>0, KeptCallsHaveConsent
  <2>3. RowConsent'
    BY <1>11, <2>1, <1>0, UntouchedRows DEF PeerMessageRead
  <2> QED
    BY <2>2, <2>3
<1>12. ASSUME NEW c \in Calls, PeerMessageRefresh(c)
       PROVE  RowConsent' /\ CallsHaveConsent'
  <2>1. /\ call[c] # None
        /\ CallsKept
        /\ UNCHANGED consent
    BY <1>12, StepKeepsCalls DEF PeerMessageRefresh, At
  <2>2. CallsHaveConsent'
    BY <2>1, <1>0, KeptCallsHaveConsent
  <2>3. RowConsent'
    <3>1. StatusConsent(Callee(c), Caller(c), "accepted")
      BY <1>12, <1>0 DEF PeerMessageRefresh, At, CallsHaveConsent, MutualConsent
    <3> QED
      BY <1>12, <2>1, <1>0, <3>1, UpsertedRow, Ends DEF PeerMessageRefresh, Status
  <2> QED
    BY <2>2, <2>3
<1>13. ASSUME NEW c \in Calls, PeerMessageAppend(c)
       PROVE  RowConsent' /\ CallsHaveConsent'
  <2>1. /\ call[c] # None
        /\ CallsKept
        /\ UNCHANGED consent
    BY <1>13, StepKeepsCalls DEF PeerMessageAppend, At
  <2>2. CallsHaveConsent'
    BY <2>1, <1>0, KeptCallsHaveConsent
  <2>3. RowConsent'
    <3>1. MutualConsent(Callee(c), Caller(c))
      BY <1>13, <1>0 DEF PeerMessageAppend, At, CallsHaveConsent, MutualConsent
    <3> SUFFICES ASSUME NEW n \in Nodes, NEW m \in Nodes
                 PROVE  (StatusConsent(n, m, thread[n][m]) /\ LogConsent(n, m))'
      BY DEF RowConsent
    <3>2. log'[n][m] = log[n][m] \/ (Callee(c) = n /\ Caller(c) = m)
      BY <1>13, <2>1, Ends DEF PeerMessageAppend, AppendMessage, TypeOK
    <3> QED
      BY <1>13, <2>1, <1>0, <3>1, <3>2 DEF PeerMessageAppend, RowConsent,
         LogConsent, MutualConsent
  <2> QED
    BY <2>2, <2>3
<1>14. ASSUME NEW c \in Calls, InviteDone(c) PROVE RowConsent' /\ CallsHaveConsent'
  <2>1. /\ call[c] # None
        /\ CallsKept
        /\ UNCHANGED consent
    BY <1>14, StepKeepsCalls DEF InviteDone, At
  <2>2. CallsHaveConsent'
    BY <2>1, <1>0, KeptCallsHaveConsent
  <2>3. RowConsent'
    <3>1. StatusConsent(Caller(c), Callee(c), "outgoing_pending")
      BY <1>14, <1>0 DEF InviteDone, At, CallsHaveConsent, MutualConsent
    <3> QED
      BY <1>14, <2>1, <1>0, <3>1, UpsertedRow, Ends DEF InviteDone, Status
  <2> QED
    BY <2>2, <2>3
<1>15. ASSUME NEW c \in Calls, AcceptDone(c) PROVE RowConsent' /\ CallsHaveConsent'
  <2>1. /\ call[c] # None
        /\ CallsKept
        /\ UNCHANGED consent
    BY <1>15, StepKeepsCalls DEF AcceptDone, At
  <2>2. CallsHaveConsent'
    BY <2>1, <1>0, KeptCallsHaveConsent
  <2>3. RowConsent'
    <3>1. StatusConsent(Caller(c), Callee(c), "accepted")
      BY <1>15, <1>0 DEF AcceptDone, At, CallsHaveConsent, MutualConsent
    <3> QED
      BY <1>15, <2>1, <1>0, <3>1, UpsertedRow, Ends DEF AcceptDone, Status
  <2> QED
    BY <2>2, <2>3
<1>16. ASSUME NEW c \in Calls, RejectDone(c) PROVE RowConsent' /\ CallsHaveConsent'
  <2>1. /\ call[c] # None
        /\ CallsKept
        /\ UNCHANGED consent
    BY <1>16, StepKeepsCalls DEF RejectDone, At
  <2>2. CallsHaveConsent'
    BY <2>1, <1>0, KeptCallsHaveConsent
  <2>3. RowConsent'
    BY <1>16, <2>1, <1>0, DeletedRow, Ends DEF RejectDone
  <2> QED
    BY <2>2, <2>3
<1>17. ASSUME NEW c \in Calls, SendDone(c) PROVE RowConsent' /\ CallsHaveConsent'
  <2>1. /\ call[c] # None
        /\ CallsKept
        /\ UNCHANGED consent
    BY <1>17, StepKeepsCalls DEF SendDone, At
  <2>2. CallsHaveConsent'
    BY <2>1, <1>0, KeptCallsHaveConsent
  <2>3. RowConsent'
    <3>1. MutualConsent(Caller(c), Callee(c))
      BY <1>17, <1>0 DEF SendDone, At, CallsHaveConsent, MutualConsent
    <3> SUFFICES ASSUME NEW n \in Nodes, NEW m \in Nodes
                 PROVE  (StatusConsent(n, m, thread[n][m]) /\ LogConsent(n, m))'
      BY DEF RowConsent
    <3>2. log'[n][m] = log[n][m] \/ (Caller(c) = n /\ Callee(c) = m)
      BY <1>17, <2>1, Ends DEF SendDone, AppendMessage, TypeOK
    <3> QED
      BY <1>17, <2>1, <1>0, <3>1, <3>2 DEF SendDone, RowConsent, LogConsent,
         MutualConsent
  <2> QED
    BY <2>2, <2>3
<1>18. ASSUME NEW c \in Calls, CallRefused(c) PROVE RowConsent' /\ CallsHaveConsent'
  <2>1. /\ call[c] # None
        /\ CallsKept
        /\ UNCHANGED consent
    BY <1>18, StepKeepsCalls DEF CallRefused, At
  <2>2. CallsHaveConsent'
    BY <2>1, <1>0, KeptCallsHaveConsent
  <2>3. RowConsent'
    BY <1>18, <2>1, <1>0, UntouchedRows DEF CallRefused
  <2> QED
    BY <2>2, <2>3
<1>19. ASSUME NEW c \in Calls, Timeout(c) PROVE RowConsent' /\ CallsHaveConsent'
  <2>1. call[c] # None /\ call[c] \in Call /\ UNCHANGED consent
    BY <1>19, CallStepType DEF Timeout
  <2>2. RowConsent'
    <3>1. DeleteThread(Caller(c), Callee(c)) \/ UNCHANGED <<thread, log>>
      BY <1>19 DEF Timeout
    <3> QED
      BY <2>1, <3>1, <1>0, DeletedRow, UntouchedRows, Ends
  <2>3. CallsKept
    BY <1>19, <2>1 DEF Timeout, CallsKept, TypeOK, CallTypeOK, Call
  <2> QED
    BY <2>1, <2>2, <2>3, <1>0, KeptCallsHaveConsent
<1>20. ASSUME NEW c \in Calls, RequestLost(c) PROVE RowConsent' /\ CallsHaveConsent'
  <2>1. /\ call[c] # None
        /\ CallsKept
        /\ UNCHANGED consent
    BY <1>20, StepKeepsCalls DEF RequestLost, At
  <2>2. CallsHaveConsent'
    BY <2>1, <1>0, KeptCallsHaveConsent
  <2>3. RowConsent'
    BY <1>20, <2>1, <1>0, UntouchedRows DEF RequestLost
  <2> QED
    BY <2>2, <2>3
<1>21. ASSUME NEW n \in Nodes, Crash(n) PROVE RowConsent' /\ CallsHaveConsent'
  <2>1. RowConsent' /\ UNCHANGED consent
    BY <1>21, <1>0, UntouchedRows DEF Crash
  <2>2. CallsKept
    <3>1. ASSUME NEW c \in Calls, call'[c] # None
          PROVE  /\ call[c] # None
                 /\ call'[c] \in {call[c], [call[c] EXCEPT !.server = "failed"],
                                  [call[c] EXCEPT !.waiting = FALSE]}
      BY <1>21, <3>1 DEF Crash
    <3>2. ASSUME NEW c \in Calls, call[c] # None
          PROVE  call[c] \in Call
      BY <3>2, CallStepType
    <3> QED
      BY <3>1, <3>2 DEF CallsKept, Call
  <2> QED
    BY <2>1, <2>2, <1>0, KeptCallsHaveConsent
<1>22. CASE UNCHANGED vars
  <2>1. RowConsent' /\ CallsHaveConsent'
    BY <1>22, <1>0, UntouchedRows DEF vars, CallsHaveConsent, MutualConsent, Caller,
       Callee
  <2> QED
    BY <2>1
<1> QED
  BY <1>1, <1>2, <1>3, <1>4, <1>5, <1>6, <1>7, <1>8, <1>9, <1>10, <1>11,
     <1>12, <1>13, <1>14, <1>15, <1>16, <1>17, <1>18, <1>19, <1>20, <1>21, <1>22
     DEF Next, UserRequest, PeerStep, CallerStep

(* A node accepts a thread with a peer, and stores a message from it, only *)
(* when each of the two invited the other or accepted its invite.          *)
THEOREM ConsentHolds == Spec => []AcceptedByConsent
<1>1. Init => ConsentInv
  BY DEF Init, ConsentInv, AcceptedByConsent, RowsHaveConsent, CallsHaveConsent,
     Status
<1>2. ConsentInv => AcceptedByConsent
  BY DEF ConsentInv
<1> QED
  BY <1>1, <1>2, ConsentSteps, TypeCorrect, PTL DEF Spec

-----------------------------------------------------------------------------
(* Delivery *)

NoLogGrows ==
    \A n, m \in Nodes, b \in Messages :
        <<"sent", b>> \in log'[n][m] => <<"sent", b>> \in log[n][m]

(* Deleting a row deletes messages. *)
LEMMA DeletedLog ==
  ASSUME TypeOK, NEW i \in Nodes, NEW j \in Nodes, DeleteThread(i, j)
  PROVE  NoLogGrows
<1> SUFFICES ASSUME NEW n \in Nodes, NEW m \in Nodes, NEW b \in Messages,
                    <<"sent", b>> \in log'[n][m]
             PROVE  <<"sent", b>> \in log[n][m]
  BY DEF NoLogGrows
<1>1. log'[n][m] \in {{}, log[n][m]}
  BY DeleteRow
<1> QED
  BY <1>1

(* No message call comes to be answered, and no entry to be kept as sent. *)
NothingSent ==
    /\ delivered \subseteq delivered'
    /\ \A c \in Calls : At(c, "message", "ok")' =>
        /\ At(c, "message", "ok")
        /\ call'[c].from = call[c].from
        /\ call'[c].to = call[c].to
        /\ call'[c].body = call[c].body
    /\ NoLogGrows

(* Such a step preserves the invariant. *)
LEMMA NothingSentKeeps == DeliveryInv /\ NothingSent => DeliveryInv'
BY DEF DeliveryInv, SentWasDelivered, AnsweredWasDelivered, NothingSent, NoLogGrows,
       At, Caller, Callee

(* Every step but the storing of a message at either end is one. *)
LEMMA DeliverySteps ==
  TypeOK /\ DeliveryInv /\ [Next]_vars => DeliveryInv'
<1> SUFFICES ASSUME TypeOK, DeliveryInv, [Next]_vars PROVE DeliveryInv'
  OBVIOUS
<1>1. ASSUME NEW c \in Calls, NEW n \in Nodes, NEW m \in Nodes, Invite(c, n, m)
      PROVE  DeliveryInv'
  <2>1. NothingSent
    BY <1>1 DEF Invite, NothingSent, NoLogGrows, At, TypeOK, CallTypeOK, Post
  <2> QED
    BY <2>1, NothingSentKeeps
<1>2. ASSUME NEW c \in Calls, NEW n \in Nodes, NEW m \in Nodes, Accept(c, n, m)
      PROVE  DeliveryInv'
  <2>1. NothingSent
    BY <1>2 DEF Accept, NothingSent, NoLogGrows, At, TypeOK, CallTypeOK, Post
  <2> QED
    BY <2>1, NothingSentKeeps
<1>3. ASSUME NEW c \in Calls, NEW n \in Nodes, NEW m \in Nodes, Reject(c, n, m)
      PROVE  DeliveryInv'
  <2>1. NothingSent
    BY <1>3 DEF Reject, NothingSent, NoLogGrows, At, TypeOK, CallTypeOK, Post
  <2> QED
    BY <2>1, NothingSentKeeps
<1>4. ASSUME NEW n \in Nodes, NEW m \in Nodes, RejectUnseen(n, m) PROVE DeliveryInv'
  <2>1. NoLogGrows
    BY <1>4, DeletedLog DEF RejectUnseen
  <2>2. NothingSent
    BY <1>4, <2>1 DEF RejectUnseen, NothingSent, At, TypeOK, CallTypeOK
  <2> QED
    BY <2>2, NothingSentKeeps
<1>5. ASSUME NEW c \in Calls, NEW n \in Nodes, NEW m \in Nodes,
              NEW b \in Messages,
              Send(c, n, m, b) PROVE DeliveryInv'
  <2>1. NothingSent
    BY <1>5 DEF Send, NothingSent, NoLogGrows, At, TypeOK, CallTypeOK, Post
  <2> QED
    BY <2>1, NothingSentKeeps
<1>6. ASSUME NEW n \in Nodes, NEW m \in Nodes, Delete(n, m) PROVE DeliveryInv'
  <2>1. NoLogGrows
    BY <1>6, DeletedLog DEF Delete
  <2>2. NothingSent
    BY <1>6, <2>1 DEF Delete, NothingSent, At, TypeOK, CallTypeOK
  <2> QED
    BY <2>2, NothingSentKeeps
<1>7. ASSUME NEW c \in Calls, PeerInviteRead(c) PROVE DeliveryInv'
  <2>1. call[c] # None /\ call[c] \in Call
    BY <1>7, CallStepType DEF PeerInviteRead, At
  <2>2. NothingSent
    BY <1>7, <2>1 DEF PeerInviteRead, NothingSent, NoLogGrows, At, TypeOK,
       CallTypeOK, Call, Answer, Advance
  <2> QED
    BY <2>2, NothingSentKeeps
<1>8. ASSUME NEW c \in Calls, PeerInviteWrite(c) PROVE DeliveryInv'
  <2>1. call[c] # None /\ call[c] \in Call
    BY <1>8, CallStepType DEF PeerInviteWrite, At
  <2>2. NothingSent
    BY <1>8, <2>1 DEF PeerInviteWrite, NothingSent, NoLogGrows, At, TypeOK,
       CallTypeOK, Call, Answer, Advance
  <2> QED
    BY <2>2, NothingSentKeeps
<1>9. ASSUME NEW c \in Calls, PeerAccept(c) PROVE DeliveryInv'
  <2>1. call[c] # None /\ call[c] \in Call
    BY <1>9, CallStepType DEF PeerAccept, At
  <2>2. NothingSent
    BY <1>9, <2>1 DEF PeerAccept, NothingSent, NoLogGrows, At, TypeOK,
       CallTypeOK, Call, Answer, Advance
  <2> QED
    BY <2>2, NothingSentKeeps
<1>10. ASSUME NEW c \in Calls, PeerReject(c) PROVE DeliveryInv'
  <2>1. call[c] # None /\ call[c] \in Call
    BY <1>10, CallStepType DEF PeerReject, At
  <2>2. NoLogGrows
    BY <1>10, <2>1, DeletedLog, Ends DEF PeerReject
  <2>3. NothingSent
    BY <1>10, <2>1, <2>2 DEF PeerReject, NothingSent, At, TypeOK, CallTypeOK,
       Call, Answer
  <2> QED
    BY <2>3, NothingSentKeeps
<1>11. ASSUME NEW c \in Calls, PeerMessageRead(c) PROVE DeliveryInv'
  <2>1. call[c] # None /\ call[c] \in Call
    BY <1>11, CallStepType DEF PeerMessageRead, At
  <2>2. NothingSent
    BY <1>11, <2>1 DEF PeerMessageRead, NothingSent, NoLogGrows, At, TypeOK,
       CallTypeOK, Call, Answer, Advance
  <2> QED
    BY <2>2, NothingSentKeeps
<1>12. ASSUME NEW c \in Calls, PeerMessageRefresh(c) PROVE DeliveryInv'
  <2>1. call[c] # None /\ call[c] \in Call
    BY <1>12, CallStepType DEF PeerMessageRefresh, At
  <2>2. NothingSent
    BY <1>12, <2>1 DEF PeerMessageRefresh, NothingSent, NoLogGrows, At, TypeOK,
       CallTypeOK, Call, Advance
  <2> QED
    BY <2>2, NothingSentKeeps
<1>13. ASSUME NEW c \in Calls, PeerMessageAppend(c) PROVE DeliveryInv'
  <2>1. call[c] # None /\ call[c] \in Call /\ Caller(c) \in Nodes /\ Callee(c) \in Nodes
    BY <1>13, CallStepType, Ends DEF PeerMessageAppend, At
  <2>2. ASSUME NEW n \in Nodes, NEW m \in Nodes, NEW b \in Messages,
               <<"sent", b>> \in log'[n][m]
        PROVE  <<"sent", b>> \in log[n][m]
    BY <1>13, <2>1, <2>2 DEF PeerMessageAppend, AppendMessage, TypeOK
  <2>3. ASSUME NEW d \in Calls, At(d, "message", "ok")', d # c
        PROVE  At(d, "message", "ok") /\ call'[d] = call[d]
    BY <1>13, <2>3 DEF PeerMessageAppend, Answer, At, TypeOK, CallTypeOK
  <2>4. call'[c] # None => /\ call'[c].from = call[c].from /\ call'[c].to = call[c].to
                           /\ call'[c].body = call[c].body
    BY <1>13, <2>1 DEF PeerMessageAppend, Answer, TypeOK, CallTypeOK, Call
  <2>5. delivered' = delivered \cup {<<Caller(c), Callee(c), call[c].body>>}
    BY <1>13 DEF PeerMessageAppend
  <2>6. AnsweredWasDelivered'
    BY <2>3, <2>4, <2>5 DEF DeliveryInv, AnsweredWasDelivered, At, Caller, Callee
  <2>7. SentWasDelivered'
    BY <2>2, <2>5 DEF DeliveryInv, SentWasDelivered
  <2> QED
    BY <2>6, <2>7 DEF DeliveryInv
<1>14. ASSUME NEW c \in Calls, InviteDone(c) PROVE DeliveryInv'
  <2>1. call[c] # None /\ call[c] \in Call
    BY <1>14, CallStepType DEF InviteDone, At
  <2>2. NothingSent
    BY <1>14, <2>1 DEF InviteDone, NothingSent, NoLogGrows, At, TypeOK,
       CallTypeOK, Call, End
  <2> QED
    BY <2>2, NothingSentKeeps
<1>15. ASSUME NEW c \in Calls, AcceptDone(c) PROVE DeliveryInv'
  <2>1. call[c] # None /\ call[c] \in Call
    BY <1>15, CallStepType DEF AcceptDone, At
  <2>2. NothingSent
    BY <1>15, <2>1 DEF AcceptDone, NothingSent, NoLogGrows, At, TypeOK,
       CallTypeOK, Call, End
  <2> QED
    BY <2>2, NothingSentKeeps
<1>16. ASSUME NEW c \in Calls, RejectDone(c) PROVE DeliveryInv'
  <2>1. call[c] # None /\ call[c] \in Call
    BY <1>16, CallStepType DEF RejectDone, At
  <2>2. NoLogGrows
    BY <1>16, <2>1, DeletedLog, Ends DEF RejectDone
  <2>3. NothingSent
    BY <1>16, <2>1, <2>2 DEF RejectDone, NothingSent, At, TypeOK, CallTypeOK,
       Call, End
  <2> QED
    BY <2>3, NothingSentKeeps
<1>17. ASSUME NEW c \in Calls, SendDone(c) PROVE DeliveryInv'
  <2>1. /\ call[c] # None /\ call[c] \in Call
        /\ Caller(c) \in Nodes /\ Callee(c) \in Nodes
        /\ <<Caller(c), Callee(c), call[c].body>> \in delivered
    BY <1>17, CallStepType, Ends DEF SendDone, At, DeliveryInv, AnsweredWasDelivered
  <2>2. ASSUME NEW n \in Nodes, NEW m \in Nodes, NEW b \in Messages,
               <<"sent", b>> \in log'[n][m]
        PROVE  \/ <<"sent", b>> \in log[n][m]
               \/ n = Caller(c) /\ m = Callee(c) /\ b = call[c].body
    BY <1>17, <2>1, <2>2 DEF SendDone, AppendMessage, TypeOK
  <2>3. SentWasDelivered'
    BY <1>17, <2>1, <2>2 DEF SendDone, DeliveryInv, SentWasDelivered
  <2>4. AnsweredWasDelivered'
    BY <1>17, <2>1 DEF SendDone, End, DeliveryInv, AnsweredWasDelivered, At, TypeOK,
                       CallTypeOK, Caller, Callee
  <2> QED
    BY <2>3, <2>4 DEF DeliveryInv
<1>18. ASSUME NEW c \in Calls, CallRefused(c) PROVE DeliveryInv'
  <2>1. call[c] # None /\ call[c] \in Call
    BY <1>18, CallStepType DEF CallRefused, At
  <2>2. NothingSent
    BY <1>18, <2>1 DEF CallRefused, NothingSent, NoLogGrows, At, TypeOK,
       CallTypeOK, Call, End
  <2> QED
    BY <2>2, NothingSentKeeps
<1>19. ASSUME NEW c \in Calls, Timeout(c) PROVE DeliveryInv'
  <2>1. call[c] # None /\ call[c] \in Call
    BY <1>19, CallStepType DEF Timeout, At
  <2>2. NoLogGrows
    <3>1. DeleteThread(Caller(c), Callee(c)) \/ UNCHANGED log
      BY <1>19 DEF Timeout
    <3> QED
      BY <2>1, <3>1, DeletedLog, Ends DEF NoLogGrows
  <2>3. NothingSent
    BY <1>19, <2>1, <2>2 DEF Timeout, NothingSent, At, TypeOK, CallTypeOK, Call
  <2> QED
    BY <2>3, NothingSentKeeps
<1>20. ASSUME NEW c \in Calls, RequestLost(c) PROVE DeliveryInv'
  <2>1. call[c] # None /\ call[c] \in Call
    BY <1>20, CallStepType DEF RequestLost, At
  <2>2. NothingSent
    BY <1>20, <2>1 DEF RequestLost, NothingSent, NoLogGrows, At, TypeOK,
       CallTypeOK, Call, End
  <2> QED
    BY <2>2, NothingSentKeeps
<1>21. ASSUME NEW n \in Nodes, Crash(n) PROVE DeliveryInv'
  <2>1. ASSUME NEW c \in Calls, call[c] # None
        PROVE  call[c] \in Call
    BY <2>1, CallStepType
  <2>2. NothingSent
    BY <1>21, <2>1 DEF Crash, NothingSent, NoLogGrows, At, TypeOK, CallTypeOK, Call
  <2> QED
    BY <2>2, NothingSentKeeps
<1>22. CASE UNCHANGED vars
  <2>1. NothingSent
    BY <1>22 DEF vars, NothingSent, NoLogGrows, At
  <2> QED
    BY <2>1, NothingSentKeeps
<1> QED
  BY <1>1, <1>2, <1>3, <1>4, <1>5, <1>6, <1>7, <1>8, <1>9, <1>10, <1>11,
     <1>12, <1>13, <1>14, <1>15, <1>16, <1>17, <1>18, <1>19, <1>20, <1>21, <1>22
     DEF Next, UserRequest, PeerStep, CallerStep

(* A message a node keeps as sent was stored by the peer, for any number   *)
(* of calls under way, crashes, timeouts and lost answers.                 *)
THEOREM SentIsDelivered == Spec => []SentWasDelivered
<1>1. Init => DeliveryInv
  BY DEF Init, DeliveryInv, SentWasDelivered, AnsweredWasDelivered, At
<1>2. DeliveryInv => SentWasDelivered
  BY DEF DeliveryInv
<1> QED
  BY <1>1, <1>2, DeliverySteps, TypeCorrect, PTL DEF Spec

-----------------------------------------------------------------------------
(* The chat implements ConsensualChat: every step agrees, opens a thread,  *)
(* stores a message at one end, removes a thread with its messages, or     *)
(* changes nothing that the promise is about.  That both have agreed by    *)
(* then, and that what is kept as sent has arrived, are the two invariants *)
(* above after the step.                                                   *)
THEOREM Refinement == Spec => KeepsPromise
<1>1. Init => Promise!Init
  <2>1. None # "accepted"
    BY NoneAssumption DEF Status
  <2> QED
    BY <2>1 DEF Init, Promise!Init
<1>2. ASSUME TypeOK, AcceptedByConsent', SentWasDelivered', [Next]_vars
      PROVE  [Promise!Next]_(Promise!vars)
  <2>1. ASSUME UNCHANGED <<thread, log, consent, delivered>>
        PROVE  UNCHANGED Promise!vars
    BY <2>1 DEF Promise!vars
  <2>2. ASSUME NEW n \in Nodes, NEW m \in Nodes, consent' = consent \cup {<<n, m>>},
               UNCHANGED <<thread, log, delivered>>
        PROVE  Promise!Next
    <3>1. Promise!Agree(n, m)
      BY <2>2 DEF Promise!Agree
    <3> QED
      BY <3>1 DEF Promise!Next
  <2>3. ASSUME NEW i \in Nodes, NEW j \in Nodes, NEW st \in Status, Upsert(i, j, st),
               UNCHANGED <<log, consent, delivered>>
        PROVE  [Promise!Next]_(Promise!vars)
    <3> DEFINE Open(th) == {e \in Nodes \X Nodes : th[e[1]][e[2]] = "accepted"}
    <3>1. ASSUME NEW n \in Nodes, NEW m \in Nodes
          PROVE  thread'[n][m] = IF i = n /\ j = m THEN Merged(thread[n][m], st)
                                                   ELSE thread[n][m]
      BY <1>2, <2>3, UpsertRow
    <3>2. CASE Merged(thread[i][j], st) = "accepted"
      <4>1. Open(thread') = Open(thread) \cup {<<i, j>>}
        BY <3>1, <3>2
      <4>2. MutualConsent(i, j)
        BY <1>2, <2>3, <3>1, <3>2 DEF AcceptedByConsent, MutualConsent
      <4>3. Promise!Open(i, j)
        BY <2>3, <4>1, <4>2 DEF Promise!Open, Promise!BothAgreed, MutualConsent
      <4> QED
        BY <4>3 DEF Promise!Next
    <3>3. CASE Merged(thread[i][j], st) # "accepted"
      <4>1. thread[i][j] # "accepted"
        BY <3>3 DEF Merged
      <4>2. Open(thread') = Open(thread)
        BY <3>1, <3>3, <4>1
      <4> QED
        BY <2>3, <4>2 DEF Promise!vars
    <3> QED
      BY <3>2, <3>3
  <2>4. ASSUME NEW i \in Nodes, NEW j \in Nodes, DeleteThread(i, j),
               UNCHANGED <<consent, delivered>>
        PROVE  Promise!Next
    <3> DEFINE Open(th) == {e \in Nodes \X Nodes : th[e[1]][e[2]] = "accepted"}
    <3>1. ASSUME NEW n \in Nodes, NEW m \in Nodes
          PROVE  thread'[n][m] = IF i = n /\ j = m THEN None ELSE thread[n][m]
      BY <1>2, <2>4, DeleteRow
    <3>2. None # "accepted"
      BY NoneAssumption DEF Status
    <3>3. Open(thread') = Open(thread) \ {<<i, j>>}
      BY <3>1, <3>2
    <3>4. Promise!Remove(i, j)
      BY <2>4, <3>3 DEF DeleteThread, Promise!Remove
    <3> QED
      BY <3>4 DEF Promise!Next
  <2>5. ASSUME NEW c \in Calls, PeerMessageAppend(c) PROVE Promise!Next
    <3>1. /\ call[c] # None /\ Caller(c) \in Nodes /\ Callee(c) \in Nodes
          /\ call[c].body \in Messages
      BY <1>2, <2>5, Ends DEF PeerMessageAppend, At, TypeOK, CallTypeOK
    <3>2. <<"received", call[c].body>> \in log'[Callee(c)][Caller(c)]
      BY <1>2, <2>5, <3>1 DEF PeerMessageAppend, AppendMessage, TypeOK
    <3>3. <<Callee(c), Caller(c)>> \in consent' /\ <<Caller(c), Callee(c)>> \in consent'
      BY <1>2, <3>1, <3>2 DEF AcceptedByConsent, MutualConsent
    <3>4. Promise!BothAgreed(Caller(c), Callee(c))
      BY <2>5, <3>3 DEF PeerMessageAppend, Promise!BothAgreed
    <3>5. Promise!Arrive(Caller(c), Callee(c), call[c].body)
      BY <2>5, <3>4 DEF PeerMessageAppend, AppendMessage, Promise!Arrive, Promise!Keep
    <3> QED
      BY <3>1, <3>5 DEF Promise!Next
  <2>6. ASSUME NEW c \in Calls, SendDone(c) PROVE Promise!Next
    <3>1. /\ call[c] # None /\ Caller(c) \in Nodes /\ Callee(c) \in Nodes
          /\ call[c].body \in Messages
      BY <1>2, <2>6, Ends DEF SendDone, At, TypeOK, CallTypeOK
    <3>2. <<"sent", call[c].body>> \in log'[Caller(c)][Callee(c)]
      BY <1>2, <2>6, <3>1 DEF SendDone, AppendMessage, TypeOK
    <3>3. <<Caller(c), Callee(c), call[c].body>> \in delivered'
      BY <1>2, <3>1, <3>2 DEF SentWasDelivered
    <3>4. Promise!KeepSent(Caller(c), Callee(c), call[c].body)
      BY <2>6, <3>3 DEF SendDone, AppendMessage, Promise!KeepSent, Promise!Keep
    <3> QED
      BY <3>1, <3>4 DEF Promise!Next
  <2>7. CASE UserRequest
    BY <2>1, <2>2, <2>4, <2>7
       DEF UserRequest, Invite, Accept, Reject, Send, RejectUnseen, Delete
  <2>8. ASSUME NEW c \in Calls, PeerStep(c) PROVE [Promise!Next]_(Promise!vars)
    <3>1. Caller(c) \in Nodes /\ Callee(c) \in Nodes
      BY <1>2, <2>8, Ends DEF PeerStep, PeerInviteRead, PeerInviteWrite, PeerAccept, PeerReject,
         PeerMessageRead, PeerMessageRefresh, PeerMessageAppend, At
    <3>2. CASE PeerInviteRead(c) \/ PeerMessageRead(c)
      BY <2>1, <3>2 DEF PeerInviteRead, PeerMessageRead
    <3>3. CASE PeerInviteWrite(c) \/ PeerAccept(c) \/ PeerMessageRefresh(c)
      BY <2>3, <3>1, <3>3 DEF PeerInviteWrite, PeerAccept, PeerMessageRefresh, Status
    <3>4. CASE PeerReject(c)
      BY <2>4, <3>1, <3>4 DEF PeerReject
    <3> QED
      BY <2>5, <2>8, <3>2, <3>3, <3>4 DEF PeerStep
  <2>9. ASSUME NEW c \in Calls, CallerStep(c) PROVE [Promise!Next]_(Promise!vars)
    <3>1. Caller(c) \in Nodes /\ Callee(c) \in Nodes
      BY <1>2, <2>9, Ends DEF CallerStep, InviteDone, AcceptDone, RejectDone, SendDone,
         CallRefused, Timeout, At
    <3>2. CASE InviteDone(c) \/ AcceptDone(c)
      BY <2>3, <3>1, <3>2 DEF InviteDone, AcceptDone, Status
    <3>3. CASE RejectDone(c)
      BY <2>4, <3>1, <3>3 DEF RejectDone
    <3>4. CASE CallRefused(c) \/ Timeout(c)
      BY <2>1, <2>4, <3>1, <3>4 DEF CallRefused, Timeout
    <3> QED
      BY <2>6, <2>9, <3>2, <3>3, <3>4 DEF CallerStep
  <2>10. CASE (\E c \in Calls : RequestLost(c)) \/ (\E n \in Nodes : Crash(n)) \/ UNCHANGED vars
    BY <2>1, <2>10 DEF RequestLost, Crash, vars
  <2> QED
    BY <1>2, <2>7, <2>8, <2>9, <2>10 DEF Next
<1> QED
  BY <1>1, <1>2, TypeCorrect, ConsentHolds, SentIsDelivered, PTL
     DEF Spec, KeepsPromise, Promise!Spec
==============================================================================
