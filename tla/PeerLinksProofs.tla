--------------------------- MODULE PeerLinksProofs ---------------------------
(***************************************************************************)
(* The entries of the connection tables and the duplicate filter of the    *)
(* swarm chat, for any number of nodes, links, messages and crashes.       *)
(***************************************************************************)
EXTENDS PeerLinks, FiniteSetTheorems, TLAPS

(* What a node has shown it remembers, unless its memory is full. *)
ShownIsRemembered ==
    \A n \in Nodes :
        /\ IsFiniteSet(seen[n])
        /\ \A c \in Chats :
             \/ shown[n][c] = 0
             \/ shown[n][c] = 1 /\ c \in seen[n]
             \/ Cardinality(seen[n]) >= MaxSeen

(* Every step but those of the handshakes, the ends of links and crashes   *)
(* leaves the two ends of every link as they are.                          *)
SameEnd(k, new) ==
    /\ new.from = link[k].from /\ new.to = link[k].to
    /\ new.dialer = link[k].dialer /\ new.acceptor = link[k].acceptor

SameEnds ==
    \A k \in Links :
        /\ Open(k)' => Open(k)
        /\ Open(k) => Open(k)' /\ SameEnd(k, link'[k])

OneDial == \A n \in Nodes : \A j, k \in Links : Waiting(n, j) /\ Waiting(n, k) => j = k

-----------------------------------------------------------------------------
(* Types *)

LEMMA InitType == Init => TypeOK
BY BoundsAssumption DEF Init, TypeOK, Waiting

(* The registry after AddPeer, and the entry tables after one assignment. *)
LEMMA AddPeerType ==
    ASSUME TypeOK, NEW n \in Nodes, NEW m \in Nodes, AddPeer(n, m)
    PROVE  known' \in [Nodes -> [Nodes -> {"unknown", "fresh", "stale"}]]
BY DEF TypeOK, AddPeer

LEMMA RememberType ==
    ASSUME TypeOK, NEW n \in Nodes, NEW c \in Chats, Remember(n, c)
    PROVE  seen' \in [Nodes -> SUBSET Chats]
<1>1. CASE seen' = [seen EXCEPT ![n] = seen[n] \cup {c}]
  BY <1>1 DEF TypeOK
<1>2. CASE \E x \in seen[n] \cup {c} : seen' = [seen EXCEPT ![n] = (seen[n] \cup {c}) \ {x}]
  BY <1>2 DEF TypeOK
<1>. QED  BY <1>1, <1>2 DEF Remember

LEMMA TaskType ==
    ASSUME TypeOK, NEW n \in Nodes, NEW c \in Chats, NEW k \in Links \cup {None},
           StartTask(n, c, k)
    PROVE  tasks' \in [Nodes -> SUBSET Task]
<1>1. [chat |-> c, stage |-> "showing", todo |-> {}, loop |-> k] \in Task
  BY DEF Task
<1>. QED  BY <1>1 DEF TypeOK, StartTask

LEMMA ShowType ==
    ASSUME TypeOK, NEW n \in Nodes, NEW c \in Chats, Show(n, c)
    PROVE  shown' \in [Nodes -> [Chats -> Nat]]
BY DEF TypeOK, Show

(* Steps that leave the ends alone leave the handshakes alone. *)
LEMMA SameEndsOneDial ==
    ASSUME TypeOK, SameEnds
    PROVE  OneDial'
<1>1. \A n \in Nodes, k \in Links : Waiting(n, k)' => Waiting(n, k)
  BY DEF SameEnds, SameEnd, Waiting, Open
<1>2. OneDial
  BY DEF TypeOK, OneDial
<1>. QED  BY <1>1, <1>2 DEF OneDial

(* Writing to a link and reading from it. *)
LEMMA OneLinkChanged ==
    ASSUME TypeOK, NEW k \in Links, NEW new \in Link, Open(k),
           link' = [link EXCEPT ![k] = new], SameEnd(k, new)
    PROVE  link' \in [Links -> Link \cup {None}] /\ SameEnds
<1>1. link' \in [Links -> Link \cup {None}]
  BY DEF TypeOK
<1>2. \A j \in Links : j # k => link'[j] = link[j]
  BY DEF TypeOK
<1>3. link'[k] = new
  BY DEF TypeOK
<1>4. ASSUME NEW j \in Links
      PROVE  (Open(j)' => Open(j)) /\ (Open(j) => Open(j)' /\ SameEnd(j, link'[j]))
  <2>1. CASE j = k
    BY <1>3, <2>1, NoneAssumption DEF Open
  <2>2. CASE j # k
    BY <1>2, <1>4, <2>2 DEF Open, SameEnd
  <2>. QED  BY <2>1, <2>2
<1>. QED  BY <1>1, <1>4 DEF SameEnds

LEMMA WriteEnds ==
    ASSUME TypeOK, NEW n \in Nodes, NEW k \in Links, NEW c \in Chats,
           Open(k), Write(n, k, c)
    PROVE  link' \in [Links -> Link \cup {None}] /\ SameEnds
<1>. link[k] \in Link
  BY DEF TypeOK, Open
<1>1. CASE link' = [link EXCEPT ![k].out = Append(@, c)]
  <2>. DEFINE new == [link[k] EXCEPT !.out = Append(link[k].out, c)]
  <2>1. link[k].out \in Seq(Chats)
    BY DEF Link
  <2>2. Append(link[k].out, c) \in Seq(Chats)
    BY <2>1
  <2>3. new \in Link
    BY <2>2 DEF Link
  <2>4. link' = [link EXCEPT ![k] = new]
    BY <1>1
  <2>5. SameEnd(k, new)
    BY DEF Link, SameEnd
  <2>. HIDE DEF new
  <2>. QED  BY <2>3, <2>4, <2>5, OneLinkChanged
<1>2. CASE link' = [link EXCEPT ![k].back = Append(@, c)]
  <2>. DEFINE new == [link[k] EXCEPT !.back = Append(link[k].back, c)]
  <2>1. link[k].back \in Seq(Chats)
    BY DEF Link
  <2>2. Append(link[k].back, c) \in Seq(Chats)
    BY <2>1
  <2>3. new \in Link
    BY <2>2 DEF Link
  <2>4. link' = [link EXCEPT ![k] = new]
    BY <1>2
  <2>5. SameEnd(k, new)
    BY DEF Link, SameEnd
  <2>. HIDE DEF new
  <2>. QED  BY <2>3, <2>4, <2>5, OneLinkChanged
<1>. QED  BY <1>1, <1>2 DEF Write

LEMMA ReadEnds ==
    ASSUME TypeOK, NEW k \in Links, ReadChat(k)
    PROVE  /\ link' \in [Links -> Link \cup {None}] /\ SameEnds
           /\ link[k] \in Link /\ Head(link[k].out) \in Chats
<1>1. link[k] \in Link /\ link[k].out # <<>>
  BY DEF TypeOK, ReadChat, Open
<1>2. Head(link[k].out) \in Chats /\ Tail(link[k].out) \in Seq(Chats)
  BY <1>1 DEF Link
<1>. DEFINE new == [link[k] EXCEPT !.out = Tail(link[k].out)]
<1>3. new \in Link
  BY <1>1, <1>2 DEF Link
<1>4. link' = [link EXCEPT ![k] = new]
  BY DEF ReadChat
<1>5. SameEnd(k, new)
  BY <1>1 DEF Link, SameEnd
<1>. HIDE DEF new
<1>6. link' \in [Links -> Link \cup {None}] /\ SameEnds
  BY <1>3, <1>4, <1>5, OneLinkChanged DEF ReadChat
<1>. QED  BY <1>1, <1>2, <1>6

LEMMA SendEnds ==
    ASSUME TypeOK, InboundEntryIsServed, NEW n \in Nodes, NEW t, NEW m \in Nodes,
           t.chat \in Chats, SendNext(n, t, m)
    PROVE  link' \in [Links -> Link \cup {None}] /\ SameEnds
<1>. DEFINE k == conns[n][m]
<1>1. CASE k # None => PeerEndGone(n, k)
  BY <1>1 DEF SendNext, SameEnds, SameEnd, TypeOK, Open
<1>2. CASE ~(k # None => PeerEndGone(n, k))
  <2>1. k \in Links /\ k # None /\ Write(n, k, t.chat)
    BY <1>2 DEF SendNext, TypeOK
  <2>2. Open(k)
    BY <2>1 DEF InboundEntryIsServed
  <2>. QED  BY <2>1, <2>2, WriteEnds
<1>. QED  BY <1>1, <1>2

LEMMA CloseEndsType ==
    ASSUME TypeOK, NEW n \in Nodes, CloseEnds(n)
    PROVE  /\ link' \in [Links -> Link \cup {None}]
           /\ \A p \in Nodes, j \in Links : Waiting(p, j)' => Waiting(p, j)
<1>1. ASSUME NEW k \in Links
      PROVE  /\ link'[k] \in Link \cup {None}
             /\ link'[k] # None =>
                  /\ link[k] # None /\ link'[k].from = link[k].from
                  /\ link'[k].dialer = "waiting" => link[k].dialer = "waiting"
  <2>1. CASE Open(k)
    <3>1. link[k] \in Link /\ AcceptorAfter(n, link[k]) \in {"opened", "serving", "acked", "gone"}
      BY <2>1 DEF AcceptorAfter, AfterAck, TypeOK, Open, Link
    <3>. HIDE DEF AcceptorAfter
    <3>2. link'[k] = [link[k] EXCEPT !.dialer = IF link[k].from = n THEN "gone" ELSE @,
                                     !.acceptor = AcceptorAfter(n, link[k])]
      BY <2>1 DEF CloseEnds
    <3>. QED  BY <2>1, <3>1, <3>2 DEF Open, Link
  <2>2. CASE ~Open(k)
    BY <2>2 DEF CloseEnds, Open
  <2>. QED  BY <2>1, <2>2
<1>2. DOMAIN link' = Links /\ link' = [k \in Links |-> link'[k]]
  BY DEF CloseEnds
<1>. QED  BY <1>1, <1>2 DEF Waiting

(* A message is said or handled: the filter, the user, a new broadcast. *)
LEMMA ChatType ==
    ASSUME TypeOK, NEW n \in Nodes, NEW c \in Chats, NEW k \in Links \cup {None},
           Remember(n, c), Show(n, c), StartTask(n, c, k)
    PROVE  /\ seen' \in [Nodes -> SUBSET Chats]
           /\ shown' \in [Nodes -> [Chats -> Nat]]
           /\ tasks' \in [Nodes -> SUBSET Task]
BY RememberType, ShowType, TaskType

(* Two changes to the record of a link, made as one. *)
LEMMA DialDoneLink ==
    ASSUME NEW k \in Links, DialDone(k)
    PROVE  \E s \in {"up", "gone"} :
             /\ link' = [link EXCEPT ![k] = [link[k] EXCEPT !.dialer = s, !.acceptor = AfterAck(@)]]
             /\ s = "up" => link[k].acceptor \in {"serving", "acked"}
             /\ s = "gone" => link[k].acceptor \in {"acked", "gone"} /\ UNCHANGED conns
             /\ s = "up" => conns' = [conns EXCEPT ![link[k].from][link[k].to] = k]
BY DEF DialDone

(* A step of a link changes its ends, and none starts to wait. *)
LEMMA LinkStepLink ==
    ASSUME NEW k \in Links, link[k] \in Link, LinkStep(k)
    PROVE  \E new \in Link : /\ link' = [link EXCEPT ![k] = new]
                             /\ new.from = link[k].from /\ new.to = link[k].to
                             /\ new.dialer = "waiting" => link[k].dialer = "waiting"
<1>. DEFINE accepts(s) == [link[k] EXCEPT !.acceptor = s]
            dials(s) == [link[k] EXCEPT !.dialer = s, !.acceptor = AfterAck(@)]
<1>1. \A s \in {"serving", "gone"} :
        /\ accepts(s) \in Link /\ accepts(s).dialer = link[k].dialer
        /\ accepts(s).from = link[k].from /\ accepts(s).to = link[k].to
  BY DEF Link
<1>2. \A s \in {"up", "gone"} :
        /\ dials(s) \in Link /\ dials(s).dialer = s
        /\ dials(s).from = link[k].from /\ dials(s).to = link[k].to
  <2>1. AfterAck(link[k].acceptor) \in {"opened", "serving", "acked", "gone"}
    BY DEF AfterAck, Link
  <2>. QED  BY <2>1 DEF Link
<1>3. \/ \E s \in {"serving", "gone"} : link' = [link EXCEPT ![k] = accepts(s)]
      \/ \E s \in {"up", "gone"} : link' = [link EXCEPT ![k] = dials(s)]
  <2>1. CASE Accept(k) \/ AcceptFails(k) \/ EndOfStream(k)
    BY <2>1 DEF Accept, AcceptFails, EndOfStream, LoopEnd
  <2>2. CASE DialDone(k)
    BY <2>2, DialDoneLink
  <2>. QED  BY <2>1, <2>2 DEF LinkStep
<1>. HIDE DEF accepts, dials
<1>. QED  BY <1>1, <1>2, <1>3

LEMMA NextType == TypeOK /\ InboundEntryIsServed /\ [Next]_vars => TypeOK'
<1>. SUFFICES ASSUME TypeOK, InboundEntryIsServed, [Next]_vars PROVE TypeOK'
  OBVIOUS
<1>. USE DEF OneDial
<1>0. OneDial
  BY DEF TypeOK
<1>1. ASSUME NEW n \in Nodes, NEW m \in Nodes, Hello(n, m)
      PROVE  TypeOK'
  BY <1>1, AddPeerType DEF Hello, TypeOK, Waiting
<1>2. ASSUME NEW n \in Nodes, NEW m \in Nodes, Expire(n, m)
      PROVE  TypeOK'
  BY <1>2 DEF Expire, TypeOK, Waiting
<1>3. ASSUME NEW n \in Nodes, NEW m \in Nodes, Dial(n, m)
      PROVE  TypeOK'
  <2>1. PICK k \in Links :
          link' = [link EXCEPT ![k] =
            [from |-> n, to |-> m, dialer |-> "waiting", acceptor |-> "opened",
             out |-> <<>>, back |-> <<>>]]
    BY <1>3 DEF Dial, StartDial
  <2>2. link' \in [Links -> Link \cup {None}]
    BY <2>1 DEF TypeOK, Link
  <2>3. \A p \in Nodes, j \in Links : Waiting(p, j)' /\ j # k => Waiting(p, j)
    BY <2>1 DEF TypeOK, Waiting
  <2>4. \A p \in Nodes : Waiting(p, k)' => p = n
    BY <2>1 DEF TypeOK, Waiting
  <2>5. \A j \in Links : ~Waiting(n, j)
    BY <1>3 DEF Dial, StartDial, Dialing
  <2>6. OneDial'
    BY <1>0, <2>3, <2>4, <2>5
  <2>. QED  BY <1>3, <2>2, <2>6 DEF Dial, StartDial, TypeOK
<1>4. ASSUME NEW k \in Links, LinkStep(k)
      PROVE  TypeOK'
  <2>1. link[k] \in Link /\ link[k] # None
    BY <1>4 DEF LinkStep, Accept, AcceptFails, DialDone, EndOfStream, LoopEnd, Open, TypeOK
  <2>2. PICK new \in Link : /\ link' = [link EXCEPT ![k] = new]
                            /\ new.from = link[k].from
                            /\ new.dialer = "waiting" => link[k].dialer = "waiting"
    BY <1>4, <2>1, LinkStepLink
  <2>3. link' \in [Links -> Link \cup {None}]
    BY <2>2 DEF TypeOK
  <2>4. \A p \in Nodes, j \in Links : Waiting(p, j)' => Waiting(p, j)
    BY <2>1, <2>2 DEF TypeOK, Waiting
  <2>5. OneDial'
    BY <1>0, <2>4
  <2>6. link[k].from \in Nodes /\ link[k].to \in Nodes
    BY <2>1 DEF Link
  <2>7. conns' \in [Nodes -> [Nodes -> Links \cup {None}]]
    <3>1. \/ UNCHANGED conns
          \/ \E n, m \in Nodes, e \in Links \cup {None} : conns' = [conns EXCEPT ![n][m] = e]
      BY <1>4, <2>6 DEF LinkStep, Accept, AcceptFails, DialDone, EndOfStream, LoopEnd
    <3>2. CASE UNCHANGED conns
      BY <3>2 DEF TypeOK
    <3>3. ASSUME NEW n \in Nodes, NEW m \in Nodes, NEW e \in Links \cup {None},
                 conns' = [conns EXCEPT ![n][m] = e]
          PROVE  conns' \in [Nodes -> [Nodes -> Links \cup {None}]]
      BY <3>3 DEF TypeOK
    <3>. QED  BY <3>1, <3>2, <3>3
  <2>8. known' \in [Nodes -> [Nodes -> {"unknown", "fresh", "stale"}]]
    <3>1. UNCHANGED known \/ \E n, m \in Nodes : AddPeer(n, m)
      BY <1>4, <2>6 DEF LinkStep, Accept, AcceptFails, DialDone, EndOfStream, LoopEnd
    <3>. QED  BY <3>1, AddPeerType DEF TypeOK
  <2>9. UNCHANGED <<up, seen, tasks, crashes, shown>>
    BY <1>4 DEF LinkStep, Accept, AcceptFails, DialDone, EndOfStream, LoopEnd
  <2>. QED  BY <2>3, <2>5, <2>7, <2>8, <2>9 DEF TypeOK
<1>5. ASSUME NEW n \in Nodes, NEW c \in Chats, Say(n, c)
      PROVE  TypeOK'
  <2>1. Remember(n, c) /\ Show(n, c) /\ StartTask(n, c, None)
    BY <1>5 DEF Say, SayShowing
  <2>2. seen' \in [Nodes -> SUBSET Chats] /\ shown' \in [Nodes -> [Chats -> Nat]]
        /\ tasks' \in [Nodes -> SUBSET Task]
    BY <2>1, ChatType
  <2>. QED  BY <1>5, <2>2 DEF Say, SayShowing, TypeOK, Waiting
<1>6. ASSUME NEW k \in Links, HandleChat(k)
      PROVE  TypeOK'
  <2>1. ReadChat(k)
    BY <1>6 DEF HandleChat
  <2>2. /\ link' \in [Links -> Link \cup {None}] /\ OneDial'
        /\ link[k].to \in Nodes /\ Head(link[k].out) \in Chats
    BY <2>1, ReadEnds, SameEndsOneDial DEF Link
  <2>3. /\ seen' \in [Nodes -> SUBSET Chats]
        /\ shown' \in [Nodes -> [Chats -> Nat]]
        /\ tasks' \in [Nodes -> SUBSET Task]
    <3>1. CASE Head(link[k].out) \in seen[link[k].to]
      BY <1>6, <3>1 DEF HandleChat, TypeOK
    <3>2. CASE Head(link[k].out) \notin seen[link[k].to]
      BY <1>6, <2>2, <3>2, ChatType DEF HandleChat
    <3>. QED  BY <3>1, <3>2
  <2>. QED  BY <1>6, <2>2, <2>3 DEF HandleChat, TypeOK
<1>7. ASSUME NEW n \in Nodes, NEW t \in tasks[n], NEW m \in Nodes, SendNext(n, t, m)
      PROVE  TypeOK'
  <2>1. t \in Task /\ t.chat \in Chats
    BY DEF TypeOK, Task
  <2>2. [t EXCEPT !.todo = @ \ {m}] \in Task
    BY <2>1 DEF Task
  <2>3. tasks' \in [Nodes -> SUBSET Task]
    BY <1>7, <2>2 DEF SendNext, TypeOK
  <2>4. link' \in [Links -> Link \cup {None}] /\ OneDial'
    BY <1>7, <2>1, SendEnds, SameEndsOneDial
  <2>. QED  BY <1>7, <2>3, <2>4 DEF SendNext, TypeOK
<1>8. ASSUME NEW n \in Nodes, NEW t \in tasks[n], BroadcastDone(n, t) \/ Snapshot(n, t)
      PROVE  TypeOK'
  <2>1. CASE BroadcastDone(n, t)
    BY <2>1 DEF BroadcastDone, TypeOK, Waiting
  <2>2. CASE Snapshot(n, t)
    <3>1. t \in Task /\ Peers(n) \subseteq Nodes
      BY DEF TypeOK, Peers
    <3>2. [t EXCEPT !.stage = "sending", !.todo = Peers(n)] \in Task
      BY <3>1 DEF Task
    <3>. QED  BY <2>2, <3>2 DEF Snapshot, TypeOK, Waiting
  <2>. QED  BY <1>8, <2>1, <2>2
<1>9. ASSUME NEW n \in Nodes, Crash(n)
      PROVE  TypeOK'
  <2>1. link' \in [Links -> Link \cup {None}]
        /\ \A p \in Nodes, j \in Links : Waiting(p, j)' => Waiting(p, j)
    BY <1>9, CloseEndsType DEF Crash
  <2>2. OneDial'
    BY <1>0, <2>1
  <2>3. crashes' \in 0 .. MaxCrashes
    BY <1>9, BoundsAssumption DEF Crash, TypeOK
  <2>. QED  BY <1>9, <2>1, <2>2, <2>3 DEF Crash, TypeOK
<1>10. ASSUME NEW n \in Nodes, Restart(n)
       PROVE  TypeOK'
  BY <1>10 DEF Restart, TypeOK, Waiting
<1>11. CASE UNCHANGED vars
  BY <1>11 DEF vars, TypeOK, Waiting
<1>. QED
  BY <1>1, <1>2, <1>3, <1>4, <1>5, <1>6, <1>7, <1>8, <1>9, <1>10, <1>11
     DEF Next, NodeStep, TaskStep

-----------------------------------------------------------------------------
(* A node neither knows nor dials itself: its own HELLOs it drops. *)
Others ==
    /\ \A n \in Nodes : known[n][n] = "unknown"
    /\ \A k \in Links : Open(k) => link[k].from # link[k].to

LEMMA InitOthers == Init => Others
BY DEF Init, Others, Open

LEMMA NextOthers ==
    TypeOK /\ InboundEntryIsServed /\ Others /\ [Next]_vars => Others'
<1>. SUFFICES ASSUME TypeOK, InboundEntryIsServed, Others, [Next]_vars PROVE Others'
  OBVIOUS
<1>1. CASE UNCHANGED <<known, link>>
  BY <1>1 DEF Others, Open
<1>2. ASSUME NEW n \in Nodes, NEW m \in Nodes, n # m, AddPeer(n, m)
      PROVE  \A p \in Nodes : known'[p][p] = "unknown"
  BY <1>2 DEF Others, AddPeer, TypeOK
<1>3. ASSUME NEW n \in Nodes, NEW m \in Nodes, Hello(n, m) \/ Expire(n, m) PROVE Others'
  <2>1. CASE Hello(n, m)
    <3>1. n # m
      BY <2>1, HeardAssumption DEF Hello
    <3>. QED  BY <1>2, <2>1, <3>1 DEF Hello, Others, Open
  <2>2. CASE Expire(n, m)
    BY <2>2 DEF Expire, Others, Open, TypeOK
  <2>. QED  BY <1>3, <2>1, <2>2
<1>4. ASSUME NEW n \in Nodes, NEW m \in Nodes, Dial(n, m) PROVE Others'
  <2>1. n # m
    BY <1>4 DEF Dial, StartDial, Others
  <2>2. PICK k \in Links :
          link' = [link EXCEPT ![k] =
            [from |-> n, to |-> m, dialer |-> "waiting", acceptor |-> "opened",
             out |-> <<>>, back |-> <<>>]]
    BY <1>4 DEF Dial, StartDial
  <2>3. \A j \in Links : Open(j)' => link'[j].from # link'[j].to
    BY <2>1, <2>2 DEF Others, Open, TypeOK
  <2>. QED  BY <1>4, <2>3 DEF Dial, StartDial, Others
<1>5. ASSUME NEW k \in Links, LinkStep(k) PROVE Others'
  <2>1. link[k] \in Link /\ Open(k)
    BY <1>5 DEF LinkStep, Accept, AcceptFails, DialDone, EndOfStream, LoopEnd, Open, TypeOK
  <2>2. /\ link[k].from \in Nodes /\ link[k].to \in Nodes
        /\ link[k].from # link[k].to
    BY <2>1 DEF Link, Others
  <2>3. \/ UNCHANGED known
        \/ AddPeer(link[k].to, link[k].from) \/ AddPeer(link[k].from, link[k].to)
    BY <1>5 DEF LinkStep, Accept, AcceptFails, DialDone, EndOfStream, LoopEnd
  <2>4. \A p \in Nodes : known'[p][p] = "unknown"
    BY <1>2, <2>2, <2>3 DEF Others
  <2>5. PICK new \in Link : /\ link' = [link EXCEPT ![k] = new]
                            /\ new.from = link[k].from /\ new.to = link[k].to
    BY <1>5, <2>1, LinkStepLink
  <2>6. \A j \in Links : Open(j)' => link'[j].from # link'[j].to
    BY <2>1, <2>2, <2>5 DEF Others, Open, TypeOK
  <2>. QED  BY <2>4, <2>6 DEF Others
<1>6. CASE SameEnds /\ UNCHANGED known
  BY <1>6 DEF SameEnds, SameEnd, Others
<1>7. ASSUME NEW k \in Links, HandleChat(k)
      PROVE  SameEnds /\ UNCHANGED known
  BY <1>7, ReadEnds DEF HandleChat
<1>8. ASSUME NEW n \in Nodes, NEW t \in tasks[n], NEW m \in Nodes, SendNext(n, t, m)
      PROVE  SameEnds /\ UNCHANGED known
  <2>1. t.chat \in Chats
    BY DEF TypeOK, Task
  <2>. QED  BY <1>8, <2>1, SendEnds DEF SendNext
<1>9. ASSUME NEW n \in Nodes, Crash(n) PROVE Others'
  <2>1. ASSUME NEW k \in Links, Open(k)'
        PROVE  link'[k].from # link'[k].to
    <3>1. Open(k) /\ link[k] \in Link
      BY <1>9, <2>1 DEF Crash, CloseEnds, Open, TypeOK
    <3>2. link'[k] = [link[k] EXCEPT !.dialer = IF link[k].from = n THEN "gone" ELSE @,
                                     !.acceptor = AcceptorAfter(n, link[k])]
      BY <1>9, <3>1 DEF Crash, CloseEnds
    <3>3. link'[k].from = link[k].from /\ link'[k].to = link[k].to
      BY <3>1, <3>2 DEF Link
    <3>. QED  BY <3>1, <3>3 DEF Others
  <2>. QED  BY <1>9, <2>1 DEF Crash, Others
<1>. QED
  <2>1. ASSUME NEW n \in Nodes, NodeStep(n) PROVE Others'
    BY <1>1, <1>3, <1>4, <1>6, <1>8, <1>9, <2>1
       DEF NodeStep, TaskStep, Say, SayShowing, Snapshot, BroadcastDone, Restart
  <2>2. ASSUME NEW k \in Links, LinkStep(k) \/ HandleChat(k) PROVE Others'
    BY <1>5, <1>6, <1>7, <2>2
  <2>3. CASE UNCHANGED vars
    BY <1>1, <2>3 DEF vars
  <2>. QED  BY <2>1, <2>2, <2>3 DEF Next

-----------------------------------------------------------------------------
(* Entries *)

(* What InboundEntryIsServed says of one entry. *)
Served(n, m, k) ==
    /\ Open(k) /\ {link[k].from, link[k].to} = {n, m}
    /\ link[k].to = n => link[k].acceptor = "serving"

AllServed == \A n, m \in Nodes, k \in Links : conns[n][m] = k => Served(n, m, k)

LEMMA OneLinkServed ==
    ASSUME TypeOK, NEW k \in Links, NEW new \in Link, link' = [link EXCEPT ![k] = new],
           new.from = link[k].from, new.to = link[k].to,
           NEW n \in Nodes, NEW m \in Nodes, NEW e \in Links,
           IF e = k THEN /\ {link[k].from, link[k].to} = {n, m}
                         /\ link[k].to = n => new.acceptor = "serving"
           ELSE Served(n, m, e)
    PROVE  Served(n, m, e)'
<1>1. CASE e = k
  <2>1. link'[e] = new /\ new # None
    BY <1>1, NoneAssumption DEF TypeOK
  <2>. QED  BY <1>1, <2>1 DEF Served, Open
<1>2. CASE e # k
  <2>1. link'[e] = link[e]
    BY <1>2 DEF TypeOK
  <2>. QED  BY <1>2, <2>1 DEF Served, Open
<1>. QED  BY <1>1, <1>2

LEMMA NextServed ==
    TypeOK /\ InboundEntryIsServed /\ Others /\ [Next]_vars => InboundEntryIsServed'
<1>. SUFFICES ASSUME TypeOK, InboundEntryIsServed, Others, [Next]_vars
              PROVE  InboundEntryIsServed'
  OBVIOUS
<1>. TypeOK'
  BY NextType
<1>0. \A n, m \in Nodes, j \in Links : conns[n][m] = j => Served(n, m, j)
  <2>1. \A n, m \in Nodes : conns[n][m] # None => Served(n, m, conns[n][m])
    BY DEF InboundEntryIsServed, Served
  <2>. QED  BY <2>1, NoneAssumption
<1>s. SUFFICES ASSUME NEW p \in Nodes, NEW q \in Nodes, NEW e \in Links, conns'[p][q] = e
               PROVE  Served(p, q, e)'
  <2>1. \A n, m \in Nodes : conns'[n][m] \in Links \cup {None}
    BY DEF TypeOK
  <2>2. AllServed'
    BY DEF AllServed
  <2>. QED  BY <2>1, <2>2, Z3 DEF AllServed, Served, InboundEntryIsServed
<1>1. CASE UNCHANGED <<conns, link>>
  BY <1>0, <1>1, <1>s DEF Served, Open
<1>2. ASSUME NEW n \in Nodes, NEW m \in Nodes, Dial(n, m)
      PROVE  Served(p, q, e)'
  <2>1. PICK k \in Links : Free(k) /\
          link' = [link EXCEPT ![k] =
            [from |-> n, to |-> m, dialer |-> "waiting", acceptor |-> "opened",
             out |-> <<>>, back |-> <<>>]]
    BY <1>2 DEF Dial, StartDial
  <2>2. conns'[p][q] = conns[p][q]
    BY <1>2 DEF Dial, StartDial
  <2>3. Served(p, q, e) /\ e # k
    BY <1>0, <1>s, <2>1, <2>2 DEF Free, Served
  <2>4. link'[e] = link[e]
    BY <2>1, <2>3 DEF TypeOK
  <2>. QED  BY <2>3, <2>4 DEF Served, Open
<1>3. ASSUME NEW k \in Links, LinkStep(k)
      PROVE  Served(p, q, e)'
  <2>. link[k] \in Link /\ link[k] # None
    BY <1>3 DEF LinkStep, Accept, AcceptFails, DialDone, EndOfStream, LoopEnd, Open, TypeOK
  <2>0. /\ link[k].from \in Nodes /\ link[k].to \in Nodes
        /\ conns \in [Nodes -> [Nodes -> Links \cup {None}]]
    BY DEF TypeOK, Link
  <2>. DEFINE accepts(s) == [link[k] EXCEPT !.acceptor = s]
              dials(s) == [link[k] EXCEPT !.dialer = s, !.acceptor = AfterAck(@)]
  <2>a. \A s \in {"serving", "gone"} :
          /\ accepts(s) \in Link /\ accepts(s).acceptor = s
          /\ accepts(s).from = link[k].from /\ accepts(s).to = link[k].to
    BY DEF Link
  <2>d. \A s \in {"up", "gone"} :
          /\ dials(s) \in Link /\ dials(s).acceptor = AfterAck(link[k].acceptor)
          /\ dials(s).from = link[k].from /\ dials(s).to = link[k].to
    <3>1. AfterAck(link[k].acceptor) \in {"opened", "serving", "acked", "gone"}
      BY DEF AfterAck, Link
    <3>. QED  BY <3>1 DEF Link
  <2>e. conns[p][q] = e => Served(p, q, e)
    BY <1>0
  <2>1. CASE Accept(k)
    <3>1. link' = [link EXCEPT ![k] = accepts("serving")]
      BY <2>1 DEF Accept
    <3>2. \/ e = k /\ p = link[k].to /\ q = link[k].from
          \/ conns[p][q] = e
      BY <1>s, <2>0, <2>1 DEF Accept
    <3>3. IF e = k THEN {link[k].from, link[k].to} = {p, q} ELSE Served(p, q, e)
      BY <2>e, <3>2 DEF Served
    <3>. HIDE DEF accepts
    <3>. QED  BY <2>a, <3>1, <3>3, OneLinkServed
  <2>2. CASE AcceptFails(k)
    <3>1. link' = [link EXCEPT ![k] = accepts("gone")]
      BY <2>2 DEF AcceptFails
    <3>2. conns[p][q] = e
      BY <1>s, <2>2 DEF AcceptFails
    <3>3. /\ Served(p, q, e)
          /\ e = k => {link[k].from, link[k].to} = {p, q} /\ link[k].to # p
      BY <2>2, <2>e, <3>2 DEF AcceptFails, Served
    <3>. HIDE DEF accepts
    <3>. QED  BY <2>a, <3>1, <3>3, OneLinkServed
  <2>3. CASE DialDone(k)
    <3>1. PICK s \in {"up", "gone"} :
            /\ link' = [link EXCEPT ![k] = dials(s)]
            /\ s = "up" => conns' = [conns EXCEPT ![link[k].from][link[k].to] = k]
            /\ s = "gone" => UNCHANGED conns
      BY <2>3, DialDoneLink
    <3>2. \/ e = k /\ p = link[k].from /\ q = link[k].to
          \/ conns[p][q] = e
      BY <1>s, <2>0, <3>1
    <3>3. IF e = k THEN {link[k].from, link[k].to} = {p, q} ELSE Served(p, q, e)
      BY <2>e, <3>2 DEF Served
    <3>4. e = k /\ link[k].to = p => AfterAck(link[k].acceptor) = "serving"
      <4>1. CASE conns[p][q] = e
        BY <2>e, <4>1 DEF Served, AfterAck
      <4>2. CASE conns[p][q] # e
        <5>1. p = link[k].from /\ Open(k)
          BY <2>3, <3>2, <4>2 DEF DialDone
        <5>. QED  BY <5>1 DEF Others
      <4>. QED  BY <4>1, <4>2
    <3>. HIDE DEF dials
    <3>. QED  BY <2>d, <3>1, <3>3, <3>4, OneLinkServed
  <2>5. CASE EndOfStream(k)
    <3>1. link' = [link EXCEPT ![k] = accepts("gone")]
      BY <2>5 DEF EndOfStream, LoopEnd
    <3>2. conns' = [conns EXCEPT ![link[k].to][link[k].from] = None]
      BY <2>5 DEF EndOfStream
    <3>3. ~(p = link[k].to /\ q = link[k].from) /\ conns[p][q] = e
      BY <1>s, <2>0, <3>2, NoneAssumption
    <3>4. /\ Served(p, q, e)
          /\ e = k => {link[k].from, link[k].to} = {p, q} /\ link[k].to # p
      BY <2>e, <3>3 DEF Served
    <3>. HIDE DEF accepts
    <3>. QED  BY <2>a, <3>1, <3>4, OneLinkServed
  <2>. QED  BY <1>3, <2>1, <2>2, <2>3, <2>5 DEF LinkStep
<1>4. CASE SameEnds /\ UNCHANGED conns
  BY <1>0, <1>4, <1>s DEF SameEnds, SameEnd, Served, Open
<1>5. ASSUME NEW k \in Links, HandleChat(k)
      PROVE  SameEnds /\ UNCHANGED conns
  BY <1>5, ReadEnds DEF HandleChat
<1>6. ASSUME NEW n \in Nodes, NEW t \in tasks[n], NEW m \in Nodes, SendNext(n, t, m)
      PROVE  SameEnds /\ UNCHANGED conns
  <2>1. t.chat \in Chats
    BY DEF TypeOK, Task
  <2>. QED  BY <1>6, <2>1, SendEnds DEF SendNext
<1>7. ASSUME NEW n \in Nodes, Crash(n)
      PROVE  Served(p, q, e)'
  <2>1. p # n /\ conns'[p][q] = conns[p][q]
    BY <1>7, <1>s, NoneAssumption DEF Crash, TypeOK
  <2>2. Served(p, q, e) /\ link[e] \in Link
    BY <1>0, <1>s, <2>1 DEF TypeOK, Served, Open
  <2>3. link'[e] = [link[e] EXCEPT !.dialer = IF link[e].from = n THEN "gone" ELSE @,
                                   !.acceptor = AcceptorAfter(n, link[e])]
    BY <1>7, <2>2 DEF Crash, CloseEnds, Served
  <2>a. /\ AcceptorAfter(n, link[e]) \in {"opened", "serving", "acked", "gone"}
        /\ link[e].to = p /\ link[e].acceptor = "serving" => AcceptorAfter(n, link[e]) = "serving"
    BY <2>1, <2>2 DEF AcceptorAfter, AfterAck, Link
  <2>. HIDE DEF AcceptorAfter
  <2>4. link'[e] \in Link /\ link'[e].from = link[e].from /\ link'[e].to = link[e].to
        /\ (link[e].to = p => link'[e].acceptor = "serving")
    BY <2>2, <2>3, <2>a DEF Link, Served
  <2>. QED  BY <2>1, <2>2, <2>4, NoneAssumption DEF Served, Open
<1>. QED
  <2>1. ASSUME NEW n \in Nodes, NodeStep(n) PROVE Served(p, q, e)'
    BY <1>1, <1>2, <1>4, <1>6, <1>7, <2>1
       DEF NodeStep, TaskStep, Hello, Expire, Say, SayShowing, Snapshot, BroadcastDone, Restart
  <2>2. ASSUME NEW k \in Links, LinkStep(k) \/ HandleChat(k) PROVE Served(p, q, e)'
    BY <1>3, <1>4, <1>5, <2>2
  <2>3. CASE UNCHANGED vars
    BY <1>1, <2>3 DEF vars
  <2>. QED  BY <2>1, <2>2, <2>3 DEF Next

LEMMA InitServed == Init => InboundEntryIsServed
BY DEF Init, InboundEntryIsServed

-----------------------------------------------------------------------------
(* The duplicate filter *)

Remembered(n, c) ==
    \/ shown[n][c] = 0
    \/ shown[n][c] = 1 /\ c \in seen[n]
    \/ Cardinality(seen[n]) >= MaxSeen

(* Remembering an id: the set stays finite, does not shrink, and holds the *)
(* id and all it held, unless it is full.                                  *)
LEMMA RememberKeeps ==
    ASSUME TypeOK, NEW n \in Nodes, NEW c \in Chats, IsFiniteSet(seen[n]), Remember(n, c)
    PROVE  /\ IsFiniteSet(seen'[n])
           /\ Cardinality(seen[n]) >= MaxSeen => Cardinality(seen'[n]) >= MaxSeen
           /\ \/ c \in seen'[n] /\ seen[n] \subseteq seen'[n]
              \/ Cardinality(seen'[n]) >= MaxSeen
           /\ \A m \in Nodes \ {n} : seen'[m] = seen[m]
<1>. DEFINE ids == seen[n] \cup {c}
<1>1. /\ IsFiniteSet(ids) /\ Cardinality(ids) \in Nat /\ Cardinality(seen[n]) \in Nat
      /\ Cardinality(ids) >= Cardinality(seen[n])
  <2>1. IsFiniteSet(ids)
    BY FS_AddElement
  <2>2. Cardinality(ids) \in Nat /\ Cardinality(seen[n]) \in Nat
    BY <2>1, FS_CardinalityType
  <2>3. Cardinality(seen[n]) <= Cardinality(ids)
    BY <2>1, FS_Subset
  <2>. QED  BY <2>1, <2>2, <2>3
<1>2. CASE Cardinality(ids) <= MaxSeen
  <2>1. seen' = [seen EXCEPT ![n] = ids]
    BY <1>2 DEF Remember
  <2>2. seen'[n] = ids /\ \A m \in Nodes \ {n} : seen'[m] = seen[m]
    BY <2>1 DEF TypeOK
  <2>. QED  BY <1>1, <2>2, BoundsAssumption
<1>3. CASE ~(Cardinality(ids) <= MaxSeen)
  <2>1. PICK x \in ids : seen' = [seen EXCEPT ![n] = ids \ {x}]
    BY <1>3 DEF Remember
  <2>2. seen'[n] = ids \ {x} /\ \A m \in Nodes \ {n} : seen'[m] = seen[m]
    BY <2>1 DEF TypeOK
  <2>3. IsFiniteSet(ids \ {x}) /\ Cardinality(ids \ {x}) = Cardinality(ids) - 1
    BY <1>1, FS_RemoveElement
  <2>4. Cardinality(seen'[n]) >= MaxSeen
    BY <1>1, <1>3, <2>2, <2>3, BoundsAssumption
  <2>. QED  BY <2>2, <2>3, <2>4
<1>. QED  BY <1>2, <1>3

LEMMA ChatRemembered ==
    ASSUME TypeOK, ShownIsRemembered, NEW n \in Nodes, NEW c \in Chats,
           Remember(n, c), Show(n, c),
           shown[n][c] = 0 \/ Cardinality(seen[n]) >= MaxSeen
    PROVE  ShownIsRemembered'
<1>1. IsFiniteSet(seen[n]) /\ \A d \in Chats : Remembered(n, d)
  BY DEF ShownIsRemembered, Remembered
<1>2. /\ IsFiniteSet(seen'[n])
      /\ Cardinality(seen[n]) >= MaxSeen => Cardinality(seen'[n]) >= MaxSeen
      /\ \/ c \in seen'[n] /\ seen[n] \subseteq seen'[n]
         \/ Cardinality(seen'[n]) >= MaxSeen
      /\ \A m \in Nodes \ {n} : seen'[m] = seen[m]
  BY <1>1, RememberKeeps
<1>3. /\ shown'[n][c] = shown[n][c] + 1
      /\ \A d \in Chats \ {c} : shown'[n][d] = shown[n][d]
      /\ \A m \in Nodes \ {n} : shown'[m] = shown[m]
  BY DEF Show, TypeOK
<1>4. ASSUME NEW d \in Chats
      PROVE  \/ shown'[n][d] = 0
             \/ shown'[n][d] = 1 /\ d \in seen'[n]
             \/ Cardinality(seen'[n]) >= MaxSeen
  BY <1>1, <1>2, <1>3 DEF Remembered
<1>. QED  BY <1>2, <1>3, <1>4 DEF ShownIsRemembered

LEMMA NextRemembered ==
    TypeOK /\ ShownIsRemembered /\ [Next]_vars => ShownIsRemembered'
<1>. SUFFICES ASSUME TypeOK, ShownIsRemembered, [Next]_vars PROVE ShownIsRemembered'
  OBVIOUS
<1>1. CASE UNCHANGED <<seen, shown>>
  BY <1>1 DEF ShownIsRemembered
<1>2. ASSUME NEW n \in Nodes, NEW c \in Chats, Say(n, c)
      PROVE  ShownIsRemembered'
  BY <1>2, ChatRemembered DEF Say, SayShowing, NewId
<1>3. ASSUME NEW k \in Links, HandleChat(k)
      PROVE  ShownIsRemembered'
  <2>. DEFINE n == link[k].to
              c == Head(link[k].out)
  <2>1. n \in Nodes /\ c \in Chats
    BY <1>3, ReadEnds DEF HandleChat, Link
  <2>2. CASE c \in seen[n]
    BY <1>1, <1>3, <2>2 DEF HandleChat
  <2>3. CASE c \notin seen[n]
    <3>1. Remember(n, c) /\ Show(n, c)
      BY <1>3, <2>3 DEF HandleChat
    <3>2. shown[n][c] = 0 \/ Cardinality(seen[n]) >= MaxSeen
      BY <2>1, <2>3 DEF ShownIsRemembered
    <3>. QED  BY <2>1, <3>1, <3>2, ChatRemembered
  <2>. QED  BY <2>2, <2>3
<1>4. ASSUME NEW n \in Nodes, Crash(n)
      PROVE  ShownIsRemembered'
  <2>1. /\ seen'[n] = {} /\ \A c \in Chats : shown'[n][c] = 0
        /\ \A m \in Nodes \ {n} : seen'[m] = seen[m] /\ shown'[m] = shown[m]
    BY <1>4 DEF Crash, TypeOK
  <2>2. IsFiniteSet(seen'[n])
    BY <2>1, FS_EmptySet
  <2>. QED  BY <2>1, <2>2 DEF ShownIsRemembered
<1>. QED
  <2>1. ASSUME NEW n \in Nodes, NodeStep(n) PROVE ShownIsRemembered'
    BY <1>1, <1>2, <1>4, <2>1
       DEF NodeStep, TaskStep, Hello, Expire, Dial, StartDial, Snapshot, BroadcastDone,
           SendNext, Restart
  <2>2. ASSUME NEW k \in Links, LinkStep(k) PROVE ShownIsRemembered'
    BY <1>1, <2>2 DEF LinkStep, Accept, AcceptFails, DialDone, EndOfStream, LoopEnd
  <2>3. CASE UNCHANGED vars
    BY <1>1, <2>3 DEF vars
  <2>. QED  BY <1>3, <2>1, <2>2, <2>3 DEF Next

LEMMA InitRemembered == Init => ShownIsRemembered
BY FS_EmptySet DEF Init, ShownIsRemembered

LEMMA RememberedOnce == TypeOK /\ ShownIsRemembered => ShownOnce
BY DEF TypeOK, ShownIsRemembered, ShownOnce

-----------------------------------------------------------------------------
(* Whatever crashes, restarts and interleavings of handshakes, ends of     *)
(* connections and broadcasts there are, the connector of a node waits for *)
(* one handshake at a time, and every variable has its type.               *)
THEOREM TypeCorrect == Spec => []TypeOK
<1>. QED  BY InitType, NextType, InitServed, NextServed, InitOthers, NextOthers, PTL DEF Spec

(* An entry of `connections` is a link with that peer, and no entry        *)
(* survives the loop that serves an inbound link (connection.py:150), for  *)
(* any number of nodes, of links open between them and of crashes.         *)
THEOREM EntriesServed == Spec => []InboundEntryIsServed
<1>. QED  BY InitType, NextType, InitServed, NextServed, InitOthers, NextOthers, PTL DEF Spec

(* A repeated message is shown only where the set of seen ids is full, for *)
(* any number of nodes, links and messages and any _MAX_SEEN.              *)
THEOREM NoRepeatUntilFull == Spec => []ShownOnce
<1>. QED
  BY InitType, NextType, InitServed, NextServed, InitOthers, NextOthers,
     InitRemembered, NextRemembered, RememberedOnce, PTL DEF Spec
=============================================================================
