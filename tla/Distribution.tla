----------------------------- MODULE Distribution -----------------------------
(***************************************************************************)
(* Servers that share the automates of a system (class Distribution).      *)
(* Each connects to the others when it starts, accepts those that start    *)
(* later, has a view of who is reachable (server[i].init), and sends a     *)
(* message on when it is not the one to process it.  Servers crash and     *)
(* start again.                                                            *)
(*                                                                         *)
(* In every server a main thread dispatches, one thread accepts            *)
(* connections and every connection has a thread that receives; they share *)
(* server[] without a lock.  There is one automate type and one message,   *)
(* sent at any time, that is followed until it is processed or lost.       *)
(***************************************************************************)
EXTENDS Integers, Sequences, FiniteSets

CONSTANTS
  N,            \* bound: the number of servers
  Connections,  \* bound: connections made in a behaviour
  Crashes,      \* bound: crashes after which servers still start again
  Entries,      \* the AutoSrv list of the type: [startId, lastId, compId]
  Spare,        \* servers that have a free automate
  Sent          \* the messages sent: [from, object, group]

Server == 1 .. N
Conn   == 1 .. Connections
None   == 0     \* no socket, no server (INVALID_08)
Any    == -1    \* any object (INVALID_32), any group (INVALID_08)

ASSUME DistributionAssumption ==
  /\ N \in Nat /\ Connections \in Nat /\ Crashes \in Nat
  /\ Entries \in Seq([startId : Nat, lastId : Nat, compId : Seq(Server)])
  /\ Spare \subseteq Server
  /\ Sent \subseteq [from : Server, object : Nat \cup {Any}, group : Server \cup {Any}]

VARIABLES
  phase,    \* phase[n]: off, boot, run, or close while a send has failed
  boot,     \* boot[n]: the next server ConnectToServers looks at, or the
            \* server whose socket is to be closed
  view,     \* view[n][m]: server[m].init at n
  sock,     \* sock[n][m]: server[m].sock at n
  accept,   \* accept[n]: connections not accepted yet; pc of AcceptConn
  conn,     \* conn[k]: who made it, to whom, and the ends that are open
  rx,       \* rx[n][k]: the thread at n that was created for connection k, and
            \* the connection it is blocked on
  msg,      \* the message: where it is, its object and group, and, as a
            \* history, how often it was sent on
  crashes

vars == <<phase, boot, view, sock, accept, conn, rx, msg, crashes>>

NoThread == [pc |-> "none", on |-> None]
NoConn   == [from |-> None, to |-> None, open |-> {}]
NoMsg    == [at |-> "gone", server |-> None, conn |-> None, object |-> Any,
             group |-> Any, hops |-> 0]

Init ==
  /\ phase = [n \in Server |-> "off"]
  /\ boot = [n \in Server |-> None]
  /\ view = [n \in Server |-> [m \in Server |-> FALSE]]
  /\ sock = [n \in Server |-> [m \in Server |-> None]]
  /\ accept = [n \in Server |-> [pc |-> "wait", queue |-> <<>>]]
  /\ conn = [k \in Conn |-> NoConn]
  /\ rx = [n \in Server |-> [k \in Conn |-> NoThread]]
  /\ msg = [NoMsg EXCEPT !.at = "unsent"]
  /\ crashes = 0

Peer(n, k)  == IF conn[k].from = n THEN conn[k].to ELSE conn[k].from
Running(n)  == phase[n] \in {"run", "close"}
InMailbox(n) == msg.at = "mailbox" /\ msg.server = n
OnWire(k, n) == msg.at = "wire" /\ msg.conn = k /\ msg.server = n

(* No socket, one that is closed, or one whose peer is gone.               *)
Gone(k) == k # None => Cardinality(conn[k].open) < 2

(* closesocket(server[m].sock) at n: what was on its way to n is lost.     *)
Close(n, m) ==
  LET k == sock[n][m] IN
  IF k = None THEN UNCHANGED <<sock, conn, msg>>
  ELSE /\ sock' = [sock EXCEPT ![n][m] = None]
       /\ conn' = [conn EXCEPT ![k].open = @ \ {n}]
       /\ msg' = IF OnWire(k, n) THEN NoMsg ELSE msg

-----------------------------------------------------------------------------
(* Start and crash.  ConnectToServers goes through the other servers in    *)
(* order; a server listens once it has tried them all.                     *)
TryNext(n, m) ==
  LET next == IF m + 1 = n THEN m + 2 ELSE m + 1
  IN /\ boot' = [boot EXCEPT ![n] = IF next > N THEN None ELSE next]
     /\ phase' = [phase EXCEPT ![n] = IF next > N THEN "run" ELSE "boot"]

Boot(n) ==
  /\ phase[n] = "off" /\ crashes <= Crashes
  /\ view' = [view EXCEPT ![n][n] = TRUE]
  /\ TryNext(n, None)
  /\ UNCHANGED <<sock, accept, conn, rx, msg, crashes>>

(* ConnectToServers: one that does not listen.                             *)
ConnectFails(n) ==
  /\ phase[n] = "boot" /\ ~Running(boot[n])
  /\ TryNext(n, boot[n])
  /\ UNCHANGED <<view, sock, accept, conn, rx, msg, crashes>>

(* ConnectToServer: connect, the own number, and a thread to receive.      *)
ConnectToServer(n, k) ==
  LET m == boot[n] IN
  /\ phase[n] = "boot" /\ Running(m)
  /\ conn[k] = NoConn /\ \A j \in 1 .. k - 1 : conn[j] # NoConn
  /\ conn' = [conn EXCEPT ![k] = [from |-> n, to |-> m, open |-> {n, m}]]
  /\ accept' = [accept EXCEPT ![m].queue = Append(@, k)]
  /\ view' = [view EXCEPT ![n][m] = TRUE]
  /\ sock' = [sock EXCEPT ![n][m] = k]
  /\ rx' = [rx EXCEPT ![n][k].pc = "read"]
  /\ TryNext(n, m)
  /\ UNCHANGED <<msg, crashes>>

Crash(n) ==
  /\ phase' = [phase EXCEPT ![n] = "off"]
  /\ boot' = [boot EXCEPT ![n] = None]
  /\ view' = [view EXCEPT ![n] = [m \in Server |-> FALSE]]
  /\ sock' = [sock EXCEPT ![n] = [m \in Server |-> None]]
  /\ accept' = [accept EXCEPT ![n] = [pc |-> "wait", queue |-> <<>>]]
  /\ conn' = [k \in Conn |-> [conn[k] EXCEPT !.open = @ \ {n}]]
  /\ rx' = [rx EXCEPT ![n] = [k \in Conn |-> NoThread]]
  /\ msg' = IF msg.server = n THEN NoMsg ELSE msg
  /\ crashes' = crashes + 1

Fail(n) ==
  /\ phase[n] # "off" /\ crashes < Crashes
  /\ Crash(n)

-----------------------------------------------------------------------------
(* Faulty variant: the acceptor's own number.                              *)
OwnServerNum(n, k) == n
FindServerNum(n, k) == conn[k].from

(* AcceptConn: init is set before sock.                                    *)
AcceptInit(n) ==
  LET k == Head(accept[n].queue) IN
  /\ Running(n) /\ accept[n].pc = "wait" /\ accept[n].queue # <<>>
  /\ accept' = [accept EXCEPT ![n].pc = "store"]
  /\ view' = [view EXCEPT ![n][FindServerNum(n, k)] = TRUE]
  /\ UNCHANGED <<phase, boot, sock, conn, rx, msg, crashes>>

(* Faulty variant: no thread is created for a server known before.         *)
ThreadIfNew(n, k) ==
  IF sock[n][FindServerNum(n, k)] = None THEN [rx EXCEPT ![n][k].pc = "read"] ELSE rx
NewThread(n, k) == [rx EXCEPT ![n][k].pc = "read"]

AcceptSock(n) ==
  LET k == Head(accept[n].queue) IN
  /\ accept[n].pc = "store"
  /\ sock' = [sock EXCEPT ![n][FindServerNum(n, k)] = k]
  /\ rx' = NewThread(n, k)
  /\ accept' = [accept EXCEPT ![n] = [pc |-> "wait", queue |-> Tail(@.queue)]]
  /\ UNCHANGED <<phase, boot, view, conn, msg, crashes>>

-----------------------------------------------------------------------------
(* Receive and ReceiveMsg, in the thread created at n for connection k.    *)
(* recv is called on whatever server[m].sock is by then.                   *)
Recv(n, k) ==
  /\ rx[n][k].pc = "read"
  /\ rx' = [rx EXCEPT ![n][k] = [pc |-> "recv", on |-> sock[n][Peer(n, k)]]]
  /\ UNCHANGED <<phase, boot, view, sock, accept, conn, msg, crashes>>

(* Two threads that read the same socket may take a message apart.  While  *)
(* the constructor connects there is no kernel to get a buffer from.       *)
ReceiveMsg(n, k, whole) ==
  LET j == rx[n][k].on IN
  /\ rx[n][k].pc = "recv" /\ OnWire(j, n)
  /\ whole \/ \E i \in Conn \ {k} : rx[n][i] = rx[n][k]
  /\ IF phase[n] = "boot"
       THEN Crash(n)
       ELSE /\ rx' = [rx EXCEPT ![n][k] = [pc |-> "read", on |-> None]]
            /\ msg' = IF whole THEN [msg EXCEPT !.at = "mailbox", !.conn = None] ELSE NoMsg
            /\ UNCHANGED <<phase, boot, view, sock, accept, conn, crashes>>

(* Faulty variant: the loss of a connection is not noted.                  *)
ViewKept(n, m) == view
ViewLost(n, m) == [view EXCEPT ![n][m] = FALSE]

(* recv returned 0 or an error.                                            *)
ReceiveLost(n, k) ==
  LET j == rx[n][k].on IN
  /\ rx[n][k].pc = "recv" /\ ~OnWire(j, n) /\ Gone(j)
  /\ view' = ViewLost(n, Peer(n, k))
  /\ rx' = [rx EXCEPT ![n][k] = [pc |-> "lost", on |-> None]]
  /\ UNCHANGED <<phase, boot, sock, accept, conn, msg, crashes>>

(* The socket that is closed may be a newer one.                           *)
ReceiveClose(n, k) ==
  /\ rx[n][k].pc = "lost"
  /\ Close(n, Peer(n, k))
  /\ rx' = [rx EXCEPT ![n][k] = NoThread]
  /\ UNCHANGED <<phase, boot, view, accept, crashes>>

ReceiveThread(n, k) ==
  \/ Recv(n, k)
  \/ \E whole \in BOOLEAN : ReceiveMsg(n, k, whole)
  \/ ReceiveLost(n, k)
  \/ ReceiveClose(n, k)

-----------------------------------------------------------------------------
(* Routing.                                                                *)

(* GetActivSrv: the first server of an entry that n believes to be there.  *)
Active(n, e) ==
  LET c    == Entries[e].compId
      seen == {i \in DOMAIN c : view[n][c[i]]}
  IN IF seen = {} THEN None ELSE c[CHOOSE i \in seen : \A j \in seen : i <= j]

IsSupported(n, object) ==
  \E e \in DOMAIN Entries :
    /\ Active(n, e) = n
    /\ object # Any => object \in Entries[e].startId .. Entries[e].lastId

(* Faulty variant: the last other server instead of the first.             *)
LastSrv(n) ==
  LET s == {m \in Server \ {n} : view[n][m]}
  IN IF s = {} THEN None ELSE CHOOSE m \in s : \A l \in s : l <= m
(* SendMsgToFirstSrv: the first entry that another server is active for.   *)
FirstSrv(n) ==
  LET s == {e \in DOMAIN Entries : Active(n, e) \notin {None, n}}
  IN IF s = {} THEN None ELSE Active(n, CHOOSE e \in s : \A f \in s : e <= f)

(* SendMsgToServer.  send may succeed although the peer has gone.          *)
SendMsgToServer(n, m, ok) ==
  LET k == sock[n][m] IN
  IF ok
    THEN /\ k # None
         /\ msg' = IF m \in conn[k].open
                     THEN [msg EXCEPT !.at = "wire", !.server = m, !.conn = k, !.hops = @ + 1]
                     ELSE NoMsg
         /\ UNCHANGED <<phase, boot, view>>
    ELSE /\ Gone(k)
         /\ msg' = NoMsg
         /\ view' = [view EXCEPT ![n][m] = FALSE]
         /\ phase' = [phase EXCEPT ![n] = "close"]
         /\ boot' = [boot EXCEPT ![n] = m]

(* The rest of a failed SendMsgToServer.                                   *)
SendClose(n) ==
  /\ phase[n] = "close"
  /\ Close(n, boot[n])
  /\ phase' = [phase EXCEPT ![n] = "run"]
  /\ boot' = [boot EXCEPT ![n] = None]
  /\ UNCHANGED <<view, accept, rx, crashes>>

Ready(n) == phase[n] = "run" /\ InMailbox(n)
Mine(n)  == msg.group \in {n, Any} /\ IsSupported(n, msg.object)

(* ProcessMsg.  When no automate is free, FSMList::Get throws before the   *)
(* message could be sent to the next server.                               *)
ProcessMsg(n) ==
  /\ Ready(n) /\ Mine(n)
  /\ IF msg.object = Any /\ n \notin Spare
       THEN Crash(n)
       ELSE msg' = NoMsg /\ UNCHANGED <<phase, boot, view, sock, accept, conn, rx, crashes>>

(* For this server, which does not support it; or nobody is known to.      *)
DiscardMsg(n) ==
  /\ Ready(n) /\ ~Mine(n)
  /\ msg.group = n \/ (msg.group = Any /\ FirstSrv(n) = None)
  /\ msg' = NoMsg
  /\ UNCHANGED <<phase, boot, view, sock, accept, conn, rx, crashes>>

Forward(n, ok) ==
  /\ Ready(n) /\ ~Mine(n) /\ msg.group # n
  /\ msg.group = Any => FirstSrv(n) # None
  /\ SendMsgToServer(n, IF msg.group = Any THEN FirstSrv(n) ELSE msg.group, ok)
  /\ UNCHANGED <<sock, accept, conn, rx, crashes>>

MainThread(n) ==
  \/ ProcessMsg(n) \/ DiscardMsg(n) \/ SendClose(n)
  \/ \E ok \in BOOLEAN : Forward(n, ok)

(* An automate sends the message.                                          *)
Post(sent) ==
  /\ Running(sent.from) /\ msg.at = "unsent"
  /\ msg' = [at |-> "mailbox", server |-> sent.from, conn |-> None, object |-> sent.object,
             group |-> sent.group, hops |-> 0]
  /\ UNCHANGED <<phase, boot, view, sock, accept, conn, rx, crashes>>

-----------------------------------------------------------------------------
Next ==
  \/ \E n \in Server : Boot(n) \/ ConnectFails(n) \/ Fail(n)
  \/ \E n \in Server, k \in Conn : ConnectToServer(n, k)
  \/ \E n \in Server : AcceptInit(n) \/ AcceptSock(n)
  \/ \E n \in Server, k \in Conn : ReceiveThread(n, k)
  \/ \E n \in Server : MainThread(n)
  \/ \E sent \in Sent : Post(sent)

Spec == Init /\ [][Next]_vars

-----------------------------------------------------------------------------
(* Type invariant of the servers, their views, connections and threads.    *)
TypeOK ==
  /\ phase \in [Server -> {"off", "boot", "run", "close"}]
  /\ \A n \in Server : phase[n] \in {"boot", "close"} => boot[n] \in Server
  /\ view \in [Server -> [Server -> BOOLEAN]]
  /\ \A n, m \in Server : sock[n][m] # None =>
       n \in conn[sock[n][m]].open /\ {conn[sock[n][m]].from, conn[sock[n][m]].to} = {n, m}
  /\ \A k \in Conn : conn[k].open \subseteq {conn[k].from, conn[k].to}
  /\ \A n \in Server, k \in Conn :
       rx[n][k].pc # "none" => n \in {conn[k].from, conn[k].to} /\ rx[n][k].on \in Conn \cup {None}
  /\ msg.at = "wire" => msg.server \in conn[msg.conn].open
  /\ msg.at = "mailbox" => Running(msg.server)

(* A server that is believed to be there is watched: some thread still     *)
(* receives from it, or is about to be created, and will note its loss     *)
(* (AcceptConn, Receive and SendMsgToServer set init without a lock).      *)
BelievedIsWatched ==
  \A n, m \in Server :
    (n # m /\ view[n][m]) =>
      \/ \E k \in Conn : rx[n][k].pc \in {"read", "recv"} /\ Peer(n, k) = m
      \/ accept[n].pc = "store" /\ conn[Head(accept[n].queue)].from = m

(* What one list of servers supports is never sent in circles: a server    *)
(* sends it to one that comes before itself in the list, however the views *)
(* of the servers differ (SendMsgToFirstSrv, IsSupported), and what is     *)
(* sent to a server by its number is not sent on at all.                   *)
NoCircles ==
  Len(Entries) = 1 /\ msg.hops > 1 => msg.hops <= Len(Entries[1].compId)
=============================================================================
