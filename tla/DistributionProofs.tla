-------------------------- MODULE DistributionProofs --------------------------
(***************************************************************************)
(* For any number of servers, connections and crashes, and any list of     *)
(* automates: a server that is believed to be there is watched, sockets    *)
(* and the message are where they should be, and it runs in no circles.    *)
(***************************************************************************)
EXTENDS Distribution, NaturalsInduction, WellFoundedInduction, TLAPS

Thread     == [pc : {"none", "read", "recv", "lost"}, on : Conn \cup {None}]
Connection == [from : Server \cup {None}, to : Server \cup {None}, open : SUBSET Server]

(* The types the argument needs.  A server goes through the others.        *)
Types ==
  /\ phase \in [Server -> {"off", "boot", "run", "close"}]
  /\ boot = [n \in Server |-> boot[n]]
  /\ \A n \in Server : phase[n] = "boot" => boot[n] \in Server \ {n}
  /\ view \in [Server -> [Server -> BOOLEAN]]
  /\ sock \in [Server -> [Server -> Conn \cup {None}]]
  /\ accept \in [Server -> [pc : {"wait", "store"}, queue : Seq(Conn)]]
  /\ conn \in [Conn -> Connection]
  /\ rx \in [Server -> [Conn -> Thread]]

(* n is an end of the connection k, whose other end is another server.     *)
EndOf(n, k) ==
  /\ conn[k].from \in Server /\ conn[k].to \in Server /\ conn[k].from # conn[k].to
  /\ n \in {conn[k].from, conn[k].to}

(* Threads and the queues of accept belong to connections of their server. *)
Links ==
  /\ \A n \in Server, k \in Conn : rx[n][k].pc # "none" => EndOf(n, k)
  /\ \A n \in Server : \A i \in DOMAIN accept[n].queue :
       EndOf(n, accept[n].queue[i]) /\ conn[accept[n].queue[i]].to = n
  /\ \A n \in Server : accept[n].pc = "store" => accept[n].queue # <<>>

(* What BelievedIsWatched says of m at n.                                  *)
Watched(n, m) ==
  \/ \E k \in Conn : rx[n][k].pc \in {"read", "recv"} /\ Peer(n, k) = m
  \/ accept[n].pc = "store" /\ conn[Head(accept[n].queue)].from = m

IInv == Types /\ Links /\ BelievedIsWatched

LEMMA BelievedWatched ==
  ASSUME IInv, NEW n \in Server, NEW m \in Server, n # m, view[n][m]
  PROVE  Watched(n, m)
BY DEF IInv, BelievedIsWatched, Watched

-----------------------------------------------------------------------------
LEMMA InitIInv == Init => IInv
<1> SUFFICES ASSUME Init PROVE IInv
  OBVIOUS
<1> USE DEF Init, NoThread, NoConn, None
<1>1. Types
  BY DEF Types, Connection, Thread
<1>2. Links
  BY DEF Links
<1>3. BelievedIsWatched
  BY DEF BelievedIsWatched
<1> QED BY <1>1, <1>2, <1>3 DEF IInv

(* A connection with one end less.                                         *)
LEMMA EndClosed ==
  ASSUME NEW c \in Connection, NEW n
  PROVE  LET d == [c EXCEPT !.open = @ \ {n}]
         IN d \in Connection /\ d.from = c.from /\ d.to = c.to
<1>1. c.open \ {n} \in SUBSET Server
  BY DEF Connection
<1> QED BY <1>1 DEF Connection

(* closesocket leaves the ends of connections as they are.                 *)
LEMMA CloseEnds ==
  ASSUME Types, NEW n \in Server, NEW m, Close(n, m)
  PROVE  /\ sock' \in [Server -> [Server -> Conn \cup {None}]]
         /\ conn' \in [Conn -> Connection]
         /\ \A k \in Conn : conn'[k].from = conn[k].from /\ conn'[k].to = conn[k].to
<1>1. CASE sock[n][m] = None
  BY <1>1 DEF Close, Types
<1>2. CASE sock[n][m] # None
  <2> DEFINE k == sock[n][m]
             d == [conn[k] EXCEPT !.open = @ \ {n}]
  <2>1. sock' = [sock EXCEPT ![n][m] = None] /\ conn' = [conn EXCEPT ![k] = d]
    BY <1>2 DEF Close
  <2>2. sock' \in [Server -> [Server -> Conn \cup {None}]]
    BY <2>1 DEF Types
  <2>3. k \in Conn => d \in Connection /\ d.from = conn[k].from /\ d.to = conn[k].to
    <3>1. k \in Conn => conn[k] \in Connection
      BY DEF Types
    <3> QED BY <3>1, EndClosed
  <2> HIDE DEF k, d
  <2>4. \A j \in Conn : conn'[j] = IF j = k THEN d ELSE conn[j]
    BY <2>1 DEF Types
  <2>5. conn' \in [Conn -> Connection]
    BY <2>1, <2>3 DEF Types
  <2> QED BY <2>2, <2>3, <2>4, <2>5
<1> QED BY <1>1, <1>2

(* The ends of a connection stay what they are, so threads and queues that *)
(* do not change keep their links, and watchers their peers.               *)
LEMMA SameEnds ==
  ASSUME IInv, UNCHANGED <<accept, rx>>,
         \A k \in Conn : conn'[k].from = conn[k].from /\ conn'[k].to = conn[k].to
  PROVE  Links' /\ \A n, m \in Server : Watched(n, m) => Watched(n, m)'
<1>1. \A n \in Server : \A i \in DOMAIN accept[n].queue : accept[n].queue[i] \in Conn
  BY DEF IInv, Types
<1>2. \A n \in Server : accept[n].pc = "store" => Head(accept[n].queue) \in Conn
  BY DEF IInv, Types, Links
<1>3. \A n \in Server, k \in Conn : EndOf(n, k)' = EndOf(n, k) /\ Peer(n, k)' = Peer(n, k)
  BY DEF EndOf, Peer
<1>4. Links'
  BY <1>1, <1>3 DEF IInv, Links
<1>5. \A n, m \in Server : Watched(n, m) => Watched(n, m)'
  BY <1>2, <1>3 DEF Watched
<1> QED BY <1>4, <1>5

(* A step that adds no belief in another server and no loss of watchers.   *)
LEMMA NoNewBelief ==
  ASSUME IInv, \A n, m \in Server : Watched(n, m) => Watched(n, m)',
         \A n, m \in Server : n # m /\ view'[n][m] => view[n][m]
  PROVE  BelievedIsWatched'
  BY DEF IInv, BelievedIsWatched, Watched

(* A server that ends forgets everything; the others keep their threads.   *)
LEMMA CrashIInv == ASSUME IInv, NEW n \in Server, Crash(n) PROVE IInv'
<1>1. Types'
  <2>1. /\ phase' \in [Server -> {"off", "boot", "run", "close"}]
        /\ boot' = [m \in Server |-> boot'[m]]
        /\ \A m \in Server : phase'[m] = "boot" => boot'[m] \in Server \ {m}
    BY DEF IInv, Types, Crash, None
  <2>2. /\ view' \in [Server -> [Server -> BOOLEAN]]
        /\ sock' \in [Server -> [Server -> Conn \cup {None}]]
    BY DEF IInv, Types, Crash
  <2>3. accept' \in [Server -> [pc : {"wait", "store"}, queue : Seq(Conn)]]
    BY DEF IInv, Types, Crash
  <2>4. conn' \in [Conn -> Connection]
    BY EndClosed DEF IInv, Types, Crash
  <2>5. rx' \in [Server -> [Conn -> Thread]]
    BY DEF IInv, Types, Crash, NoThread, Thread
  <2> QED BY <2>1, <2>2, <2>3, <2>4, <2>5 DEF Types
<1>2. \A k \in Conn : conn'[k].from = conn[k].from /\ conn'[k].to = conn[k].to
  BY EndClosed DEF IInv, Types, Crash
<1>3. \A m \in Server : /\ m # n => rx'[m] = rx[m] /\ accept'[m] = accept[m] /\ view'[m] = view[m]
                        /\ m = n => /\ accept'[m] = [pc |-> "wait", queue |-> <<>>]
                                    /\ \A k \in Conn : rx'[m][k] = NoThread
                                    /\ \A l \in Server : ~view'[m][l]
  BY DEF IInv, Types, Crash
<1>4. \A m \in Server, k \in Conn : EndOf(m, k)' = EndOf(m, k) /\ Peer(m, k)' = Peer(m, k)
  BY <1>2 DEF EndOf, Peer
<1>5. /\ \A m \in Server : \A i \in DOMAIN accept[m].queue : accept[m].queue[i] \in Conn
      /\ \A m \in Server : accept[m].pc = "store" => Head(accept[m].queue) \in Conn
  BY DEF IInv, Types, Links
<1>6. Links'
  BY <1>2, <1>3, <1>4, <1>5 DEF IInv, Links, NoThread
<1>7. BelievedIsWatched'
  BY <1>2, <1>3, <1>4, <1>5 DEF IInv, BelievedIsWatched
<1> QED BY <1>1, <1>6, <1>7 DEF IInv

-----------------------------------------------------------------------------
(* ConnectToServers goes on to another server, or is done.                 *)
LEMMA TryNextTypes ==
  ASSUME Types, NEW n \in Server, NEW m \in Int, m >= 0, TryNext(n, m)
  PROVE  /\ phase' \in [Server -> {"off", "boot", "run", "close"}]
         /\ boot' = [l \in Server |-> boot'[l]]
         /\ \A l \in Server : phase'[l] = "boot" => boot'[l] \in Server \ {l}
<1> DEFINE next == IF m + 1 = n THEN m + 2 ELSE m + 1
<1>1. n \in Int /\ N \in Int /\ next \in Int /\ next >= 1 /\ next # n
  BY DistributionAssumption DEF Server
<1>2. next > N \/ next \in Server \ {n}
  BY <1>1 DEF Server
<1>3. /\ boot' = [boot EXCEPT ![n] = IF next > N THEN None ELSE next]
      /\ phase' = [phase EXCEPT ![n] = IF next > N THEN "run" ELSE "boot"]
  BY DEF TryNext
<1> HIDE DEF next
<1> QED BY <1>2, <1>3 DEF Types

(* The steps that start no thread and take no connection from a queue.     *)
LEMMA TypesKept ==
  ASSUME IInv, NEW n \in Server, UNCHANGED <<sock, accept, conn, rx>>,
         view' \in [Server -> [Server -> BOOLEAN]],
         \/ UNCHANGED <<phase, boot>>
         \/ \E m : phase' = [phase EXCEPT ![n] = "close"] /\ boot' = [boot EXCEPT ![n] = m]
         \/ \E m \in Int : m >= 0 /\ TryNext(n, m)
  PROVE  Types'
<1>1. /\ phase' \in [Server -> {"off", "boot", "run", "close"}]
      /\ boot' = [m \in Server |-> boot'[m]]
      /\ \A m \in Server : phase'[m] = "boot" => boot'[m] \in Server \ {m}
  <2>1. CASE UNCHANGED <<phase, boot>>
    BY <2>1 DEF IInv, Types
  <2>2. CASE \E m : phase' = [phase EXCEPT ![n] = "close"] /\ boot' = [boot EXCEPT ![n] = m]
    BY <2>2 DEF IInv, Types
  <2>3. CASE \E m \in Int : m >= 0 /\ TryNext(n, m)
    BY <2>3, TryNextTypes DEF IInv
  <2> QED BY <2>1, <2>2, <2>3
<1> QED BY <1>1 DEF IInv, Types

LEMMA QuietIInv ==
  ASSUME IInv, NEW n \in Server, UNCHANGED <<sock, accept, conn, rx>>,
         Types', \A m, l \in Server : m # l /\ view'[m][l] => view[m][l]
  PROVE  IInv'
<1>1. Links' /\ \A m, l \in Server : Watched(m, l) => Watched(m, l)'
  BY SameEnds
<1> QED BY <1>1, NoNewBelief DEF IInv

LEMMA BootIInv == ASSUME IInv, NEW n \in Server, Boot(n) \/ ConnectFails(n) PROVE IInv'
<1>0. view' = view \/ view' = [view EXCEPT ![n][n] = TRUE]
  BY DEF Boot, ConnectFails
<1>1. view' \in [Server -> [Server -> BOOLEAN]]
  <2>1. view \in [Server -> [Server -> BOOLEAN]]
    BY DEF IInv, Types
  <2>2. [view[n] EXCEPT ![n] = TRUE] \in [Server -> BOOLEAN]
    BY <2>1
  <2> QED BY <1>0, <2>1, <2>2
<1>2. ASSUME NEW m \in Server, NEW l \in Server, m # l, view'[m][l] PROVE view[m][l]
  BY <1>0, <1>2 DEF IInv, Types
<1>3. \E m \in Int : m >= 0 /\ TryNext(n, m)
  <2>1. CASE Boot(n)
    BY <2>1 DEF Boot, None
  <2>2. CASE ConnectFails(n)
    <3>1. boot[n] \in Server /\ TryNext(n, boot[n])
      BY <2>2 DEF IInv, Types, ConnectFails
    <3> QED BY <3>1 DEF Server
  <2> QED BY <2>1, <2>2
<1>4. UNCHANGED <<sock, accept, conn, rx>>
  BY DEF Boot, ConnectFails
<1>5. Types'
  BY <1>1, <1>3, <1>4, TypesKept
<1> QED BY <1>2, <1>4, <1>5, QuietIInv

LEMMA SendIInv ==
  ASSUME IInv, NEW n \in Server,
         DiscardMsg(n) \/ (\E ok \in BOOLEAN : Forward(n, ok)) \/ (\E sent \in Sent : Post(sent))
  PROVE  IInv'
<1>1. UNCHANGED <<sock, accept, conn, rx>>
  BY DEF DiscardMsg, Forward, Post
<1>2. \/ UNCHANGED <<phase, boot, view>>
      \/ \E m : /\ phase' = [phase EXCEPT ![n] = "close"] /\ boot' = [boot EXCEPT ![n] = m]
               /\ view' = [view EXCEPT ![n][m] = FALSE]
  BY DEF DiscardMsg, Forward, Post, SendMsgToServer
<1>3. /\ view' \in [Server -> [Server -> BOOLEAN]]
      /\ \A m, l \in Server : m # l /\ view'[m][l] => view[m][l]
  <2>1. CASE UNCHANGED view
    BY <2>1 DEF IInv, Types
  <2>2. ASSUME NEW m, view' = [view EXCEPT ![n][m] = FALSE] PROVE <1>3!1
    BY <2>2 DEF IInv, Types
  <2>3. ASSUME NEW m, view' = [view EXCEPT ![n][m] = FALSE],
               NEW i \in Server, NEW l \in Server, i # l, view'[i][l]
        PROVE  view[i][l]
    BY <2>3 DEF IInv, Types
  <2> QED BY <1>2, <2>1, <2>2, <2>3
<1>4. Types'
  BY <1>1, <1>2, <1>3, TypesKept
<1> QED BY <1>1, <1>3, <1>4, QuietIInv

LEMMA ProcessMsgIInv == ASSUME IInv, NEW n \in Server, ProcessMsg(n) PROVE IInv'
<1>1. CASE Crash(n)
  BY <1>1, CrashIInv
<1>2. CASE UNCHANGED <<phase, boot, view, sock, accept, conn, rx, crashes>>
  <2>1. Types'
    BY <1>2 DEF IInv, Types
  <2> QED BY <1>2, <2>1, QuietIInv
<1> QED BY <1>1, <1>2 DEF ProcessMsg

LEMMA SendCloseIInv == ASSUME IInv, NEW n \in Server, SendClose(n) PROVE IInv'
<1>1. /\ sock' \in [Server -> [Server -> Conn \cup {None}]]
      /\ conn' \in [Conn -> Connection]
      /\ \A k \in Conn : conn'[k].from = conn[k].from /\ conn'[k].to = conn[k].to
  BY CloseEnds DEF IInv, SendClose
<1>2. Types'
  BY <1>1 DEF IInv, Types, SendClose
<1>3. Links' /\ \A m, l \in Server : Watched(m, l) => Watched(m, l)'
  BY <1>1, SameEnds DEF SendClose
<1>4. BelievedIsWatched'
  BY <1>3, NoNewBelief DEF SendClose
<1> QED BY <1>2, <1>3, <1>4 DEF IInv

-----------------------------------------------------------------------------
(* The threads that receive.                                               *)
LEMMA PeerIsServer ==
  ASSUME IInv, NEW n \in Server, NEW k \in Conn, rx[n][k].pc # "none"
  PROVE  Peer(n, k) \in Server
  BY DEF IInv, Links, EndOf, Peer

(* Queues and ends stay; thread k of n, which had been created, changes.   *)
LEMMA ThreadLinks ==
  ASSUME IInv, NEW n \in Server, NEW k \in Conn, rx[n][k].pc # "none",
         UNCHANGED accept, NEW r, rx' = [rx EXCEPT ![n][k] = r],
         \A j \in Conn : conn'[j].from = conn[j].from /\ conn'[j].to = conn[j].to
  PROVE  /\ Links'
         /\ \A m, l \in Server :
              Watched(m, l) => \/ Watched(m, l)'
                               \/ m = n /\ l = Peer(n, k) /\ r.pc \notin {"read", "recv"}
<1>1. /\ \A m \in Server : \A i \in DOMAIN accept[m].queue : accept[m].queue[i] \in Conn
      /\ \A m \in Server : accept[m].pc = "store" => Head(accept[m].queue) \in Conn
  BY DEF IInv, Types, Links
<1>2. \A m \in Server, j \in Conn : EndOf(m, j)' = EndOf(m, j) /\ Peer(m, j)' = Peer(m, j)
  BY DEF EndOf, Peer
<1>3. \A m \in Server, j \in Conn : rx'[m][j] = IF m = n /\ j = k THEN r ELSE rx[m][j]
  BY DEF IInv, Types
<1>4. Links'
  BY <1>1, <1>2, <1>3 DEF IInv, Links
<1>5. ASSUME NEW m \in Server, NEW l \in Server, Watched(m, l),
             ~(m = n /\ l = Peer(n, k) /\ r.pc \notin {"read", "recv"})
      PROVE  Watched(m, l)'
  BY <1>1, <1>2, <1>3, <1>5 DEF Watched
<1> QED BY <1>4, <1>5

LEMMA RecvIInv ==
  ASSUME IInv, NEW n \in Server, NEW k \in Conn, Recv(n, k) PROVE IInv'
<1> DEFINE r == [pc |-> "recv", on |-> sock[n][Peer(n, k)]]
<1>1. r \in Thread
  BY PeerIsServer DEF Recv, IInv, Types, Thread
<1>2. rx' = [rx EXCEPT ![n][k] = r] /\ UNCHANGED <<phase, boot, view, sock, accept, conn>>
  BY DEF Recv
<1>3. Types'
  BY <1>1, <1>2 DEF IInv, Types
<1>4. Links' /\ \A m, l \in Server : Watched(m, l) => Watched(m, l)'
  <2>1. rx[n][k].pc # "none" /\ r.pc = "recv"
    BY DEF Recv
  <2> HIDE DEF r
  <2> QED BY <1>2, <2>1, ThreadLinks
<1>5. BelievedIsWatched'
  BY <1>2, <1>4, NoNewBelief
<1> QED BY <1>3, <1>4, <1>5 DEF IInv

LEMMA ReceiveMsgIInv ==
  ASSUME IInv, NEW n \in Server, NEW k \in Conn, NEW whole, ReceiveMsg(n, k, whole) PROVE IInv'
<1>1. CASE Crash(n)
  BY <1>1, CrashIInv
<1>2. CASE ~Crash(n)
  <2> DEFINE r == [pc |-> "read", on |-> None]
  <2>1. rx' = [rx EXCEPT ![n][k] = r] /\ UNCHANGED <<phase, boot, view, sock, accept, conn>>
    BY <1>2 DEF ReceiveMsg
  <2>2. Types'
    BY <2>1 DEF IInv, Types, Thread
  <2>3. Links' /\ \A m, l \in Server : Watched(m, l) => Watched(m, l)'
    <3>1. rx[n][k].pc # "none" /\ r.pc = "read"
      BY DEF ReceiveMsg
    <3> HIDE DEF r
    <3> QED BY <2>1, <3>1, ThreadLinks
  <2>4. BelievedIsWatched'
    BY <2>1, <2>3, NoNewBelief
  <2> QED BY <2>2, <2>3, <2>4 DEF IInv
<1> QED BY <1>1, <1>2

(* The one who watched notes the loss in the step in which it ends.        *)
LEMMA ReceiveLostIInv ==
  ASSUME IInv, NEW n \in Server, NEW k \in Conn, ReceiveLost(n, k) PROVE IInv'
<1> DEFINE r == [pc |-> "lost", on |-> None]
<1>1. /\ rx' = [rx EXCEPT ![n][k] = r] /\ UNCHANGED <<phase, boot, sock, accept, conn>>
      /\ view' = [view EXCEPT ![n][Peer(n, k)] = FALSE]
  BY DEF ReceiveLost, ViewLost
<1>2. Types'
  BY <1>1 DEF IInv, Types, Thread
<1>3. /\ Links'
      /\ \A m, l \in Server :
           Watched(m, l) => Watched(m, l)' \/ (m = n /\ l = Peer(n, k))
  <2>1. rx[n][k].pc # "none"
    BY DEF ReceiveLost
  <2> HIDE DEF r
  <2>2. \A j \in Conn : conn'[j].from = conn[j].from /\ conn'[j].to = conn[j].to
    BY <1>1
  <2>3. /\ Links'
        /\ \A m, l \in Server :
             Watched(m, l) => \/ Watched(m, l)'
                              \/ m = n /\ l = Peer(n, k) /\ r.pc \notin {"read", "recv"}
    BY <1>1, <2>1, <2>2, ThreadLinks
  <2> QED BY <2>3
<1>4. ASSUME NEW m \in Server, NEW l \in Server, m # l, view'[m][l] PROVE Watched(m, l)'
  <2>1. view[m][l] /\ ~(m = n /\ l = Peer(n, k))
    BY <1>1, <1>4 DEF IInv, Types
  <2> QED BY <1>3, <1>4, <2>1 DEF IInv, BelievedIsWatched, Watched
<1>5. BelievedIsWatched'
  BY <1>4 DEF BelievedIsWatched, Watched
<1> QED BY <1>2, <1>3, <1>5 DEF IInv

LEMMA ReceiveCloseIInv ==
  ASSUME IInv, NEW n \in Server, NEW k \in Conn, ReceiveClose(n, k) PROVE IInv'
<1>1. /\ sock' \in [Server -> [Server -> Conn \cup {None}]]
      /\ conn' \in [Conn -> Connection]
      /\ \A j \in Conn : conn'[j].from = conn[j].from /\ conn'[j].to = conn[j].to
  BY CloseEnds DEF IInv, ReceiveClose
<1>2. rx' = [rx EXCEPT ![n][k] = NoThread] /\ UNCHANGED <<phase, boot, view, accept>>
  BY DEF ReceiveClose
<1>3. Types'
  BY <1>1, <1>2 DEF IInv, Types, NoThread, Thread
<1>4. /\ \A m \in Server : accept[m].pc = "store" => Head(accept[m].queue) \in Conn
      /\ \A m \in Server, j \in Conn : Peer(m, j)' = Peer(m, j)
  BY <1>1 DEF IInv, Types, Links, Peer
<1>5. /\ rx[n][k].pc = "lost"
      /\ \A m \in Server, j \in Conn : rx'[m][j] = IF m = n /\ j = k THEN NoThread ELSE rx[m][j]
  <2>1. rx[n][k].pc = "lost"
    BY DEF ReceiveClose
  <2>2. rx \in [Server -> [Conn -> Thread]]
    BY DEF IInv, Types
  <2> QED BY <1>2, <2>1, <2>2
<1>6. Links' /\ \A m, l \in Server : Watched(m, l) => Watched(m, l)'
  <2>1. Links'
    BY <1>1, <1>2, <1>5, ThreadLinks
  <2>2. \A m, l \in Server : Watched(m, l) => Watched(m, l)'
    BY <1>1, <1>2, <1>4, <1>5 DEF Watched
  <2> QED BY <2>1, <2>2
<1>7. BelievedIsWatched'
  BY <1>2, <1>6, NoNewBelief
<1> QED BY <1>3, <1>6, <1>7 DEF IInv

-----------------------------------------------------------------------------
(* The thread that accepts, and the one that connects.                     *)
LEMMA AcceptInitIInv == ASSUME IInv, NEW n \in Server, AcceptInit(n) PROVE IInv'
<1> DEFINE from == conn[Head(accept[n].queue)].from
<1>1. /\ accept[n].pc = "wait" /\ accept[n].queue # <<>>
      /\ accept' = [accept EXCEPT ![n].pc = "store"]
      /\ view' = [view EXCEPT ![n][from] = TRUE]
      /\ UNCHANGED <<phase, boot, sock, conn, rx>>
  BY DEF AcceptInit, FindServerNum
<1>2. Head(accept[n].queue) \in Conn /\ EndOf(n, Head(accept[n].queue))
  <2>1. accept[n].queue \in Seq(Conn) /\ 1 \in DOMAIN accept[n].queue
    BY <1>1 DEF IInv, Types
  <2> QED BY <2>1 DEF IInv, Links
<1>3. \A m \in Server : accept'[m] = IF m = n THEN [accept[n] EXCEPT !.pc = "store"] ELSE accept[m]
  <2>1. accept' = [accept EXCEPT ![n] = [accept[n] EXCEPT !.pc = "store"]]
    BY <1>1
  <2> QED BY <2>1 DEF IInv, Types
<1>4. \A m, l \in Server : view'[m][l] = IF m = n /\ l = from THEN TRUE ELSE view[m][l]
  BY <1>1 DEF IInv, Types
<1>5. Types'
  <2>1. accept' \in [Server -> [pc : {"wait", "store"}, queue : Seq(Conn)]]
    <3>1. accept[n] \in [pc : {"wait", "store"}, queue : Seq(Conn)]
      BY DEF IInv, Types
    <3>2. [accept[n] EXCEPT !.pc = "store"] \in [pc : {"wait", "store"}, queue : Seq(Conn)]
      BY <3>1
    <3> QED BY <1>1, <3>2 DEF IInv, Types
  <2>2. view' \in [Server -> [Server -> BOOLEAN]]
    <3>1. view \in [Server -> [Server -> BOOLEAN]]
      BY DEF IInv, Types
    <3>2. [view[n] EXCEPT ![from] = TRUE] \in [Server -> BOOLEAN]
      BY <3>1
    <3> QED BY <1>1, <3>1, <3>2
  <2> QED BY <1>1, <2>1, <2>2 DEF IInv, Types
<1>6. \A m \in Server : /\ accept'[m].queue = accept[m].queue
                        /\ accept'[m].pc = IF m = n THEN "store" ELSE accept[m].pc
  BY <1>3 DEF IInv, Types
<1>7. \A m \in Server, k \in Conn : EndOf(m, k)' = EndOf(m, k) /\ Peer(m, k)' = Peer(m, k)
  BY <1>1 DEF EndOf, Peer
<1>8. Links'
  <2>1. \A m \in Server : \A i \in DOMAIN accept[m].queue : accept[m].queue[i] \in Conn
    BY DEF IInv, Types
  <2> QED BY <1>1, <1>6, <1>7, <2>1 DEF IInv, Links
<1>9. ASSUME NEW m \in Server, NEW l \in Server, m # l, view'[m][l] PROVE Watched(m, l)'
  <2>1. CASE m = n /\ l = from
    BY <1>1, <1>6, <2>1 DEF Watched
  <2>2. CASE ~(m = n /\ l = from)
    <3>0. view[m][l]
      BY <1>4, <1>9, <2>2
    <3>1. Watched(m, l)
      BY <1>9, <3>0, BelievedWatched
    <3> QED BY <1>1, <1>6, <1>7, <3>1 DEF Watched
  <2> QED BY <2>1, <2>2
<1>10. BelievedIsWatched'
  BY <1>9 DEF BelievedIsWatched, Watched
<1> QED BY <1>5, <1>8, <1>10 DEF IInv

(* The thread that is created watches the server that was accepted.        *)
LEMMA AcceptSockIInv == ASSUME IInv, NEW n \in Server, AcceptSock(n) PROVE IInv'
<1> DEFINE q == accept[n].queue
           k == Head(q)
           from == conn[k].from
<1>1. /\ accept[n].pc = "store"
      /\ sock' = [sock EXCEPT ![n][from] = k]
      /\ rx' = [rx EXCEPT ![n][k].pc = "read"]
      /\ accept' = [accept EXCEPT ![n] = [pc |-> "wait", queue |-> Tail(q)]]
      /\ UNCHANGED <<phase, boot, view, conn>>
  BY DEF AcceptSock, FindServerNum, NewThread
<1>2. /\ q \in Seq(Conn) /\ q # <<>> /\ Tail(q) \in Seq(Conn) /\ k \in Conn
      /\ \A i \in DOMAIN Tail(q) : i + 1 \in DOMAIN q /\ Tail(q)[i] = q[i + 1]
      /\ 1 \in DOMAIN q /\ k = q[1]
  <2>1. q \in Seq(Conn) /\ q # <<>>
    BY <1>1 DEF IInv, Types, Links
  <2> QED BY <2>1
<1>3. EndOf(n, k) /\ conn[k].to = n /\ Peer(n, k) = from
  <2>1. EndOf(n, k) /\ conn[k].to = n
    BY <1>2 DEF IInv, Links
  <2> QED BY <2>1 DEF EndOf, Peer
<1> HIDE DEF k, q
<1>4. \A m \in Server, j \in Conn :
        /\ EndOf(m, j)' = EndOf(m, j) /\ Peer(m, j)' = Peer(m, j)
        /\ rx'[m][j].pc = IF m = n /\ j = k THEN "read" ELSE rx[m][j].pc
  <2>1. \A m \in Server, j \in Conn : EndOf(m, j)' = EndOf(m, j) /\ Peer(m, j)' = Peer(m, j)
    BY <1>1 DEF EndOf, Peer
  <2>2. \A m \in Server, j \in Conn : rx'[m][j].pc = IF m = n /\ j = k THEN "read" ELSE rx[m][j].pc
    BY <1>1 DEF IInv, Types
  <2> QED BY <2>1, <2>2
<1>5. \A m \in Server : accept'[m] = IF m = n THEN [pc |-> "wait", queue |-> Tail(q)] ELSE accept[m]
  BY <1>1 DEF IInv, Types
<1>6. Types'
  <2>1. accept' \in [Server -> [pc : {"wait", "store"}, queue : Seq(Conn)]]
    BY <1>1, <1>2 DEF IInv, Types
  <2>2. rx' \in [Server -> [Conn -> Thread]]
    <3> DEFINE r == [rx[n][k] EXCEPT !.pc = "read"]
    <3>1. rx[n][k] \in Thread
      BY <1>2 DEF IInv, Types
    <3>2. r \in Thread
      BY <3>1 DEF Thread
    <3>3. rx' = [rx EXCEPT ![n][k] = r]
      BY <1>1
    <3> HIDE DEF r
    <3> QED BY <3>2, <3>3 DEF IInv, Types
  <2>3. sock' \in [Server -> [Server -> Conn \cup {None}]]
    BY <1>1, <1>2 DEF IInv, Types
  <2> QED BY <1>1, <2>1, <2>2, <2>3 DEF IInv, Types
<1>7. Links'
  <2>1. \A m \in Server, j \in Conn : rx'[m][j].pc # "none" => EndOf(m, j)'
    BY <1>3, <1>4 DEF IInv, Links
  <2>2. ASSUME NEW m \in Server, NEW i \in DOMAIN accept'[m].queue
        PROVE  (EndOf(m, accept[m].queue[i]) /\ conn[accept[m].queue[i]].to = m)'
    <3>1. PICK j \in DOMAIN accept[m].queue : accept'[m].queue[i] = accept[m].queue[j]
      BY <1>2, <1>5, <2>2 DEF q
    <3>2. accept[m].queue[j] \in Conn
      BY <3>1 DEF IInv, Types
    <3> QED BY <1>1, <1>4, <3>1, <3>2 DEF IInv, Links
  <2>3. \A m \in Server : accept'[m].pc = "store" => accept'[m].queue # <<>>
    BY <1>5 DEF IInv, Links
  <2> QED BY <2>1, <2>2, <2>3 DEF Links
<1>8. ASSUME NEW m \in Server, NEW l \in Server, Watched(m, l) PROVE Watched(m, l)'
  <2>1. CASE \E j \in Conn : rx[m][j].pc \in {"read", "recv"} /\ Peer(m, j) = l
    BY <1>4, <2>1 DEF Watched
  <2>2. CASE accept[m].pc = "store" /\ conn[Head(accept[m].queue)].from = l
    <3>1. CASE m = n
      BY <1>2, <1>3, <1>4, <2>2, <3>1 DEF Watched, k, q
    <3>2. CASE m # n
      BY <1>1, <1>5, <2>2, <3>2 DEF Watched
    <3> QED BY <3>1, <3>2
  <2> QED BY <1>8, <2>1, <2>2 DEF Watched
<1>9. BelievedIsWatched'
  BY <1>1, <1>8, NoNewBelief
<1> QED BY <1>6, <1>7, <1>9 DEF IInv

LEMMA AppendFacts ==
  ASSUME NEW S, NEW s \in Seq(S), NEW e \in S
  PROVE  /\ Append(s, e) # <<>>
         /\ \A j \in DOMAIN Append(s, e) :
              (j \in DOMAIN s /\ Append(s, e)[j] = s[j]) \/ Append(s, e)[j] = e
         /\ s # <<>> => Head(Append(s, e)) = Head(s)
  OBVIOUS

(* A connection is used once: nobody has linked k before.                  *)
LEMMA ConnectIInv ==
  ASSUME IInv, NEW n \in Server, NEW k \in Conn, ConnectToServer(n, k) PROVE IInv'
<1>0. PICK m \in Server \ {n} : m = boot[n]
  BY DEF ConnectToServer, IInv, Types
<1> DEFINE c == [from |-> n, to |-> m, open |-> {n, m}]
<1>1. /\ phase[n] = "boot" /\ conn[k] = NoConn
      /\ conn' = [conn EXCEPT ![k] = c]
      /\ accept' = [accept EXCEPT ![m].queue = Append(@, k)]
      /\ view' = [view EXCEPT ![n][m] = TRUE]
      /\ sock' = [sock EXCEPT ![n][m] = k]
      /\ rx' = [rx EXCEPT ![n][k].pc = "read"]
      /\ TryNext(n, m)
  BY <1>0 DEF ConnectToServer
<1>2. m \in Server \ {n}
  BY <1>0
<1>3. c \in Connection /\ c.from = n /\ c.to = m
  BY <1>2 DEF Connection
<1>4. \A l \in Server : ~EndOf(l, k) /\ rx[l][k].pc = "none"
  <2>1. None \notin Server
    BY DEF None, Server
  <2> QED BY <1>1, <2>1 DEF NoConn, EndOf, IInv, Types, Links
<1> HIDE DEF c
<1>5. /\ \A j \in Conn : conn'[j] = IF j = k THEN c ELSE conn[j]
      /\ \A i \in Server, j \in Conn : rx'[i][j].pc = IF i = n /\ j = k THEN "read" ELSE rx[i][j].pc
  BY <1>1 DEF IInv, Types
<1>6. \A i \in Server : /\ accept'[i].pc = accept[i].pc
                        /\ accept'[i].queue = IF i = m THEN Append(accept[m].queue, k)
                                                       ELSE accept[i].queue
  BY <1>1, <1>2 DEF IInv, Types
<1>7. \A i \in Server, l \in Server :
        view'[i][l] = IF i = n /\ l = m THEN TRUE ELSE view[i][l]
  BY <1>1, <1>2 DEF IInv, Types
<1>8. \A i \in Server, j \in Conn \ {k} : EndOf(i, j)' = EndOf(i, j) /\ Peer(i, j)' = Peer(i, j)
  BY <1>5 DEF EndOf, Peer
<1>9. EndOf(n, k)' /\ EndOf(m, k)' /\ conn'[k].to = m /\ Peer(n, k)' = m
  <2>1. conn'[k].from = n /\ conn'[k].to = m
    BY <1>3, <1>5
  <2> QED BY <1>2, <2>1 DEF EndOf, Peer
<1>10. Types'
  <2>1. /\ phase' \in [Server -> {"off", "boot", "run", "close"}]
        /\ boot' = [i \in Server |-> boot'[i]]
        /\ \A i \in Server : phase'[i] = "boot" => boot'[i] \in Server \ {i}
    BY <1>1, <1>2, TryNextTypes DEF IInv, Server
  <2>2. view' \in [Server -> [Server -> BOOLEAN]]
    <3>1. view \in [Server -> [Server -> BOOLEAN]]
      BY DEF IInv, Types
    <3>2. [view[n] EXCEPT ![m] = TRUE] \in [Server -> BOOLEAN]
      BY <3>1
    <3> QED BY <1>1, <3>1, <3>2
  <2>3. sock' \in [Server -> [Server -> Conn \cup {None}]]
    BY <1>1 DEF IInv, Types
  <2>4. accept' \in [Server -> [pc : {"wait", "store"}, queue : Seq(Conn)]]
    <3> DEFINE a == [accept[m] EXCEPT !.queue = Append(@, k)]
    <3>1. accept[m] \in [pc : {"wait", "store"}, queue : Seq(Conn)]
      BY <1>2 DEF IInv, Types
    <3>2. a \in [pc : {"wait", "store"}, queue : Seq(Conn)]
      <4>1. accept[m].queue \in Seq(Conn) /\ accept[m].pc \in {"wait", "store"}
        BY <3>1
      <4>2. Append(accept[m].queue, k) \in Seq(Conn)
        BY <4>1
      <4> QED BY <3>1, <4>1, <4>2
    <3>3. accept' = [accept EXCEPT ![m] = a]
      BY <1>1
    <3> HIDE DEF a
    <3> QED BY <3>2, <3>3 DEF IInv, Types
  <2>5. conn' \in [Conn -> Connection]
    BY <1>1, <1>3 DEF IInv, Types
  <2>6. rx' \in [Server -> [Conn -> Thread]]
    <3> DEFINE r == [rx[n][k] EXCEPT !.pc = "read"]
    <3>1. rx[n][k] \in Thread
      BY DEF IInv, Types
    <3>2. r \in Thread
      BY <3>1 DEF Thread
    <3>3. rx' = [rx EXCEPT ![n][k] = r]
      BY <1>1
    <3> HIDE DEF r
    <3> QED BY <3>2, <3>3 DEF IInv, Types
  <2> QED BY <2>1, <2>2, <2>3, <2>4, <2>5, <2>6 DEF Types
<1>11. \A i \in Server : \A j \in DOMAIN accept[i].queue :
         accept[i].queue[j] \in Conn \ {k} /\ EndOf(i, accept[i].queue[j])
  <2>1. \A i \in Server : \A j \in DOMAIN accept[i].queue : accept[i].queue[j] \in Conn
    BY DEF IInv, Types
  <2>2. \A i \in Server : \A j \in DOMAIN accept[i].queue : EndOf(i, accept[i].queue[j])
    BY DEF IInv, Links
  <2> QED BY <1>4, <2>1, <2>2
<1>12. Links'
  <2>1. \A i \in Server, j \in Conn : rx'[i][j].pc # "none" => EndOf(i, j)'
    BY <1>4, <1>5, <1>8, <1>9 DEF IInv, Links
  <2>2. ASSUME NEW i \in Server, NEW j \in DOMAIN accept'[i].queue
        PROVE  (EndOf(i, accept[i].queue[j]) /\ conn[accept[i].queue[j]].to = i)'
    <3>1. accept[i].queue \in Seq(Conn)
      BY DEF IInv, Types
    <3>2. CASE j \in DOMAIN accept[i].queue /\ accept'[i].queue[j] = accept[i].queue[j]
      BY <1>5, <1>8, <1>11, <3>2 DEF IInv, Links
    <3>3. CASE i = m /\ accept'[i].queue[j] = k
      BY <1>9, <3>3 DEF EndOf
    <3>4. CASE i = m
      <4>1. accept'[i].queue = Append(accept[i].queue, k)
        BY <1>6, <3>4
      <4> QED BY <2>2, <3>1, <3>2, <3>3, <3>4, <4>1, AppendFacts
    <3>5. CASE i # m
      BY <1>6, <2>2, <3>2, <3>5
    <3> QED BY <3>4, <3>5
  <2>3. \A i \in Server : accept'[i].pc = "store" => accept'[i].queue # <<>>
    <3>1. \A i \in Server : accept[i].queue \in Seq(Conn)
      BY DEF IInv, Types
    <3>2. \A i \in Server : Append(accept[i].queue, k) # <<>>
      BY <3>1, AppendFacts
    <3>3. \A i \in Server : accept[i].pc = "store" => accept[i].queue # <<>>
      BY DEF IInv, Links
    <3> QED BY <1>6, <3>2, <3>3
  <2> QED BY <2>1, <2>2, <2>3 DEF Links
<1>13. ASSUME NEW i \in Server, NEW l \in Server, Watched(i, l) PROVE Watched(i, l)'
  <2>1. CASE \E j \in Conn : rx[i][j].pc \in {"read", "recv"} /\ Peer(i, j) = l
    BY <1>4, <1>5, <1>8, <2>1 DEF Watched
  <2>2. CASE accept[i].pc = "store" /\ conn[Head(accept[i].queue)].from = l
    <3>1. accept[i].queue \in Seq(Conn) /\ accept[i].queue # <<>>
      BY <2>2 DEF IInv, Types, Links
    <3>2. Head(accept'[i].queue) = Head(accept[i].queue)
      <4>1. \/ accept'[i].queue = Append(accept[i].queue, k)
            \/ accept'[i].queue = accept[i].queue
        BY <1>6
      <4>2. Head(Append(accept[i].queue, k)) = Head(accept[i].queue)
        BY <3>1, AppendFacts
      <4> QED BY <4>1, <4>2
    <3>3. Head(accept[i].queue) \in Conn \ {k}
      BY <1>11, <3>1
    <3> QED BY <1>5, <1>6, <2>2, <3>2, <3>3 DEF Watched
  <2> QED BY <1>13, <2>1, <2>2 DEF Watched
<1>14. ASSUME NEW i \in Server, NEW l \in Server, i # l, view'[i][l] PROVE Watched(i, l)'
  <2>1. CASE i = n /\ l = m
    BY <1>5, <1>9, <2>1 DEF Watched
  <2>2. CASE ~(i = n /\ l = m)
    <3>1. view[i][l]
      BY <1>7, <1>14, <2>2
    <3>2. Watched(i, l)
      BY <1>14, <3>1, BelievedWatched
    <3> QED BY <1>13, <3>2
  <2> QED BY <2>1, <2>2
<1>15. BelievedIsWatched'
  BY <1>14 DEF BelievedIsWatched, Watched
<1> QED BY <1>10, <1>12, <1>15 DEF IInv

-----------------------------------------------------------------------------
LEMMA StutterIInv == ASSUME IInv, UNCHANGED vars PROVE IInv'
<1> USE DEF IInv, vars
<1>1. Types'
  BY DEF Types
<1>2. Links'
  <2>1. \A n \in Server, k \in Conn : EndOf(n, k)' = EndOf(n, k)
    BY DEF EndOf
  <2>2. \A n \in Server : \A i \in DOMAIN accept[n].queue : accept[n].queue[i] \in Conn
    BY DEF Types
  <2> QED BY <2>1, <2>2 DEF Links
<1>3. BelievedIsWatched'
  BY DEF BelievedIsWatched, Peer
<1> QED BY <1>1, <1>2, <1>3

LEMMA NextIInv == ASSUME IInv, Next PROVE IInv'
<1>1. ASSUME NEW n \in Server, Boot(n) \/ ConnectFails(n) \/ Fail(n) PROVE IInv'
  BY <1>1, BootIInv, CrashIInv DEF Fail
<1>2. ASSUME NEW n \in Server, NEW k \in Conn, ConnectToServer(n, k) PROVE IInv'
  BY <1>2, ConnectIInv
<1>3. ASSUME NEW n \in Server, AcceptInit(n) \/ AcceptSock(n) PROVE IInv'
  BY <1>3, AcceptInitIInv, AcceptSockIInv
<1>4. ASSUME NEW n \in Server, NEW k \in Conn, ReceiveThread(n, k) PROVE IInv'
  BY <1>4, RecvIInv, ReceiveMsgIInv, ReceiveLostIInv, ReceiveCloseIInv DEF ReceiveThread
<1>5. ASSUME NEW n \in Server, MainThread(n) PROVE IInv'
  BY <1>5, ProcessMsgIInv, SendIInv, SendCloseIInv DEF MainThread
<1>6. ASSUME NEW sent \in Sent, Post(sent) PROVE IInv'
  <2>1. sent.from \in Server
    BY DistributionAssumption
  <2> QED BY <1>6, <2>1, SendIInv
<1> QED BY <1>1, <1>2, <1>3, <1>4, <1>5, <1>6 DEF Next

(* However servers crash and start again and their threads interleave: one *)
(* that a server believes to be there is watched, so that its loss will be *)
(* noted (ConnectToServer, AcceptConn, Receive and SendMsgToServer).       *)
THEOREM BelievedServersAreWatched == Spec => []BelievedIsWatched
<1>1. IInv /\ [Next]_vars => IInv'
  BY NextIInv, StutterIInv
<1>2. IInv => BelievedIsWatched
  BY DEF IInv
<1> QED BY InitIInv, <1>1, <1>2, PTL DEF Spec
-----------------------------------------------------------------------------
(* Sockets, types and the routes of the message.  What follows adds to the *)
(* invariant above.                                                        *)

Message ==
  [at : {"unsent", "mailbox", "wire", "gone"}, server : Server \cup {None},
   conn : Conn \cup {None}, object : Nat \cup {Any}, group : Server \cup {Any}, hops : Nat]

(* A socket is an open end of a connection with the server it is kept for, *)
(* and so is a connection that waits to be accepted, which is waiting once *)
(* and has no socket yet: AcceptConn stores an open one.                   *)
Ends ==
  /\ \A k \in Conn : conn[k].open \subseteq {conn[k].from, conn[k].to}
  /\ \A n, m \in Server : sock[n][m] # None =>
       EndOf(n, sock[n][m]) /\ Peer(n, sock[n][m]) = m /\ n \in conn[sock[n][m]].open
  /\ \A n \in Server : \A i \in DOMAIN accept[n].queue :
       /\ n \in conn[accept[n].queue[i]].open
       /\ \A m \in Server : sock[n][m] # accept[n].queue[i]
       /\ \A j \in DOMAIN accept[n].queue : j # i => accept[n].queue[j] # accept[n].queue[i]

(* A server that is off has no threads; one that is not believes in itself. *)
Awake ==
  \A n \in Server :
    /\ phase[n] = "off" => accept[n].pc = "wait" /\ \A k \in Conn : rx[n][k].pc = "none"
    /\ phase[n] # "off" => view[n][n]
    /\ phase[n] = "close" => boot[n] \in Server

(* The message is on an open connection, or with a server that dispatches. *)
Carried ==
  /\ msg \in Message
  /\ msg.at = "wire" => msg.conn \in Conn /\ msg.server \in conn[msg.conn].open
  /\ msg.at = "mailbox" => msg.server \in Server /\ Running(msg.server)

(* With one list of servers a message that is for any of them has been     *)
(* sent to the i-th, and at most once to each of those behind it.          *)
Route ==
  /\ msg.at \in {"unsent", "gone"} => msg.hops = 0
  /\ msg.hops > 0 /\ msg.group # Any => msg.hops = 1 /\ msg.server = msg.group
  /\ Len(Entries) = 1 /\ msg.hops > 0 /\ msg.group = Any =>
       \E i \in DOMAIN Entries[1].compId :
         Entries[1].compId[i] = msg.server /\ msg.hops + i <= Len(Entries[1].compId) + 1

Inv == IInv /\ Ends /\ Awake /\ Carried /\ Route

LEMMA LeastNatural ==
  ASSUME NEW S, S \subseteq Nat, S # {}
  PROVE  \E k \in S : \A j \in S : k <= j
<1>1. PICK R : IsWellFoundedOn(R, Nat) /\ \A j, k \in Nat : j < k => <<j, k>> \in R
  <2>1. IsWellFoundedOn(OpToRel(<, Nat), Nat)
    BY NatLessThanWellFounded
  <2>2. \A j, k \in Nat : j < k => <<j, k>> \in OpToRel(<, Nat)
    BY DEF OpToRel
  <2> QED BY <2>1, <2>2
<1>2. IsWellFoundedOn(R, Nat)
  BY <1>1
<1>3. PICK k \in S : \A j \in S : ~(<<j, k>> \in R)
  <2>1. \E k \in S : \A j \in S : ~(<<j, k>> \in R)
    BY <1>2, WFMin, Zenon
  <2> QED BY <2>1
<1>4. ASSUME NEW j \in S PROVE k <= j
  <2>1. j \in Nat /\ k \in Nat
    OBVIOUS
  <2>2. ~(j < k)
    BY <1>1, <1>3, <2>1
  <2> QED BY <2>1, <2>2
<1> QED BY <1>4

LEMMA ListOfServers ==
  ASSUME NEW e \in DOMAIN Entries
  PROVE  e \in Nat /\ Entries[e].compId \in Seq(Server)
<1> DEFINE Entry == [startId : Nat, lastId : Nat, compId : Seq(Server)]
<1>1. Entries \in Seq(Entry)
  BY DistributionAssumption
<1> HIDE DEF Entry
<1>2. Entries[e] \in Entry /\ e \in Nat
  BY <1>1
<1> QED BY <1>2 DEF Entry

(* GetActivSrv returns the first server of the entry that n believes in.   *)
LEMMA ActiveIsFirst ==
  ASSUME NEW n \in Server, NEW e \in DOMAIN Entries, Active(n, e) # None
  PROVE  \E i \in DOMAIN Entries[e].compId :
           /\ Active(n, e) = Entries[e].compId[i]
           /\ \A j \in DOMAIN Entries[e].compId : view[n][Entries[e].compId[j]] => i <= j
<1> DEFINE c    == Entries[e].compId
           seen == {i \in DOMAIN c : view[n][c[i]]}
           first == CHOOSE i \in seen : \A j \in seen : i <= j
<1>1. seen \subseteq Nat
  <2>1. c \in Seq(Server)
    BY ListOfServers
  <2> HIDE DEF c
  <2> QED BY <2>1
<1>2. seen # {} /\ Active(n, e) = c[first]
  BY DEF Active
<1>3. \E i \in seen : \A j \in seen : i <= j
  <2> HIDE DEF seen
  <2> QED BY <1>1, <1>2, LeastNatural
<1>4. first \in seen /\ \A j \in seen : first <= j
  <2> HIDE DEF seen
  <2> QED BY <1>3
<1> HIDE DEF first
<1> QED BY <1>2, <1>4

LEMMA ActiveType ==
  ASSUME NEW n \in Server, NEW e \in DOMAIN Entries
  PROVE  Active(n, e) \in Server \cup {None}
<1>1. ASSUME NEW i \in DOMAIN Entries[e].compId PROVE Entries[e].compId[i] \in Server
  <2>1. Entries[e].compId \in Seq(Server)
    BY ListOfServers
  <2> QED BY <2>1
<1> QED BY <1>1, ActiveIsFirst

(* SendMsgToFirstSrv sends to a server that is active for an entry.        *)
LEMMA FirstIsActive ==
  ASSUME NEW n \in Server, FirstSrv(n) # None
  PROVE  \E e \in DOMAIN Entries : FirstSrv(n) = Active(n, e) /\ FirstSrv(n) \in Server \ {n}
<1> DEFINE s == {e \in DOMAIN Entries : Active(n, e) \notin {None, n}}
           first == CHOOSE e \in s : \A f \in s : e <= f
<1>1. s # {} /\ FirstSrv(n) = Active(n, first)
  BY DEF FirstSrv
<1>2. s \subseteq Nat
  BY ListOfServers
<1>3. \E e \in s : \A f \in s : e <= f
  <2> HIDE DEF s
  <2> QED BY <1>1, <1>2, LeastNatural
<1>4. first \in s
  <2> HIDE DEF s
  <2> QED BY <1>3
<1> HIDE DEF first
<1> QED BY <1>1, <1>4, ActiveType

-----------------------------------------------------------------------------
LEMMA InitInv == Init => Inv
<1> SUFFICES ASSUME Init PROVE Inv
  OBVIOUS
<1>1. IInv
  BY InitIInv
<1> USE DEF Init, NoThread, NoConn, NoMsg
<1>2. Ends
  <2>1. \A n \in Server : DOMAIN accept[n].queue = {}
    OBVIOUS
  <2> QED BY <2>1 DEF Ends
<1>3. Awake
  BY DEF Awake
<1>4. Carried
  BY DEF Carried, Message
<1>5. Route
  BY DEF Route
<1> QED BY <1>1, <1>2, <1>3, <1>4, <1>5 DEF Inv

(* What the steps change, field by field.                                  *)
LEMMA CloseFields ==
  ASSUME Types, NEW n \in Server, NEW m \in Server, Close(n, m)
  PROVE  /\ \A i, l \in Server : sock'[i][l] = IF i = n /\ l = m THEN None ELSE sock[i][l]
         /\ \A k \in Conn :
              /\ conn'[k].from = conn[k].from /\ conn'[k].to = conn[k].to
              /\ conn'[k].open = IF k = sock[n][m] THEN conn[k].open \ {n} ELSE conn[k].open
         /\ msg' = IF sock[n][m] # None /\ OnWire(sock[n][m], n) THEN NoMsg ELSE msg
<1>0. None \notin Conn
  BY DEF None, Conn
<1>1. CASE sock[n][m] = None
  <2>1. UNCHANGED <<sock, conn, msg>>
    BY <1>1 DEF Close
  <2> QED BY <1>0, <1>1, <2>1
<1>2. CASE sock[n][m] # None
  <2>1. /\ sock' = [sock EXCEPT ![n][m] = None]
        /\ conn' = [conn EXCEPT ![sock[n][m]].open = @ \ {n}]
        /\ msg' = IF OnWire(sock[n][m], n) THEN NoMsg ELSE msg
    BY <1>2 DEF Close
  <2>2. \A i, l \in Server : sock'[i][l] = IF i = n /\ l = m THEN None ELSE sock[i][l]
    BY <2>1 DEF Types
  <2>3. ASSUME NEW k \in Conn
        PROVE  /\ conn'[k].from = conn[k].from /\ conn'[k].to = conn[k].to
               /\ conn'[k].open = IF k = sock[n][m] THEN conn[k].open \ {n} ELSE conn[k].open
    <3>1. conn[k] \in Connection
      BY DEF Types
    <3>2. conn'[k] = IF k = sock[n][m] THEN [conn[k] EXCEPT !.open = @ \ {n}] ELSE conn[k]
      BY <2>1 DEF Types
    <3> QED BY <3>1, <3>2 DEF Connection
  <2> QED BY <1>2, <2>1, <2>2, <2>3
<1> QED BY <1>1, <1>2

LEMMA CrashFields ==
  ASSUME Types, NEW n \in Server, Crash(n)
  PROVE  /\ \A i \in Server : /\ phase'[i] = IF i = n THEN "off" ELSE phase[i]
                              /\ i # n => /\ boot'[i] = boot[i] /\ view'[i] = view[i]
                                          /\ sock'[i] = sock[i] /\ accept'[i] = accept[i]
                                          /\ rx'[i] = rx[i]
         /\ accept'[n] = [pc |-> "wait", queue |-> <<>>]
         /\ \A l \in Server : sock'[n][l] = None
         /\ \A k \in Conn : /\ rx'[n][k] = NoThread
                            /\ conn'[k].from = conn[k].from /\ conn'[k].to = conn[k].to
                            /\ conn'[k].open = conn[k].open \ {n}
         /\ msg' = IF msg.server = n THEN NoMsg ELSE msg
<1>1. ASSUME NEW k \in Conn
      PROVE  /\ conn'[k].from = conn[k].from /\ conn'[k].to = conn[k].to
             /\ conn'[k].open = conn[k].open \ {n}
  <2>1. conn[k] \in Connection
    BY DEF Types
  <2>2. conn'[k] = [conn[k] EXCEPT !.open = @ \ {n}]
    BY DEF Crash
  <2> QED BY <2>1, <2>2 DEF Connection
<1>2. \A k \in Conn : rx'[n][k] = NoThread
  BY DEF Crash, Types
<1>3. \A i \in Server : /\ phase'[i] = IF i = n THEN "off" ELSE phase[i]
                        /\ i # n => /\ boot'[i] = boot[i] /\ view'[i] = view[i]
                                    /\ sock'[i] = sock[i] /\ accept'[i] = accept[i]
                                    /\ rx'[i] = rx[i]
  BY DEF Crash, Types
<1>4. accept'[n] = [pc |-> "wait", queue |-> <<>>] /\ \A l \in Server : sock'[n][l] = None
  BY DEF Crash, Types
<1>5. msg' = IF msg.server = n THEN NoMsg ELSE msg
  BY DEF Crash
<1> QED BY <1>1, <1>2, <1>3, <1>4, <1>5

-----------------------------------------------------------------------------
(* The ends of sockets and of connections to be accepted.                  *)
LEMMA EndsKept ==
  ASSUME Inv, UNCHANGED <<sock, conn>>, \A n \in Server : accept'[n].queue = accept[n].queue
  PROVE  Ends'
<1>1. \A n \in Server : \A k : EndOf(n, k)' = EndOf(n, k) /\ Peer(n, k)' = Peer(n, k)
  BY DEF EndOf, Peer
<1> QED BY <1>1 DEF Inv, Ends

LEMMA CloseKeepsEnds ==
  ASSUME Inv, NEW n \in Server, NEW m \in Server, Close(n, m), UNCHANGED accept
  PROVE  Ends'
<1>1. /\ \A i, l \in Server : sock'[i][l] = IF i = n /\ l = m THEN None ELSE sock[i][l]
      /\ \A k \in Conn :
           /\ conn'[k].from = conn[k].from /\ conn'[k].to = conn[k].to
           /\ conn'[k].open = IF k = sock[n][m] THEN conn[k].open \ {n} ELSE conn[k].open
  BY CloseFields DEF Inv, IInv
<1>2. \A i \in Server, k \in Conn : EndOf(i, k)' = EndOf(i, k) /\ Peer(i, k)' = Peer(i, k)
  BY <1>1 DEF EndOf, Peer
<1>3. /\ \A i, l \in Server : sock[i][l] \in Conn \cup {None}
      /\ \A i \in Server : \A j \in DOMAIN accept[i].queue : accept[i].queue[j] \in Conn
  BY DEF Inv, IInv, Types
<1>4. \A k \in Conn : conn'[k].open \subseteq {conn'[k].from, conn'[k].to}
  BY <1>1 DEF Inv, Ends
<1>5. ASSUME NEW i \in Server, NEW l \in Server, sock'[i][l] # None
      PROVE  (EndOf(i, sock[i][l]) /\ Peer(i, sock[i][l]) = l /\ i \in conn[sock[i][l]].open)'
  <2>1. sock'[i][l] = sock[i][l] /\ ~(i = n /\ l = m) /\ sock[i][l] \in Conn
    BY <1>1, <1>3, <1>5
  <2>2. EndOf(i, sock[i][l]) /\ Peer(i, sock[i][l]) = l /\ i \in conn[sock[i][l]].open
    BY <1>5, <2>1 DEF Inv, Ends
  <2>3. sock[n][m] # None => Peer(n, sock[n][m]) = m
    BY DEF Inv, Ends
  <2>4. ~(i = n /\ sock[i][l] = sock[n][m])
    BY <1>5, <2>1, <2>2, <2>3
  <2>5. i \in conn'[sock[i][l]].open
    BY <1>1, <2>1, <2>2, <2>4
  <2>6. EndOf(i, sock[i][l])' /\ Peer(i, sock[i][l])' = l
    <3>1. \A k \in Conn : EndOf(i, k) /\ Peer(i, k) = l => EndOf(i, k)' /\ Peer(i, k)' = l
      BY <1>2
    <3>2. sock'[i][l] \in Conn /\ EndOf(i, sock'[i][l]) /\ Peer(i, sock'[i][l]) = l
      BY <2>1, <2>2
    <3> QED BY <1>1, <2>1, <2>2, <3>2 DEF EndOf, Peer
  <2> QED BY <2>1, <2>5, <2>6
<1>6. ASSUME NEW i \in Server, NEW j \in DOMAIN accept[i].queue
      PROVE  /\ i \in conn'[accept[i].queue[j]].open
             /\ \A l \in Server : sock'[i][l] # accept[i].queue[j]
             /\ \A h \in DOMAIN accept[i].queue : h # j => accept[i].queue[h] # accept[i].queue[j]
  <2>1. /\ i \in conn[accept[i].queue[j]].open
        /\ \A l \in Server : sock[i][l] # accept[i].queue[j]
        /\ \A h \in DOMAIN accept[i].queue : h # j => accept[i].queue[h] # accept[i].queue[j]
    BY DEF Inv, Ends
  <2>2. PICK k \in Conn : k = accept[i].queue[j] /\ k # None
    <3>1. None \notin Conn
      BY DEF None, Conn
    <3> QED BY <1>3, <3>1
  <2>3. i \in conn'[k].open
    <3>1. ~(i = n /\ k = sock[n][m])
      BY <2>1, <2>2
    <3>2. conn'[k].open = IF k = sock[n][m] THEN conn[k].open \ {n} ELSE conn[k].open
      BY <1>1
    <3> QED BY <2>1, <2>2, <3>1, <3>2
  <2>4. \A l \in Server : sock'[i][l] # k
    BY <1>1, <2>1, <2>2
  <2> QED BY <2>1, <2>2, <2>3, <2>4
<1> QED BY <1>4, <1>5, <1>6 DEF Ends

LEMMA CrashKeepsEnds ==
  ASSUME Inv, NEW n \in Server, Crash(n) PROVE Ends'
<1>0. Types
  BY DEF Inv, IInv
<1>1. /\ \A i \in Server : i # n => sock'[i] = sock[i] /\ accept'[i] = accept[i]
      /\ accept'[n].queue = <<>>
      /\ \A l \in Server : sock'[n][l] = None
      /\ \A k \in Conn : /\ conn'[k].from = conn[k].from /\ conn'[k].to = conn[k].to
                         /\ conn'[k].open = conn[k].open \ {n}
  BY <1>0, CrashFields
<1>2. \A i \in Server, k \in Conn : EndOf(i, k)' = EndOf(i, k) /\ Peer(i, k)' = Peer(i, k)
  BY <1>1 DEF EndOf, Peer
<1>3. /\ \A i, l \in Server : sock[i][l] \in Conn \cup {None}
      /\ \A i \in Server : \A j \in DOMAIN accept[i].queue : accept[i].queue[j] \in Conn
  BY DEF Inv, IInv, Types
<1>4. \A k \in Conn : conn'[k].open \subseteq {conn'[k].from, conn'[k].to}
  BY <1>1 DEF Inv, Ends
<1>5. ASSUME NEW i \in Server, NEW l \in Server, sock'[i][l] # None
      PROVE  (EndOf(i, sock[i][l]) /\ Peer(i, sock[i][l]) = l /\ i \in conn[sock[i][l]].open)'
  <2>1. i # n /\ sock'[i][l] = sock[i][l] /\ sock[i][l] \in Conn
    BY <1>1, <1>3, <1>5
  <2> QED BY <1>1, <1>2, <1>5, <2>1 DEF Inv, Ends
<1>6. ASSUME NEW i \in Server, NEW j \in DOMAIN accept'[i].queue
      PROVE  (/\ i \in conn[accept[i].queue[j]].open
              /\ \A l \in Server : sock[i][l] # accept[i].queue[j]
              /\ \A h \in DOMAIN accept[i].queue : h # j => accept[i].queue[h] # accept[i].queue[j])'
  <2>1. i # n
    BY <1>1
  <2>2. accept[i].queue[j] \in Conn
    BY <1>1, <1>3, <2>1
  <2> QED BY <1>1, <2>1, <2>2 DEF Inv, Ends
<1> QED BY <1>4, <1>5, <1>6 DEF Ends

LEMMA AppendPlaces ==
  ASSUME NEW S, NEW s \in Seq(S), NEW e \in S
  PROVE  \A i \in DOMAIN Append(s, e) :
           \/ i \in DOMAIN s /\ Append(s, e)[i] = s[i]
           \/ i = Len(s) + 1 /\ Append(s, e)[i] = e
  OBVIOUS

(* A new connection is nobody's socket and in no queue.                    *)
LEMMA ConnectKeepsEnds ==
  ASSUME Inv, NEW n \in Server, NEW k \in Conn, ConnectToServer(n, k)
  PROVE  /\ Ends'
         /\ \A j \in Conn : conn[j].open \subseteq conn'[j].open
<1>0. PICK m \in Server \ {n} : m = boot[n]
  BY DEF ConnectToServer, Inv, IInv, Types
<1>1. /\ conn[k] = NoConn
      /\ conn' = [conn EXCEPT ![k] = [from |-> n, to |-> m, open |-> {n, m}]]
      /\ accept' = [accept EXCEPT ![m].queue = Append(@, k)]
      /\ sock' = [sock EXCEPT ![n][m] = k]
  BY <1>0 DEF ConnectToServer
<1>2. /\ \A j \in Conn : j # k => conn'[j] = conn[j]
      /\ conn'[k].from = n /\ conn'[k].to = m /\ conn'[k].open = {n, m}
  BY <1>1 DEF Inv, IInv, Types
<1>3. \A i \in Server : accept'[i].queue = IF i = m THEN Append(accept[m].queue, k) ELSE accept[i].queue
  BY <1>1 DEF Inv, IInv, Types
<1>4. \A i, l \in Server : sock'[i][l] = IF i = n /\ l = m THEN k ELSE sock[i][l]
  BY <1>1 DEF Inv, IInv, Types
<1>5. \A i \in Server : ~EndOf(i, k)
  <2>1. None \notin Server
    BY DEF None, Server
  <2> QED BY <1>1, <2>1 DEF NoConn, EndOf
<1>6. \A i \in Server, j \in Conn : j # k => EndOf(i, j)' = EndOf(i, j) /\ Peer(i, j)' = Peer(i, j)
  BY <1>2 DEF EndOf, Peer
<1>7. \A i, l \in Server : sock[i][l] \in Conn \cup {None} /\ sock[i][l] # k
  <2>1. \A i, l \in Server : sock[i][l] \in Conn \cup {None}
    BY DEF Inv, IInv, Types
  <2>2. k # None
    BY DEF None, Conn
  <2> QED BY <1>5, <2>1, <2>2 DEF Inv, Ends
<1>8. \A i \in Server : \A j \in DOMAIN accept[i].queue :
        accept[i].queue[j] \in Conn /\ accept[i].queue[j] # k
  <2>1. \A i \in Server : \A j \in DOMAIN accept[i].queue : accept[i].queue[j] \in Conn
    BY DEF Inv, IInv, Types
  <2>2. \A i \in Server : \A j \in DOMAIN accept[i].queue : EndOf(i, accept[i].queue[j])
    BY DEF Inv, IInv, Links
  <2> QED BY <1>5, <2>1, <2>2
<1>9. \A j \in Conn : conn'[j].open \subseteq {conn'[j].from, conn'[j].to}
  BY <1>2 DEF Inv, Ends
<1>10. ASSUME NEW i \in Server, NEW l \in Server, sock'[i][l] # None
       PROVE  (EndOf(i, sock[i][l]) /\ Peer(i, sock[i][l]) = l /\ i \in conn[sock[i][l]].open)'
  <2>1. CASE i = n /\ l = m
    BY <1>0, <1>2, <1>4, <2>1 DEF EndOf, Peer
  <2>2. CASE ~(i = n /\ l = m)
    <3>1. sock'[i][l] = sock[i][l] /\ sock[i][l] \in Conn /\ sock[i][l] # k
      BY <1>4, <1>7, <1>10, <2>2
    <3>2. EndOf(i, sock[i][l]) /\ Peer(i, sock[i][l]) = l /\ i \in conn[sock[i][l]].open
      BY <1>10, <3>1 DEF Inv, Ends
    <3>3. conn'[sock[i][l]] = conn[sock[i][l]]
      BY <1>2, <3>1
    <3> QED BY <3>1, <3>2, <3>3 DEF EndOf, Peer
  <2> QED BY <2>1, <2>2
<1>11. ASSUME NEW i \in Server, NEW j \in DOMAIN accept[i].queue
       PROVE  /\ i \in conn'[accept[i].queue[j]].open
              /\ \A l \in Server : sock'[i][l] # accept[i].queue[j]
  BY <1>2, <1>4, <1>8 DEF Inv, Ends
<1>12. ASSUME NEW i \in Server PROVE accept[i].queue \in Seq(Conn)
  BY DEF Inv, IInv, Types
<1>13. ASSUME NEW i \in Server, NEW j \in DOMAIN accept'[i].queue
       PROVE  (/\ i \in conn[accept[i].queue[j]].open
               /\ \A l \in Server : sock[i][l] # accept[i].queue[j]
               /\ \A h \in DOMAIN accept[i].queue : h # j => accept[i].queue[h] # accept[i].queue[j])'
  <2>1. CASE i # m
    <3>1. accept'[i].queue = accept[i].queue
      BY <1>3, <2>1
    <3> QED BY <1>11, <3>1 DEF Inv, Ends
  <2>2. CASE i = m
    <3>1. accept'[i].queue = Append(accept[i].queue, k)
      BY <1>3, <2>2
    <3>2. \A h \in DOMAIN accept'[i].queue :
            \/ h \in DOMAIN accept[i].queue /\ accept'[i].queue[h] = accept[i].queue[h]
            \/ h = Len(accept[i].queue) + 1 /\ accept'[i].queue[h] = k
      BY <1>12, <3>1, AppendPlaces
    <3>3. m \in conn'[k].open /\ \A l \in Server : sock'[m][l] # k
      BY <1>0, <1>2, <1>4, <1>7
    <3>4. ASSUME NEW h \in DOMAIN accept'[i].queue, h # j PROVE accept'[i].queue[h] # accept'[i].queue[j]
      <4>1. CASE h \in DOMAIN accept[i].queue /\ j \in DOMAIN accept[i].queue
        BY <1>8, <3>2, <3>4, <4>1 DEF Inv, Ends
      <4>2. CASE ~(h \in DOMAIN accept[i].queue /\ j \in DOMAIN accept[i].queue)
        BY <1>8, <3>2, <3>4, <4>2
      <4> QED BY <4>1, <4>2
    <3> QED BY <1>11, <2>2, <3>2, <3>3, <3>4
  <2> QED BY <2>1, <2>2
<1>14. \A j \in Conn : conn[j].open \subseteq conn'[j].open
  BY <1>1, <1>2 DEF NoConn
<1> QED BY <1>9, <1>10, <1>13, <1>14 DEF Ends

(* What AcceptConn stores was waiting, is open, and waits no more.         *)
LEMMA AcceptSockKeepsEnds ==
  ASSUME Inv, NEW n \in Server, AcceptSock(n) PROVE Ends'
<1>0. PICK q \in Seq(Conn) : q = accept[n].queue
  BY DEF Inv, IInv, Types
<1>1. /\ q # <<>> /\ 1 \in DOMAIN q /\ Head(q) = q[1] /\ q[1] \in Conn
      /\ \A i \in DOMAIN Tail(q) : i + 1 \in DOMAIN q /\ i + 1 # 1 /\ Tail(q)[i] = q[i + 1]
      /\ \A i, j \in DOMAIN Tail(q) : i # j => i + 1 # j + 1
  <2>1. q # <<>>
    BY <1>0 DEF Inv, IInv, Links, AcceptSock
  <2> QED BY <2>1
<1>2. PICK m \in Server : m = conn[q[1]].from /\ EndOf(n, q[1]) /\ Peer(n, q[1]) = m
  <2>1. EndOf(n, q[1]) /\ conn[q[1]].to = n
    BY <1>0, <1>1 DEF Inv, IInv, Links
  <2> QED BY <2>1 DEF EndOf, Peer
<1>3. /\ sock' = [sock EXCEPT ![n][m] = q[1]]
      /\ accept' = [accept EXCEPT ![n] = [pc |-> "wait", queue |-> Tail(q)]]
      /\ UNCHANGED conn
  BY <1>0, <1>1, <1>2 DEF AcceptSock, FindServerNum
<1>4. /\ \A i, l \in Server : sock'[i][l] = IF i = n /\ l = m THEN q[1] ELSE sock[i][l]
      /\ \A i \in Server : accept'[i].queue = IF i = n THEN Tail(q) ELSE accept[i].queue
  BY <1>3 DEF Inv, IInv, Types
<1>5. \A i \in Server, j \in Conn : EndOf(i, j)' = EndOf(i, j) /\ Peer(i, j)' = Peer(i, j)
  BY <1>3 DEF EndOf, Peer
<1>6. \A i \in DOMAIN q : /\ n \in conn[q[i]].open
                          /\ \A l \in Server : sock[n][l] # q[i]
                          /\ \A j \in DOMAIN q : j # i => q[j] # q[i]
  BY <1>0 DEF Inv, Ends
<1>7. ASSUME NEW i \in Server, NEW l \in Server, sock'[i][l] # None
      PROVE  (EndOf(i, sock[i][l]) /\ Peer(i, sock[i][l]) = l /\ i \in conn[sock[i][l]].open)'
  <2>1. CASE i = n /\ l = m
    BY <1>1, <1>2, <1>3, <1>4, <1>5, <1>6, <2>1
  <2>2. CASE ~(i = n /\ l = m)
    <3>1. sock'[i][l] = sock[i][l]
      BY <1>4, <2>2
    <3>2. EndOf(i, sock[i][l]) /\ Peer(i, sock[i][l]) = l /\ i \in conn[sock[i][l]].open
      BY <1>7, <3>1 DEF Inv, Ends
    <3> QED BY <1>3, <3>1, <3>2 DEF EndOf, Peer
  <2> QED BY <2>1, <2>2
<1>8. ASSUME NEW i \in Server, NEW j \in DOMAIN accept'[i].queue
      PROVE  (/\ i \in conn[accept[i].queue[j]].open
              /\ \A l \in Server : sock[i][l] # accept[i].queue[j]
              /\ \A h \in DOMAIN accept[i].queue : h # j => accept[i].queue[h] # accept[i].queue[j])'
  <2>1. CASE i # n
    <3>1. accept'[i].queue = accept[i].queue /\ \A l \in Server : sock'[i][l] = sock[i][l]
      BY <1>4, <2>1
    <3>2. /\ i \in conn[accept[i].queue[j]].open
          /\ \A l \in Server : sock[i][l] # accept[i].queue[j]
          /\ \A h \in DOMAIN accept[i].queue : h # j => accept[i].queue[h] # accept[i].queue[j]
      BY <3>1 DEF Inv, Ends
    <3> QED BY <1>3, <3>1, <3>2
  <2>2. CASE i = n
    <3>1. accept'[i].queue = Tail(q)
      BY <1>4, <2>2
    <3>2. /\ j + 1 \in DOMAIN q /\ Tail(q)[j] = q[j + 1] /\ q[j + 1] # q[1]
          /\ \A h \in DOMAIN Tail(q) : h # j => Tail(q)[h] # Tail(q)[j]
      BY <1>1, <1>6, <3>1
    <3> QED BY <1>3, <1>4, <1>6, <2>2, <3>1, <3>2
  <2> QED BY <2>1, <2>2
<1>9. \A j \in Conn : conn'[j].open \subseteq {conn'[j].from, conn'[j].to}
  BY <1>3 DEF Inv, Ends
<1> QED BY <1>7, <1>8, <1>9 DEF Ends

-----------------------------------------------------------------------------
(* Who is off, and who believes in itself.                                 *)
LEMMA TryNextPhase ==
  ASSUME Types, NEW n \in Server, NEW m, TryNext(n, m)
  PROVE  /\ \A i \in Server : i # n => phase'[i] = phase[i] /\ boot'[i] = boot[i]
         /\ phase'[n] \in {"boot", "run"}
  BY DEF Types, TryNext

LEMMA ViewElsewhere ==
  ASSUME view \in [Server -> [Server -> BOOLEAN]], NEW n \in Server, NEW m, NEW b,
         view' = [view EXCEPT ![n][m] = b], NEW i \in Server, NEW l \in Server, ~(i = n /\ l = m)
  PROVE  view'[i][l] = view[i][l]
  OBVIOUS

(* Threads of a server that is not off, or none that are new.              *)
LEMMA AwakeKept ==
  ASSUME Awake, UNCHANGED <<phase, boot>>,
         \A n \in Server : phase[n] # "off" \/ UNCHANGED <<accept[n], rx[n]>>,
         \A n \in Server : view[n][n] => view'[n][n]
  PROVE  Awake'
  BY DEF Awake

LEMMA ConnectKeepsAwake ==
  ASSUME Inv, NEW n \in Server,
         \/ Boot(n) \/ ConnectFails(n) \/ (\E k \in Conn : ConnectToServer(n, k))
  PROVE  Awake' /\ \A i \in Server : Running(i) => Running(i)'
<1>0. Types
  BY DEF Inv, IInv
<1>1. PICK m : TryNext(n, m)
  BY DEF Boot, ConnectFails, ConnectToServer
<1>2. /\ \A i \in Server : i # n => phase'[i] = phase[i] /\ boot'[i] = boot[i]
      /\ phase'[n] \in {"boot", "run"}
  BY <1>0, <1>1, TryNextPhase
<1>3. phase[n] \in {"off", "boot"}
  BY DEF Boot, ConnectFails, ConnectToServer
<1>4. \A i \in Server : Running(i) => Running(i)'
  BY <1>2, <1>3 DEF Running
<1>5. view'[n][n] /\ \A i \in Server : i # n => view'[i] = view[i]
  <2>1. CASE Boot(n)
    BY <1>0, <2>1 DEF Boot, Types
  <2>2. CASE ConnectFails(n)
    BY <2>2 DEF ConnectFails, Inv, Awake
  <2>3. CASE \E k \in Conn : ConnectToServer(n, k)
    <3>1. view' = [view EXCEPT ![n][boot[n]] = TRUE] /\ phase[n] = "boot"
      BY <2>3 DEF ConnectToServer
    <3>2. view[n][n]
      BY <3>1 DEF Inv, Awake
    <3> QED BY <1>0, <3>1, <3>2 DEF Types
  <2> QED BY <2>1, <2>2, <2>3
<1>6. \A i \in Server : i # n => /\ rx'[i] = rx[i] /\ accept'[i].pc = accept[i].pc
  <2>1. CASE UNCHANGED <<rx, accept>>
    BY <2>1
  <2>2. CASE \E k \in Conn : ConnectToServer(n, k)
    BY <1>0, <2>2 DEF ConnectToServer, Types
  <2> QED BY <2>1, <2>2 DEF Boot, ConnectFails
<1>7. Awake'
  BY <1>2, <1>5, <1>6 DEF Inv, Awake
<1> QED BY <1>4, <1>7

LEMMA CrashKeepsAwake ==
  ASSUME Inv, NEW n \in Server, Crash(n) PROVE Awake'
<1>1. /\ \A i \in Server : /\ phase'[i] = IF i = n THEN "off" ELSE phase[i]
                           /\ i # n => /\ boot'[i] = boot[i] /\ view'[i] = view[i]
                                       /\ accept'[i] = accept[i] /\ rx'[i] = rx[i]
      /\ accept'[n].pc = "wait" /\ \A k \in Conn : rx'[n][k] = NoThread
  BY CrashFields DEF Inv, IInv
<1> QED BY <1>1 DEF Inv, Awake, NoThread

LEMMA AcceptKeepsAwake ==
  ASSUME Inv, NEW n \in Server, AcceptInit(n) \/ AcceptSock(n) PROVE Awake'
<1>1. phase[n] # "off"
  BY DEF AcceptInit, AcceptSock, Running, Inv, Awake
<1>2. \A i \in Server : i # n => UNCHANGED <<accept[i], rx[i]>>
  BY DEF AcceptInit, AcceptSock, NewThread, Inv, IInv, Types
<1>3. \A i \in Server : view[i][i] => view'[i][i]
  <2>1. UNCHANGED view \/ \E m : view' = [view EXCEPT ![n][m] = TRUE]
    BY DEF AcceptInit, AcceptSock
  <2>2. view \in [Server -> [Server -> BOOLEAN]]
    BY DEF Inv, IInv, Types
  <2>3. ASSUME NEW m, view' = [view EXCEPT ![n][m] = TRUE], NEW i \in Server, view[i][i]
        PROVE  view'[i][i]
    <3>1. CASE i = n /\ i = m
      BY <2>2, <2>3, <3>1
    <3>2. CASE ~(i = n /\ i = m)
      BY <2>2, <2>3, <3>2, ViewElsewhere
    <3> QED BY <3>1, <3>2
  <2> QED BY <2>1, <2>3
<1>4. UNCHANGED <<phase, boot>>
  BY DEF AcceptInit, AcceptSock
<1> QED BY <1>1, <1>2, <1>3, <1>4, AwakeKept DEF Inv

LEMMA ThreadKeepsAwake ==
  ASSUME Inv, NEW n \in Server, NEW k \in Conn, rx[n][k].pc # "none",
         NEW r, rx' = [rx EXCEPT ![n][k] = r], UNCHANGED <<phase, boot, accept>>,
         UNCHANGED view \/ view' = ViewLost(n, Peer(n, k))
  PROVE  Awake'
<1>1. phase[n] # "off"
  BY DEF Inv, Awake
<1>2. \A i \in Server : i # n => UNCHANGED <<accept[i], rx[i]>>
  BY DEF Inv, IInv, Types
<1>3. Peer(n, k) # n
  BY DEF Inv, IInv, Links, EndOf, Peer
<1>4. \A i \in Server : view[i][i] => view'[i][i]
  <2>1. view \in [Server -> [Server -> BOOLEAN]]
    BY DEF Inv, IInv, Types
  <2>2. ASSUME view' = [view EXCEPT ![n][Peer(n, k)] = FALSE], NEW i \in Server, view[i][i]
        PROVE  view'[i][i]
    <3>1. ~(i = n /\ i = Peer(n, k))
      BY <1>3
    <3> QED BY <2>1, <2>2, <3>1, ViewElsewhere
  <2> QED BY <2>2 DEF ViewLost
<1> QED BY <1>1, <1>2, <1>4, AwakeKept DEF Inv

(* A message that cannot be processed goes to another server.              *)
LEMMA Target ==
  ASSUME Inv, NEW n \in Server, NEW ok, Forward(n, ok)
  PROVE  \E m \in Server \ {n} :
           /\ m = IF msg.group = Any THEN FirstSrv(n) ELSE msg.group
           /\ SendMsgToServer(n, m, ok)
<1>1. msg.group \in Server \cup {Any}
  BY DEF Inv, Carried, Message
<1>2. /\ msg.group # n
      /\ msg.group = Any => FirstSrv(n) # None
      /\ SendMsgToServer(n, IF msg.group = Any THEN FirstSrv(n) ELSE msg.group, ok)
  BY DEF Forward
<1>3. FirstSrv(n) # None => FirstSrv(n) \in Server \ {n}
  BY FirstIsActive
<1> QED BY <1>1, <1>2, <1>3

LEMMA MainThreadKeepsAwake ==
  ASSUME Inv, NEW n \in Server, SendClose(n) \/ (\E ok \in BOOLEAN : Forward(n, ok))
  PROVE  Awake' /\ \A i \in Server : Running(i) => Running(i)'
<1>0. Types
  BY DEF Inv, IInv
<1>1. UNCHANGED <<accept, rx>> /\ phase[n] \in {"run", "close"}
  BY DEF SendClose, Forward, Ready
<1>2. CASE UNCHANGED <<phase, boot, view>>
  BY <1>1, <1>2 DEF Inv, Awake, Running
<1>3. CASE \E m \in Server \ {n} : /\ phase' = [phase EXCEPT ![n] = "close"]
                                  /\ boot' = [boot EXCEPT ![n] = m]
                                  /\ view' = [view EXCEPT ![n][m] = FALSE]
  <2>1. PICK m \in Server \ {n} : /\ phase' = [phase EXCEPT ![n] = "close"]
                                 /\ boot' = [boot EXCEPT ![n] = m]
                                 /\ view' = [view EXCEPT ![n][m] = FALSE]
    BY <1>3
  <2>2. /\ \A i \in Server : i # n => phase'[i] = phase[i] /\ boot'[i] = boot[i]
        /\ phase'[n] = "close" /\ boot'[n] = m
    BY <1>0, <2>1 DEF Types
  <2>3. \A i \in Server : view'[i][i] = view[i][i]
    <3>1. view \in [Server -> [Server -> BOOLEAN]]
      BY <1>0 DEF Types
    <3>2. view' = [view EXCEPT ![n][m] = FALSE]
      BY <2>1
    <3>3. ASSUME NEW i \in Server PROVE view'[i][i] = view[i][i]
      <4>1. ~(i = n /\ i = m)
        OBVIOUS
      <4> QED BY <3>1, <3>2, <4>1, ViewElsewhere
    <3> QED BY <3>3
  <2> QED BY <1>1, <2>2, <2>3 DEF Inv, Awake, Running
<1>4. CASE SendClose(n)
  <2>1. /\ \A i \in Server : i # n => phase'[i] = phase[i] /\ boot'[i] = boot[i]
        /\ phase'[n] = "run" /\ UNCHANGED view
    BY <1>0, <1>4 DEF SendClose, Types
  <2> QED BY <1>1, <2>1 DEF Inv, Awake, Running
<1>5. ASSUME NEW ok \in BOOLEAN, Forward(n, ok) 
      PROVE  \/ UNCHANGED <<phase, boot, view>>
             \/ \E m \in Server \ {n} : /\ phase' = [phase EXCEPT ![n] = "close"]
                                       /\ boot' = [boot EXCEPT ![n] = m]
                                       /\ view' = [view EXCEPT ![n][m] = FALSE]
  <2>1. PICK m \in Server \ {n} : SendMsgToServer(n, m, ok)
    BY <1>5, Target
  <2> QED BY <2>1 DEF SendMsgToServer
<1> QED BY <1>2, <1>3, <1>4, <1>5

-----------------------------------------------------------------------------
(* Where the message is.                                                   *)
LEMMA NoMsgCarried == msg' = NoMsg => Carried' /\ Route'
  BY DEF NoMsg, Carried, Message, Route

LEMMA CarriedKept ==
  ASSUME Inv, UNCHANGED msg, \A k \in Conn : conn[k].open \subseteq conn'[k].open,
         \A n \in Server : Running(n) => Running(n)'
  PROVE  Carried' /\ Route'
<1>1. Carried'
  BY DEF Inv, Carried, Message
<1>2. Route'
  BY DEF Inv, Route
<1> QED BY <1>1, <1>2

(* What was on its way to the end that is closed is lost.                  *)
LEMMA CloseKeepsCarried ==
  ASSUME Inv, NEW n \in Server, NEW m \in Server, Close(n, m),
         \A i \in Server : Running(i) => Running(i)'
  PROVE  Carried' /\ Route'
<1>0. Types
  BY DEF Inv, IInv
<1>1. /\ \A k \in Conn : conn'[k].open = IF k = sock[n][m] THEN conn[k].open \ {n} ELSE conn[k].open
      /\ msg' = IF sock[n][m] # None /\ OnWire(sock[n][m], n) THEN NoMsg ELSE msg
  BY <1>0, CloseFields
<1>2. CASE msg' = NoMsg
  BY <1>2, NoMsgCarried
<1>3. CASE msg' = msg /\ ~(sock[n][m] # None /\ OnWire(sock[n][m], n))
  <2>1. ASSUME msg.at = "wire" PROVE msg.conn \in Conn /\ msg.server \in conn'[msg.conn].open
    <3>1. msg.conn \in Conn /\ msg.server \in conn[msg.conn].open /\ None \notin Conn
      BY <2>1 DEF Inv, Carried, None, Conn
    <3> QED BY <1>1, <1>3, <2>1, <3>1 DEF OnWire
  <2>2. Carried'
    BY <1>3, <2>1 DEF Inv, Carried, Message
  <2>3. Route'
    BY <1>3 DEF Inv, Route
  <2> QED BY <2>2, <2>3
<1> QED BY <1>1, <1>2, <1>3

LEMMA CrashKeepsCarried ==
  ASSUME Inv, NEW n \in Server, Crash(n) PROVE Carried' /\ Route'
<1>1. /\ \A i \in Server : i # n => phase'[i] = phase[i]
      /\ \A k \in Conn : conn'[k].open = conn[k].open \ {n}
      /\ msg' = IF msg.server = n THEN NoMsg ELSE msg
  BY CrashFields DEF Inv, IInv
<1>2. CASE msg' = NoMsg
  BY <1>2, NoMsgCarried
<1>3. CASE msg' = msg /\ msg.server # n
  <2>1. msg.at = "wire" => msg.server \in conn'[msg.conn].open
    BY <1>1, <1>3 DEF Inv, Carried
  <2>2. msg.at = "mailbox" => Running(msg.server)'
    BY <1>1, <1>3 DEF Inv, Carried, Running
  <2>3. Carried'
    BY <1>3, <2>1, <2>2 DEF Inv, Carried, Message
  <2>4. Route'
    BY <1>3 DEF Inv, Route
  <2> QED BY <2>3, <2>4
<1> QED BY <1>1, <1>2, <1>3

(* A whole message reaches the mailbox of a server that dispatches.        *)
LEMMA ReceiveKeepsCarried ==
  ASSUME Inv, NEW n \in Server, NEW k \in Conn, NEW whole, ReceiveMsg(n, k, whole), ~Crash(n)
  PROVE  Carried' /\ Route'
<1>1. /\ msg.at = "wire" /\ msg.server = n
      /\ phase[n] # "boot" /\ phase[n] # "off" /\ UNCHANGED phase
      /\ msg' = IF whole THEN [msg EXCEPT !.at = "mailbox", !.conn = None] ELSE NoMsg
  BY DEF ReceiveMsg, OnWire, Inv, Awake
<1>2. CASE msg' = NoMsg
  BY <1>2, NoMsgCarried
<1>3. CASE msg' = [msg EXCEPT !.at = "mailbox", !.conn = None]
  <2>1. msg \in Message
    BY DEF Inv, Carried
  <2>2. /\ msg'.at = "mailbox" /\ msg'.server = n /\ msg'.group = msg.group /\ msg'.hops = msg.hops
        /\ msg' \in Message
    BY <1>1, <1>3, <2>1 DEF Message
  <2>3. Running(n)'
    BY <1>1 DEF Running, Inv, IInv, Types
  <2>4. Carried'
    BY <2>2, <2>3 DEF Carried
  <2>5. Route'
    BY <1>1, <2>2 DEF Inv, Route
  <2> QED BY <2>4, <2>5
<1> QED BY <1>1, <1>2, <1>3

LEMMA PostKeepsCarried ==
  ASSUME Inv, NEW sent \in Sent, Post(sent) PROVE Carried' /\ Route'
<1>1. sent.from \in Server /\ sent.object \in Nat \cup {Any} /\ sent.group \in Server \cup {Any}
  BY DistributionAssumption
<1>2. /\ Running(sent.from) /\ UNCHANGED phase
      /\ msg' = [at |-> "mailbox", server |-> sent.from, conn |-> None, object |-> sent.object,
                 group |-> sent.group, hops |-> 0]
  BY DEF Post
<1>3. Carried'
  BY <1>1, <1>2 DEF Carried, Message, Running
<1>4. Route'
  BY <1>2 DEF Route
<1> QED BY <1>3, <1>4

(* Every time it is sent on, it is to an earlier place of the list: the    *)
(* sender believes in itself, and in nobody before the one it sends to.    *)
LEMMA ForwardKeepsCarried ==
  ASSUME Inv, NEW n \in Server, NEW ok \in BOOLEAN, Forward(n, ok) PROVE Carried' /\ Route'
<1>1. PICK m \in Server \ {n} : /\ m = IF msg.group = Any THEN FirstSrv(n) ELSE msg.group
                               /\ SendMsgToServer(n, m, ok)
  BY Target
<1>2. msg.at = "mailbox" /\ msg.server = n /\ phase[n] = "run" /\ UNCHANGED conn
  BY DEF Forward, Ready, InMailbox
<1>3. CASE msg' = NoMsg
  BY <1>3, NoMsgCarried
<1>4. CASE /\ sock[n][m] # None /\ m \in conn[sock[n][m]].open
           /\ msg' = [msg EXCEPT !.at = "wire", !.server = m, !.conn = sock[n][m], !.hops = @ + 1]
  <2>1. msg \in Message
    BY DEF Inv, Carried
  <2>2. sock[n][m] \in Conn
    BY <1>4 DEF Inv, IInv, Types
  <2>3. /\ msg'.at = "wire" /\ msg'.server = m /\ msg'.conn = sock[n][m]
        /\ msg'.group = msg.group /\ msg'.hops = msg.hops + 1 /\ msg.hops \in Nat
        /\ msg' \in Message
    <3>1. PICK h \in Nat : h = msg.hops
      BY <2>1 DEF Message
    <3>2. h + 1 \in Nat
      BY <3>1
    <3>3. msg' = [msg EXCEPT !.at = "wire", !.server = m, !.conn = sock[n][m], !.hops = h + 1]
      BY <1>4, <3>1
    <3> QED BY <2>1, <2>2, <3>1, <3>2, <3>3 DEF Message
  <2>4. Carried'
    BY <1>2, <1>4, <2>2, <2>3 DEF Carried
  <2>5. ASSUME msg.group # Any PROVE msg'.hops = 1 /\ msg'.server = msg.group
    <3>1. msg.hops = 0
      BY <1>1, <1>2, <2>3, <2>5 DEF Inv, Route
    <3> QED BY <1>1, <2>3, <2>5, <3>1
  <2>6. ASSUME Len(Entries) = 1, msg.group = Any
        PROVE  \E i \in DOMAIN Entries[1].compId :
                 Entries[1].compId[i] = m /\ msg'.hops + i <= Len(Entries[1].compId) + 1
    <3>1. PICK c \in Seq(Server) : c = Entries[1].compId
      <4>1. 1 \in DOMAIN Entries
        BY <2>6, DistributionAssumption
      <4> QED BY <4>1, ListOfServers
    <3>2. m = Active(n, 1) /\ m # None
      <4>1. m = FirstSrv(n) /\ FirstSrv(n) # None
        BY <1>1, <2>6 DEF None, Server
      <4>2. PICK e \in DOMAIN Entries : FirstSrv(n) = Active(n, e)
        BY <4>1, FirstIsActive
      <4>3. e = 1
        BY <2>6, DistributionAssumption
      <4> QED BY <4>1, <4>2, <4>3
    <3>3. PICK j \in DOMAIN c : m = c[j] /\ \A h \in DOMAIN c : view[n][c[h]] => j <= h
      <4>1. 1 \in DOMAIN Entries
        BY <2>6, DistributionAssumption
      <4> QED BY <3>1, <3>2, <4>1, ActiveIsFirst
    <3>4. view[n][n]
      BY <1>2 DEF Inv, Awake
    <3>5. CASE msg.hops = 0
      <4>1. msg'.hops + j <= Len(c) + 1
        BY <2>3, <3>5
      <4> QED BY <3>1, <3>3, <4>1
    <3>6. CASE msg.hops > 0
      <4>1. PICK i \in DOMAIN c : c[i] = n /\ msg.hops + i <= Len(c) + 1
        BY <1>2, <2>6, <3>1, <3>6 DEF Inv, Route
      <4>2. j <= i /\ j # i
        BY <3>3, <3>4, <4>1
      <4>3. msg'.hops + j <= Len(c) + 1
        BY <2>3, <4>1, <4>2
      <4> QED BY <3>1, <3>3, <4>3
    <3> QED BY <2>3, <3>5, <3>6
  <2>7. Route'
    BY <2>3, <2>5, <2>6 DEF Route
  <2> QED BY <2>4, <2>7
<1> QED BY <1>1, <1>3, <1>4 DEF SendMsgToServer

-----------------------------------------------------------------------------
LEMMA CrashInv == ASSUME Inv, NEW n \in Server, Crash(n) PROVE Ends' /\ Awake' /\ Carried' /\ Route'
  BY CrashKeepsEnds, CrashKeepsAwake, CrashKeepsCarried

LEMMA StartInv ==
  ASSUME Inv, NEW n \in Server, Boot(n) \/ ConnectFails(n) \/ (\E k \in Conn : ConnectToServer(n, k))
  PROVE  Ends' /\ Awake' /\ Carried' /\ Route'
<1>1. Awake' /\ \A i \in Server : Running(i) => Running(i)'
  BY ConnectKeepsAwake
<1>2. UNCHANGED msg
  BY DEF Boot, ConnectFails, ConnectToServer
<1>3. Ends' /\ \A j \in Conn : conn[j].open \subseteq conn'[j].open
  <2>1. CASE UNCHANGED <<sock, conn, accept>>
    BY <2>1, EndsKept
  <2>2. CASE \E k \in Conn : ConnectToServer(n, k)
    BY <2>2, ConnectKeepsEnds
  <2> QED BY <2>1, <2>2 DEF Boot, ConnectFails
<1> QED BY <1>1, <1>2, <1>3, CarriedKept

LEMMA AcceptInv ==
  ASSUME Inv, NEW n \in Server, AcceptInit(n) \/ AcceptSock(n)
  PROVE  Ends' /\ Awake' /\ Carried' /\ Route'
<1>1. Ends'
  <2>1. CASE AcceptInit(n)
    <3>1. UNCHANGED <<sock, conn>> /\ accept' = [accept EXCEPT ![n].pc = "store"]
      BY <2>1 DEF AcceptInit
    <3>2. \A i \in Server : accept'[i].queue = accept[i].queue
      BY <3>1 DEF Inv, IInv, Types
    <3> QED BY <3>1, <3>2, EndsKept
  <2> QED BY <2>1, AcceptSockKeepsEnds
<1>2. Awake'
  BY AcceptKeepsAwake
<1>3. UNCHANGED <<phase, conn, msg>>
  BY DEF AcceptInit, AcceptSock
<1>4. Carried' /\ Route'
  BY <1>3, CarriedKept DEF Running
<1> QED BY <1>1, <1>2, <1>4

LEMMA ReceiveInv ==
  ASSUME Inv, NEW n \in Server, NEW k \in Conn, ReceiveThread(n, k)
  PROVE  Ends' /\ Awake' /\ Carried' /\ Route'
<1>1. CASE Recv(n, k)
  <2>1. /\ rx[n][k].pc # "none"
        /\ rx' = [rx EXCEPT ![n][k] = [pc |-> "recv", on |-> sock[n][Peer(n, k)]]]
        /\ UNCHANGED <<phase, boot, view, sock, accept, conn, msg>>
    BY <1>1 DEF Recv
  <2>2. Awake'
    BY <2>1, ThreadKeepsAwake
  <2> QED BY <2>1, <2>2, EndsKept, CarriedKept DEF Running
<1>2. ASSUME NEW whole \in BOOLEAN, ReceiveMsg(n, k, whole)
      PROVE  Ends' /\ Awake' /\ Carried' /\ Route'
  <2>1. CASE Crash(n)
    BY <2>1, CrashInv
  <2>2. CASE ~Crash(n)
    <3>1. /\ rx[n][k].pc # "none" /\ rx' = [rx EXCEPT ![n][k] = [pc |-> "read", on |-> None]]
          /\ UNCHANGED <<phase, boot, view, sock, accept, conn>>
      BY <1>2, <2>2 DEF ReceiveMsg
    <3>2. Awake'
      BY <3>1, ThreadKeepsAwake
    <3> QED BY <1>2, <2>2, <3>1, <3>2, EndsKept, ReceiveKeepsCarried
  <2> QED BY <2>1, <2>2
<1>3. CASE ReceiveLost(n, k)
  <2>1. /\ rx[n][k].pc # "none" /\ rx' = [rx EXCEPT ![n][k] = [pc |-> "lost", on |-> None]]
        /\ view' = ViewLost(n, Peer(n, k)) /\ UNCHANGED <<phase, boot, sock, accept, conn, msg>>
    BY <1>3 DEF ReceiveLost
  <2>2. Awake'
    BY <2>1, ThreadKeepsAwake
  <2> QED BY <2>1, <2>2, EndsKept, CarriedKept DEF Running
<1>4. CASE ReceiveClose(n, k)
  <2>1. /\ rx[n][k].pc # "none" /\ rx' = [rx EXCEPT ![n][k] = NoThread]
        /\ Close(n, Peer(n, k)) /\ UNCHANGED <<phase, boot, view, accept>>
    BY <1>4 DEF ReceiveClose
  <2>2. Peer(n, k) \in Server
    BY <2>1, PeerIsServer DEF Inv
  <2>3. Awake'
    BY <2>1, ThreadKeepsAwake
  <2>4. Ends'
    BY <2>1, <2>2, CloseKeepsEnds
  <2>5. Carried' /\ Route'
    BY <2>1, <2>2, CloseKeepsCarried DEF Running
  <2> QED BY <2>3, <2>4, <2>5
<1> QED BY <1>1, <1>2, <1>3, <1>4 DEF ReceiveThread

LEMMA MainInv ==
  ASSUME Inv, NEW n \in Server, MainThread(n)
  PROVE  Ends' /\ Awake' /\ Carried' /\ Route'
<1>1. CASE Crash(n)
  BY <1>1, CrashInv
<1>2. CASE msg' = NoMsg /\ UNCHANGED <<phase, boot, view, sock, accept, conn, rx, crashes>>
  <2>1. Awake'
    BY <1>2 DEF Inv, Awake
  <2> QED BY <1>2, <2>1, EndsKept, NoMsgCarried
<1>3. CASE SendClose(n)
  <2>1. Close(n, boot[n]) /\ boot[n] \in Server /\ UNCHANGED accept
    BY <1>3 DEF SendClose, Inv, Awake
  <2> QED BY <1>3, <2>1, MainThreadKeepsAwake, CloseKeepsEnds, CloseKeepsCarried
<1>4. ASSUME NEW ok \in BOOLEAN, Forward(n, ok)
      PROVE  Ends' /\ Awake' /\ Carried' /\ Route'
  <2>1. UNCHANGED <<sock, conn, accept>>
    BY <1>4 DEF Forward
  <2>2. Ends'
    BY <2>1, EndsKept
  <2> QED BY <1>4, <2>2, MainThreadKeepsAwake, ForwardKeepsCarried
<1> QED BY <1>1, <1>2, <1>3, <1>4 DEF MainThread, ProcessMsg, DiscardMsg

LEMMA PostInv ==
  ASSUME Inv, NEW sent \in Sent, Post(sent) PROVE Ends' /\ Awake' /\ Carried' /\ Route'
<1>1. UNCHANGED <<phase, boot, view, sock, accept, conn, rx>>
  BY DEF Post
<1>2. Awake'
  BY <1>1 DEF Inv, Awake
<1> QED BY <1>1, <1>2, EndsKept, PostKeepsCarried

LEMMA NextInv == ASSUME Inv, [Next]_vars PROVE Inv'
<1>0. IInv'
  BY NextIInv, StutterIInv DEF Inv
<1>1. CASE UNCHANGED vars
  <2>1. Awake'
    BY <1>1 DEF Inv, Awake, vars
  <2>2. Ends' /\ Carried' /\ Route'
    BY <1>1, EndsKept, CarriedKept DEF vars, Running
  <2> QED BY <1>0, <2>1, <2>2 DEF Inv
<1>2. CASE Next
  <2>1. ASSUME NEW n \in Server, Boot(n) \/ ConnectFails(n) \/ Fail(n) PROVE Ends' /\ Awake' /\ Carried' /\ Route'
    BY <2>1, StartInv, CrashInv DEF Fail
  <2>2. ASSUME NEW n \in Server, NEW k \in Conn, ConnectToServer(n, k) PROVE Ends' /\ Awake' /\ Carried' /\ Route'
    BY <2>2, StartInv
  <2>3. ASSUME NEW n \in Server, AcceptInit(n) \/ AcceptSock(n) PROVE Ends' /\ Awake' /\ Carried' /\ Route'
    BY <2>3, AcceptInv
  <2>4. ASSUME NEW n \in Server, NEW k \in Conn, ReceiveThread(n, k) PROVE Ends' /\ Awake' /\ Carried' /\ Route'
    BY <2>4, ReceiveInv
  <2>5. ASSUME NEW n \in Server, MainThread(n) PROVE Ends' /\ Awake' /\ Carried' /\ Route'
    BY <2>5, MainInv
  <2>6. ASSUME NEW sent \in Sent, Post(sent) PROVE Ends' /\ Awake' /\ Carried' /\ Route'
    BY <2>6, PostInv
  <2>7. Ends' /\ Awake' /\ Carried' /\ Route'
    BY <1>2, <2>1, <2>2, <2>3, <2>4, <2>5, <2>6 DEF Next
  <2> QED BY <1>0, <2>7 DEF Inv
<1> QED BY <1>1, <1>2

LEMMA Invariance == Spec => []Inv
<1>1. Inv /\ [Next]_vars => Inv'
  BY NextInv
<1> QED BY InitInv, <1>1, PTL DEF Spec

(* Sockets are open ends of connections with the server they are kept for, *)
(* threads belong to connections of their server, and the message is on an *)
(* open connection or with a server that dispatches (Distribution.cpp).    *)
THEOREM TypeCorrect == Spec => []TypeOK
<1>1. Inv => TypeOK
  <2> SUFFICES ASSUME Inv PROVE TypeOK
    OBVIOUS
  <2>1. /\ phase \in [Server -> {"off", "boot", "run", "close"}]
        /\ view \in [Server -> [Server -> BOOLEAN]]
        /\ \A n \in Server : phase[n] \in {"boot", "close"} => boot[n] \in Server
    BY DEF Inv, IInv, Types, Awake
  <2>2. \A n, m \in Server : sock[n][m] # None =>
          n \in conn[sock[n][m]].open /\ {conn[sock[n][m]].from, conn[sock[n][m]].to} = {n, m}
    BY DEF Inv, Ends, EndOf, Peer
  <2>3. \A k \in Conn : conn[k].open \subseteq {conn[k].from, conn[k].to}
    BY DEF Inv, Ends
  <2>4. ASSUME NEW n \in Server, NEW k \in Conn, rx[n][k].pc # "none"
        PROVE  n \in {conn[k].from, conn[k].to} /\ rx[n][k].on \in Conn \cup {None}
    <3>1. rx[n][k] \in Thread
      BY DEF Inv, IInv, Types
    <3>2. EndOf(n, k)
      BY <2>4 DEF Inv, IInv, Links
    <3> QED BY <3>1, <3>2 DEF Thread, EndOf
  <2>5. /\ msg.at = "wire" => msg.server \in conn[msg.conn].open
        /\ msg.at = "mailbox" => Running(msg.server)
    BY DEF Inv, Carried
  <2> QED BY <2>1, <2>2, <2>3, <2>4, <2>5 DEF TypeOK
<1> QED BY Invariance, <1>1, PTL

(* With one list of servers a message for any of them is sent at most once *)
(* to each, and one for a server of its number once, whatever the servers  *)
(* believe of each other (GetActivSrv, SendMsgToFirstSrv, IsSupported).    *)
THEOREM NeverInCircles == Spec => []NoCircles
<1>1. Inv => NoCircles
  <2> SUFFICES ASSUME Inv, Len(Entries) = 1, msg.hops > 1
               PROVE  msg.hops <= Len(Entries[1].compId)
    BY DEF NoCircles
  <2>1. msg.hops \in Nat
    BY DEF Inv, Carried, Message
  <2>2. PICK c \in Seq(Server) : c = Entries[1].compId
    <3>1. 1 \in DOMAIN Entries
      BY DistributionAssumption
    <3> QED BY <3>1, ListOfServers
  <2>3. PICK i \in DOMAIN c : msg.hops + i <= Len(c) + 1
    BY <2>1, <2>2 DEF Inv, Route
  <2>4. i \in Nat /\ i >= 1 /\ Len(c) \in Nat
    OBVIOUS
  <2> QED BY <2>1, <2>2, <2>3, <2>4
<1> QED BY Invariance, <1>1, PTL
=============================================================================
