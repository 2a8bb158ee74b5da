---------------------------- MODULE NetServerProofs ----------------------------
(***************************************************************************)
(* Proofs about the TCP server and the list of free automates, for any     *)
(* number of automates, connections and messages.                          *)
(***************************************************************************)
EXTENDS NetServer, FiniteSetTheorems, SequenceTheorems, TLAPS

-----------------------------------------------------------------------------
(* The inductive invariant.                                                *)

Place == 0 .. Connections
Pointer == Automate \cup {Null}

ServerPc == {"none", "accept", "get", "unlink", "clear", "tail", "load", "store",
             "start", "client", "ended"}
SystemPc == {"idle", "test", "link", "tail", "load", "store"}

ListType == [head : Pointer, tail : Pointer, count : Nat, next : [Automate -> Pointer]]
ServerType == [pc : ServerPc, conn : Place, fsm : Pointer, count : Nat]
SystemType == [pc : SystemPc, fsm : Pointer, tail : Pointer, count : Nat]
FsmType == [client : Place, receivingSide : Place, inbox : Nat, call : Place]
ConnType == [peer : {"none", "open", "closed"}, sock : {"none", "open", "closed"}, wire : Nat,
             netFSM : Pointer, thread : {"none", "recv", "convert"}, killed : BOOLEAN, stale : Nat]

Types ==
  /\ list \in ListType /\ server \in ServerType /\ system \in SystemType
  /\ fsm \in [Automate -> FsmType] /\ conn \in [Conn -> ConnType]
  /\ backlog \in Seq(Conn) /\ sent \in Nat
  /\ init \in {"none", "failed", "created", "ready", "closed"}
  /\ down \in BOOLEAN /\ overlapped \in BOOLEAN

(* What the threads' places say of their registers.                        *)
Places ==
  /\ GetRuns \/ server.pc \in {"start", "client"} => server.fsm \in Automate
  /\ server.pc \notin {"none", "accept", "ended"} =>
       server.conn \in Conn /\ conn[server.conn].sock # "none"
  /\ server.pc = "store" => server.count # 0
  /\ system.pc # "idle" => system.fsm \in Automate
  /\ \A c \in Conn : /\ conn[c].wire <= sent
                     /\ conn[c].thread # "none" => conn[c].netFSM \in Automate

(* The server thread runs from InitTCPServer on.                           *)
Started == init = "none" => server.pc = "none"

(* Nothing in the list leads to an automate that has a call, that Get has  *)
(* unlinked or that Add has not linked yet; and to any other there is one  *)
(* pointer at most, but for the moment between Get's first two writes.     *)
Taken(a) ==
  \/ fsm[a].call # None
  \/ server.pc \in {"clear", "tail", "load", "store"} /\ server.fsm = a
  \/ system.pc \in {"test", "link"} /\ system.fsm = a

Pointers ==
  /\ \A a \in Automate : Taken(a) =>
       list.head # a /\ \A x \in Automate : list.next[x] # a
  /\ \A x, y \in Automate : list.next[x] = list.next[y] /\ list.next[x] # Null => x = y
  /\ \A x \in Automate : list.next[x] = list.head /\ list.head # Null =>
       server.pc = "clear" /\ server.fsm = x
  /\ server.pc = "unlink" => \A x \in Automate : list.next[x] # server.fsm
  /\ GetRuns => fsm[server.fsm].call = None
  /\ system.pc \in {"test", "link"} =>
       /\ fsm[system.fsm].call = None
       /\ GetRuns => system.fsm # server.fsm

(* A connection's socket is opened once and its receive thread reads       *)
(* nothing more once it is closed.                                         *)
Closing(r) ==
  /\ r.killed => r.sock = "closed"
  /\ r.stale = 0 \/ (r.stale = 1 /\ r.killed /\ r.thread # "convert")
  /\ r.peer = "none" => r.sock = "none"
  /\ r.thread # "none" => r.sock # "none"
Queued(r) == r.sock = "none" /\ r.peer # "none"

Sockets ==
  /\ \A c \in Conn : Closing(conn[c])
  /\ \A k \in 1 .. Len(backlog) : Queued(conn[backlog[k]])
  /\ \A j, k \in 1 .. Len(backlog) : backlog[j] = backlog[k] => j = k

(* Who answers to whom.                                                    *)
Handed(a) == server.pc \in {"start", "client", "ended"} /\ server.fsm = a
Calls ==
  /\ server.pc \in {"start", "client"} => fsm[server.fsm].call \in {None, server.conn}
  /\ \A a \in Automate : fsm[a].call # None /\ ~Handed(a) => fsm[a].client = fsm[a].call

(* The list as a sequence, between the writes of Get and of Add.           *)
Free == {a \in Automate : fsm[a].call = None}
Last(q) == IF q = <<>> THEN Null ELSE q[Len(q)]
Distinct(q) == \A j, k \in 1 .. Len(q) : q[j] = q[k] => j = k
Linked(q) ==
  /\ list.head = IF q = <<>> THEN Null ELSE q[1]
  /\ \A k \in 1 .. Len(q) : list.next[q[k]] = IF k = Len(q) THEN Null ELSE q[k + 1]
Elements(q, S) == Distinct(q) /\ \A a \in Automate : a \in S <=> \E k \in 1 .. Len(q) : q[k] = a

Between(q) ==
  /\ Elements(q, Free) /\ list.tail = Last(q) /\ list.count = Len(q)
  /\ server.pc = "unlink" => q # <<>> /\ server.fsm = q[1]
InGet(q) ==
  /\ server.fsm \in Free /\ Elements(q, Free \ {server.fsm}) /\ list.count = Len(q) + 1
  /\ server.pc = "clear" => list.next[server.fsm] = list.head
  /\ list.tail = IF q = <<>> /\ server.pc \in {"clear", "tail"} THEN server.fsm ELSE Last(q)
  /\ server.pc = "store" => server.count = list.count
InAdd(q) ==
  /\ system.fsm \in Free /\ Elements(q, Free \ {system.fsm})
  /\ list.next[system.fsm] = Null /\ list.tail = Last(q) /\ list.count = Len(q)
  /\ system.pc = "link" => system.tail = list.tail
Appended(q) ==
  /\ Elements(q, Free) /\ list.count = Len(q) - 1
  /\ q # <<>> /\ Last(q) = system.fsm
  /\ system.pc # "tail" => list.tail = system.fsm
  /\ system.pc = "store" => system.count = list.count

ListIs(q) ==
  /\ Linked(q)
  /\ system.pc \in {"test", "link"} => InAdd(q)
  /\ system.pc \in {"tail", "load", "store"} => Appended(q)
  /\ system.pc = "idle" =>
       IF server.pc \in {"clear", "tail", "load", "store"} THEN InGet(q) ELSE Between(q)

Known == ~overlapped /\ ~down /\ ~(GetRuns /\ AddRuns)
FreeList == Known => \E q \in Seq(Automate) : ListIs(q)

IInv == Types /\ Places /\ Started /\ Pointers /\ Sockets /\ Calls /\ FreeList

-----------------------------------------------------------------------------
(* What the writes to the shared records do, field by field.               *)

LEMMA WriteHead ==
  ASSUME Types, NEW p \in Pointer, list' = [list EXCEPT !.head = p]
  PROVE  /\ list' \in ListType /\ list'.head = p /\ list'.tail = list.tail
         /\ list'.count = list.count /\ list'.next = list.next
  BY DEF Types, ListType

LEMMA WriteTail ==
  ASSUME Types, NEW p \in Pointer, list' = [list EXCEPT !.tail = p]
  PROVE  /\ list' \in ListType /\ list'.head = list.head /\ list'.tail = p
         /\ list'.count = list.count /\ list'.next = list.next
  BY DEF Types, ListType

LEMMA WriteCount ==
  ASSUME Types, NEW n \in Nat, list' = [list EXCEPT !.count = n]
  PROVE  /\ list' \in ListType /\ list'.head = list.head /\ list'.tail = list.tail
         /\ list'.count = n /\ list'.next = list.next
  BY DEF Types, ListType

LEMMA WriteNext ==
  ASSUME Types, NEW a \in Automate, NEW p \in Pointer, list' = [list EXCEPT !.next[a] = p]
  PROVE  /\ list' \in ListType /\ list'.head = list.head /\ list'.tail = list.tail
         /\ list'.count = list.count
         /\ \A x \in Automate : list'.next[x] = IF x = a THEN p ELSE list.next[x]
<1>1. list.next \in [Automate -> Pointer] /\ list \in ListType
  BY DEF Types, ListType
<1>2. PICK f : f = [list.next EXCEPT ![a] = p]
  OBVIOUS
<1>3. f \in [Automate -> Pointer] /\ \A x \in Automate : f[x] = IF x = a THEN p ELSE list.next[x]
  BY <1>1, <1>2
<1>4. list' = [list EXCEPT !.next = f]
  BY <1>2
<1> QED BY <1>1, <1>3, <1>4 DEF ListType

LEMMA GotoFields ==
  ASSUME Types, NEW p \in ServerPc, Goto(p)
  PROVE  /\ server' \in ServerType /\ server'.pc = p /\ server'.conn = server.conn
         /\ server'.fsm = server.fsm /\ server'.count = server.count
  BY DEF Types, ServerType, Goto

LEMMA WriteConn ==
  ASSUME Types, NEW c \in Conn, NEW r \in ConnType, conn' = [conn EXCEPT ![c] = r]
  PROVE  /\ conn' \in [Conn -> ConnType]
         /\ \A d \in Conn : conn'[d] = IF d = c THEN r ELSE conn[d]
  BY DEF Types

LEMMA WriteFsm ==
  ASSUME Types, NEW a \in Automate, NEW r \in FsmType, fsm' = [fsm EXCEPT ![a] = r]
  PROVE  /\ fsm' \in [Automate -> FsmType]
         /\ \A b \in Automate : fsm'[b] = IF b = a THEN r ELSE fsm[b]
  BY DEF Types

(* The connections, action by action.                                      *)
LEMMA ConnectFields ==
  ASSUME Types, NEW c \in Conn, Connect(c)
  PROVE  /\ conn' \in [Conn -> ConnType] /\ backlog' \in Seq(Conn) /\ backlog' = Append(backlog, c)
         /\ \A d \in Conn : conn'[d] = IF d = c THEN [conn[c] EXCEPT !.peer = "open"] ELSE conn[d]
<1> DEFINE r == [conn[c] EXCEPT !.peer = "open"]
<1>1. conn[c] \in ConnType /\ conn' = [conn EXCEPT ![c] = r] /\ backlog' = Append(backlog, c)
  BY DEF Types, Connect
<1>2. r \in ConnType
  BY <1>1 DEF ConnType
<1>3. backlog' \in Seq(Conn)
  BY <1>1 DEF Types
<1> HIDE DEF r
<1>4. conn' \in [Conn -> ConnType] /\ \A d \in Conn : conn'[d] = IF d = c THEN r ELSE conn[d]
  BY <1>1, <1>2, WriteConn
<1> QED BY <1>1, <1>3, <1>4 DEF r

LEMMA PeerSendsFields ==
  ASSUME Types, NEW c \in Conn, PeerSends(c)
  PROVE  /\ conn' \in [Conn -> ConnType]
         /\ \A d \in Conn : conn'[d] = IF d = c THEN [conn[c] EXCEPT !.wire = conn[c].wire + 1]
                                       ELSE conn[d]
<1> DEFINE r == [conn[c] EXCEPT !.wire = conn[c].wire + 1]
<1>1. conn[c] \in ConnType /\ conn' = [conn EXCEPT ![c] = r]
  BY DEF Types, PeerSends
<1>2. conn[c].wire + 1 \in Nat
  BY <1>1 DEF ConnType
<1>3. r \in ConnType
  BY <1>1, <1>2 DEF ConnType
<1> HIDE DEF r
<1>4. conn' \in [Conn -> ConnType] /\ \A d \in Conn : conn'[d] = IF d = c THEN r ELSE conn[d]
  BY <1>1, <1>3, WriteConn
<1> QED BY <1>4 DEF r

LEMMA PeerClosesFields ==
  ASSUME Types, NEW c \in Conn, PeerCloses(c)
  PROVE  /\ conn' \in [Conn -> ConnType]
         /\ \A d \in Conn : conn'[d] = IF d = c THEN [conn[c] EXCEPT !.peer = "closed"] ELSE conn[d]
<1> DEFINE r == [conn[c] EXCEPT !.peer = "closed"]
<1>1. conn[c] \in ConnType /\ conn' = [conn EXCEPT ![c] = r]
  BY DEF Types, PeerCloses
<1>2. r \in ConnType
  BY <1>1 DEF ConnType
<1> HIDE DEF r
<1>3. conn' \in [Conn -> ConnType] /\ \A d \in Conn : conn'[d] = IF d = c THEN r ELSE conn[d]
  BY <1>1, <1>2, WriteConn
<1> QED BY <1>3 DEF r

LEMMA DeinitFields ==
  ASSUME Types, DeinitTCPServer
  PROVE  /\ conn' \in [Conn -> ConnType] /\ backlog' = <<>>
         /\ \A d \in Conn : conn'[d] = conn[d] \/ conn'[d] = [conn[d] EXCEPT !.peer = "closed"]
<1>1. /\ conn' = [c \in Conn |-> IF c \in Range(backlog) THEN [conn[c] EXCEPT !.peer = "closed"]
                                 ELSE conn[c]]
      /\ backlog' = <<>>
  BY DEF DeinitTCPServer
<1>2. ASSUME NEW c \in Conn PROVE conn[c] \in ConnType /\ [conn[c] EXCEPT !.peer = "closed"] \in ConnType
  <2>1. conn[c] \in ConnType
    BY DEF Types
  <2> QED BY <2>1 DEF ConnType
<1> QED BY <1>1, <1>2

(* An accepted connection is the first of the backlog.                     *)
LEMMA AcceptFields ==
  ASSUME Types, Accept, init # "closed"
  PROVE  \E c \in Conn :
           /\ backlog # <<>> /\ c = Head(backlog) /\ c = backlog[1]
           /\ backlog' = Tail(backlog) /\ backlog' \in Seq(Conn)
           /\ conn' \in [Conn -> ConnType]
           /\ \A d \in Conn : conn'[d] = IF d = c THEN [conn[c] EXCEPT !.sock = "open"] ELSE conn[d]
           /\ server' \in ServerType /\ server'.pc = "get" /\ server'.conn = c
           /\ server'.fsm = server.fsm /\ server'.count = server.count
<1>1. /\ backlog # <<>> /\ backlog' = Tail(backlog)
      /\ server' = [server EXCEPT !.pc = "get", !.conn = Head(backlog)]
      /\ conn' = [conn EXCEPT ![Head(backlog)].sock = "open"]
  BY DEF Accept
<1>2. PICK c \in Conn : c = Head(backlog) /\ c = backlog[1]
  BY <1>1 DEF Types
<1>3. backlog' \in Seq(Conn)
  BY <1>1 DEF Types
<1> DEFINE r == [conn[c] EXCEPT !.sock = "open"]
<1>4. conn[c] \in ConnType /\ conn' = [conn EXCEPT ![c] = r]
  BY <1>1, <1>2 DEF Types
<1>5. r \in ConnType
  BY <1>4 DEF ConnType
<1> HIDE DEF r
<1>6. conn' \in [Conn -> ConnType] /\ \A d \in Conn : conn'[d] = IF d = c THEN r ELSE conn[d]
  BY <1>4, <1>5, WriteConn
<1>7. c \in Place
  BY NetServerAssumption DEF Conn, Place
<1>8. /\ server' \in ServerType /\ server'.pc = "get" /\ server'.conn = c
      /\ server'.fsm = server.fsm /\ server'.count = server.count
  <2>1. server' = [server EXCEPT !.pc = "get", !.conn = c] /\ server \in ServerType
    BY <1>1, <1>2 DEF Types
  <2> QED BY <1>7, <2>1 DEF ServerType, ServerPc
<1> QED BY <1>1, <1>2, <1>3, <1>6, <1>8 DEF r

LEMMA ReceiveFields ==
  ASSUME Types, NEW c \in Conn, Receive(c)
  PROVE  /\ conn' \in [Conn -> ConnType]
         /\ \A d \in Conn : conn'[d] =
              IF d = c THEN [conn[c] EXCEPT !.wire = conn[c].wire - 1, !.thread = "convert"] ELSE conn[d]
<1> DEFINE r == [conn[c] EXCEPT !.wire = conn[c].wire - 1, !.thread = "convert"]
<1>1. conn[c] \in ConnType /\ conn' = [conn EXCEPT ![c] = r]
  BY DEF Types, Receive
<1>2. conn[c].wire - 1 \in Nat
  BY <1>1 DEF ConnType, Receive
<1>3. r \in ConnType
  BY <1>1, <1>2 DEF ConnType
<1> HIDE DEF r
<1>4. conn' \in [Conn -> ConnType] /\ \A d \in Conn : conn'[d] = IF d = c THEN r ELSE conn[d]
  BY <1>1, <1>3, WriteConn
<1> QED BY <1>4 DEF r

LEMMA ConvertFields ==
  ASSUME Types, Places, NEW c \in Conn, Convert(c)
  PROVE  /\ conn' \in [Conn -> ConnType]
         /\ \A d \in Conn : conn'[d] =
              IF d = c THEN [conn[c] EXCEPT !.thread = "recv", !.stale =
                               IF conn[c].killed THEN conn[c].stale + 1 ELSE conn[c].stale]
              ELSE conn[d]
         /\ fsm' \in [Automate -> FsmType]
         /\ \A a \in Automate : /\ fsm'[a].call = fsm[a].call /\ fsm'[a].client = fsm[a].client
                                /\ fsm'[a].receivingSide = fsm[a].receivingSide
<1> DEFINE s == IF conn[c].killed THEN conn[c].stale + 1 ELSE conn[c].stale
           r == [conn[c] EXCEPT !.thread = "recv", !.stale = s]
           a == conn[c].netFSM
           u == [fsm[a] EXCEPT !.inbox = fsm[a].inbox + 1]
<1>1. conn[c] \in ConnType /\ conn' = [conn EXCEPT ![c] = r]
  BY DEF Types, Convert
<1>2. s \in Nat
  BY <1>1 DEF ConnType
<1>3. a \in Automate /\ fsm[a] \in FsmType
  BY DEF Places, Convert, Types
<1>4. fsm' = [fsm EXCEPT ![a] = u]
  BY DEF Convert
<1> HIDE DEF s, a
<1>5. r \in ConnType
  BY <1>1, <1>2 DEF ConnType
<1>6. /\ u \in FsmType /\ u.call = fsm[a].call /\ u.client = fsm[a].client
      /\ u.receivingSide = fsm[a].receivingSide
  BY <1>3 DEF FsmType
<1> HIDE DEF r, u
<1>7. conn' \in [Conn -> ConnType] /\ \A d \in Conn : conn'[d] = IF d = c THEN r ELSE conn[d]
  BY <1>1, <1>5, WriteConn
<1>8. fsm' \in [Automate -> FsmType] /\ \A b \in Automate : fsm'[b] = IF b = a THEN u ELSE fsm[b]
  BY <1>3, <1>4, <1>6, WriteFsm
<1>9. \A b \in Automate : /\ fsm'[b].call = fsm[b].call /\ fsm'[b].client = fsm[b].client
                          /\ fsm'[b].receivingSide = fsm[b].receivingSide
  BY <1>6, <1>8
<1> QED BY <1>7, <1>8, <1>9 DEF r, s

LEMMA ReceiveEndFields ==
  ASSUME Types, NEW c \in Conn, ReceiveEnd(c)
  PROVE  /\ conn' \in [Conn -> ConnType]
         /\ \A d \in Conn : conn'[d] = IF d = c THEN [conn[c] EXCEPT !.sock = "closed"] ELSE conn[d]
<1> DEFINE r == [conn[c] EXCEPT !.sock = "closed"]
<1>1. conn[c] \in ConnType /\ conn' = [conn EXCEPT ![c] = r]
  BY DEF Types, ReceiveEnd
<1>2. r \in ConnType
  BY <1>1 DEF ConnType
<1> HIDE DEF r
<1>3. conn' \in [Conn -> ConnType] /\ \A d \in Conn : conn'[d] = IF d = c THEN r ELSE conn[d]
  BY <1>1, <1>2, WriteConn
<1> QED BY <1>3 DEF r

LEMMA AcceptConnectionFields ==
  ASSUME Types, Places, NEW created \in BOOLEAN, AcceptConnection(created)
  PROVE  /\ server.fsm \in Automate /\ server.conn \in Conn
         /\ conn' \in [Conn -> ConnType]
         /\ \A d \in Conn : conn'[d] =
              IF d # server.conn THEN conn[d]
              ELSE IF created THEN [conn[d] EXCEPT !.netFSM = server.fsm, !.thread = "recv"]
              ELSE [conn[d] EXCEPT !.sock = "closed", !.wire = 0]
         /\ fsm' \in [Automate -> FsmType]
         /\ \A a \in Automate : fsm'[a].call = fsm[a].call /\ fsm'[a].client = fsm[a].client
<1> DEFINE a == server.fsm
           c == server.conn
           r1 == [conn[c] EXCEPT !.netFSM = a, !.thread = "recv"]
           r2 == [conn[c] EXCEPT !.sock = "closed", !.wire = 0]
           u == [fsm[a] EXCEPT !.receivingSide = c]
<1>1. a \in Automate /\ c \in Conn
  BY DEF Places, AcceptConnection
<1>2. conn[c] \in ConnType /\ fsm[a] \in FsmType
  BY <1>1 DEF Types
<1>3. /\ fsm' = [fsm EXCEPT ![a] = u]
      /\ created => conn' = [conn EXCEPT ![c] = r1]
      /\ ~created => conn' = [conn EXCEPT ![c] = r2]
  BY <1>1 DEF AcceptConnection, Types
<1> HIDE DEF a, c
<1>4. c \in Place
  BY <1>1, NetServerAssumption DEF Conn, Place
<1>5. r1 \in ConnType /\ r2 \in ConnType
  BY <1>1, <1>2 DEF ConnType, Pointer
<1>6. u \in FsmType /\ u.call = fsm[a].call /\ u.client = fsm[a].client
  BY <1>2, <1>4 DEF FsmType
<1> HIDE DEF r1, r2, u
<1>7. /\ conn' \in [Conn -> ConnType]
      /\ created => \A d \in Conn : conn'[d] = IF d = c THEN r1 ELSE conn[d]
      /\ ~created => \A d \in Conn : conn'[d] = IF d = c THEN r2 ELSE conn[d]
  BY <1>1, <1>3, <1>5, WriteConn
<1>8. fsm' \in [Automate -> FsmType] /\ \A b \in Automate : fsm'[b] = IF b = a THEN u ELSE fsm[b]
  BY <1>1, <1>3, <1>6, WriteFsm
<1>9. \A b \in Automate : fsm'[b].call = fsm[b].call /\ fsm'[b].client = fsm[b].client
  BY <1>6, <1>8
<1> QED BY <1>1, <1>7, <1>8, <1>9 DEF r1, r2, a, c

LEMMA StoreClientFields ==
  ASSUME Types, Places, StoreClient
  PROVE  /\ server.fsm \in Automate /\ server.conn \in Conn
         /\ fsm' \in [Automate -> FsmType]
         /\ \A a \in Automate :
              /\ fsm'[a].call = fsm[a].call
              /\ fsm'[a].client = IF a = server.fsm THEN server.conn ELSE fsm[a].client
         /\ server' \in ServerType /\ server'.pc = "accept"
<1> DEFINE f == server.fsm
           u == [fsm[f] EXCEPT !.client = server.conn]
<1>1. f \in Automate /\ server.conn \in Conn
  BY DEF Places, StoreClient
<1>2. fsm[f] \in FsmType /\ server.conn \in Place
  BY <1>1 DEF Types, ServerType
<1>3. fsm' = [fsm EXCEPT ![f] = u]
  BY DEF StoreClient, NewClient
<1>4. server' = Waiting /\ None \in Place
  BY NetServerAssumption DEF StoreClient, None, Place
<1>5. server' \in ServerType /\ server'.pc = "accept"
  BY <1>4 DEF Waiting, ServerType, ServerPc, Pointer
<1> HIDE DEF f
<1>6. u \in FsmType /\ u.call = fsm[f].call /\ u.client = server.conn
  BY <1>2 DEF FsmType
<1> HIDE DEF u
<1>7. fsm' \in [Automate -> FsmType] /\ \A b \in Automate : fsm'[b] = IF b = f THEN u ELSE fsm[b]
  BY <1>1, <1>3, <1>6, WriteFsm
<1>8. \A b \in Automate : /\ fsm'[b].call = fsm[b].call
                          /\ fsm'[b].client = IF b = f THEN server.conn ELSE fsm[b].client
  BY <1>6, <1>7
<1> QED BY <1>1, <1>5, <1>7, <1>8 DEF f

LEMMA GetStoreFields ==
  ASSUME Types, Places, GetStore
  PROVE  /\ server.fsm \in Automate /\ server.conn \in Conn
         /\ list' \in ListType /\ list'.head = list.head /\ list'.tail = list.tail
         /\ list'.next = list.next /\ list'.count = server.count - 1
         /\ fsm' \in [Automate -> FsmType]
         /\ \A a \in Automate :
              /\ fsm'[a].call = IF a = server.fsm THEN server.conn ELSE fsm[a].call
              /\ fsm'[a].client = fsm[a].client
         /\ server' \in ServerType /\ server'.pc = "start" /\ server'.conn = server.conn
         /\ server'.fsm = server.fsm
<1> DEFINE f == server.fsm
           u == [fsm[f] EXCEPT !.call = server.conn]
<1>1. f \in Automate /\ server.conn \in Conn /\ server.count # 0
  BY DEF Places, GetStore, GetRuns
<1>2. fsm[f] \in FsmType /\ server.conn \in Place /\ server.count - 1 \in Nat
  BY <1>1 DEF Types, ServerType
<1>3. fsm' = [fsm EXCEPT ![f] = u] /\ list' = [list EXCEPT !.count = server.count - 1]
  BY DEF GetStore
<1>4. server' = [server EXCEPT !.pc = "start", !.count = 0] /\ server \in ServerType
  BY DEF GetStore, Types
<1>5. /\ server' \in ServerType /\ server'.pc = "start" /\ server'.conn = server.conn
      /\ server'.fsm = server.fsm
  BY <1>4 DEF ServerType, ServerPc
<1>6. /\ list' \in ListType /\ list'.head = list.head /\ list'.tail = list.tail
      /\ list'.next = list.next /\ list'.count = server.count - 1
  BY <1>2, <1>3, WriteCount
<1> HIDE DEF f
<1>7. u \in FsmType /\ u.call = server.conn /\ u.client = fsm[f].client
  BY <1>2 DEF FsmType
<1> HIDE DEF u
<1>8. fsm' \in [Automate -> FsmType] /\ \A b \in Automate : fsm'[b] = IF b = f THEN u ELSE fsm[b]
  BY <1>1, <1>3, <1>7, WriteFsm
<1>9. \A b \in Automate : /\ fsm'[b].call = IF b = f THEN server.conn ELSE fsm[b].call
                          /\ fsm'[b].client = fsm[b].client
  BY <1>7, <1>8
<1> QED BY <1>1, <1>5, <1>6, <1>8, <1>9 DEF f

LEMMA ProcessFields ==
  ASSUME Types, NEW a \in Automate, NEW answers \in BOOLEAN, Process(a, answers)
  PROVE  /\ fsm' \in [Automate -> FsmType]
         /\ \A b \in Automate : fsm'[b].call = fsm[b].call /\ fsm'[b].client = fsm[b].client
<1> DEFINE u == [fsm[a] EXCEPT !.inbox = fsm[a].inbox - 1]
<1>1. fsm[a] \in FsmType /\ fsm' = [fsm EXCEPT ![a] = u]
  BY DEF Types, Process
<1>2. fsm[a].inbox - 1 \in Nat
  BY <1>1 DEF FsmType, Process
<1>3. u \in FsmType /\ u.call = fsm[a].call /\ u.client = fsm[a].client
  BY <1>1, <1>2 DEF FsmType
<1> HIDE DEF u
<1>4. fsm' \in [Automate -> FsmType] /\ \A b \in Automate : fsm'[b] = IF b = a THEN u ELSE fsm[b]
  BY <1>1, <1>3, WriteFsm
<1> QED BY <1>3, <1>4

LEMMA EndCallFields ==
  ASSUME Types, NEW a \in Automate, EndCall(a)
  PROVE  /\ fsm[a].call \in Conn
         /\ conn' \in [Conn -> ConnType]
         /\ \A d \in Conn : conn'[d] =
              IF d = fsm[a].call THEN [conn[d] EXCEPT !.killed = TRUE, !.sock = "closed", !.wire = 0]
              ELSE conn[d]
         /\ fsm' \in [Automate -> FsmType]
         /\ \A b \in Automate : /\ fsm'[b].call = IF b = a THEN None ELSE fsm[b].call
                                /\ fsm'[b].client = fsm[b].client
<1> DEFINE c == fsm[a].call
           r == [conn[c] EXCEPT !.killed = TRUE, !.sock = "closed", !.wire = 0]
           u == [fsm[a] EXCEPT !.call = None]
<1>1. fsm[a] \in FsmType /\ c # None /\ fsm[a].receivingSide = c
  BY DEF Types, EndCall
<1>2. c \in Conn /\ None \in Place
  BY <1>1, NetServerAssumption DEF FsmType, Conn, Place, None
<1>3. conn[c] \in ConnType /\ conn' = KillConnection(c)
  BY <1>1, <1>2 DEF Types, EndCall
<1>4. fsm' = [fsm EXCEPT ![a] = u]
  BY DEF EndCall
<1> HIDE DEF c
<1>5. conn' = [conn EXCEPT ![c] = r]
  BY <1>2, <1>3 DEF KillConnection, Types
<1>6. r \in ConnType
  BY <1>3 DEF ConnType
<1>7. u \in FsmType /\ u.call = None /\ u.client = fsm[a].client
  BY <1>1, <1>2 DEF FsmType
<1> HIDE DEF r, u
<1>8. conn' \in [Conn -> ConnType] /\ \A d \in Conn : conn'[d] = IF d = c THEN r ELSE conn[d]
  BY <1>2, <1>5, <1>6, WriteConn
<1>9. fsm' \in [Automate -> FsmType] /\ \A b \in Automate : fsm'[b] = IF b = a THEN u ELSE fsm[b]
  BY <1>4, <1>7, WriteFsm
<1>10. \A b \in Automate : /\ fsm'[b].call = IF b = a THEN None ELSE fsm[b].call
                           /\ fsm'[b].client = fsm[b].client
  BY <1>7, <1>9
<1>11. \A d \in Conn : conn'[d] =
         IF d = c THEN [conn[d] EXCEPT !.killed = TRUE, !.sock = "closed", !.wire = 0] ELSE conn[d]
  BY <1>8 DEF r
<1> QED BY <1>2, <1>8, <1>9, <1>10, <1>11 DEF c

LEMMA EndCallLinks ==
  ASSUME Types, NEW a \in Automate, EndCall(a)
  PROVE  /\ system' \in SystemType /\ system'.pc = "test" /\ system'.fsm = a
         /\ list' \in ListType /\ list'.head = list.head /\ list'.tail = list.tail
         /\ list'.count = list.count
         /\ \A x \in Automate : list'.next[x] = IF x = a THEN Null ELSE list.next[x]
<1>1. system' \in SystemType /\ system'.pc = "test" /\ system'.fsm = a
  <2>1. system' = [system EXCEPT !.pc = "test", !.fsm = a] /\ system \in SystemType
    BY DEF EndCall, Types
  <2> QED BY <2>1 DEF SystemType, SystemPc, Pointer
<1>2. /\ list' \in ListType /\ list'.head = list.head /\ list'.tail = list.tail
       /\ list'.count = list.count
       /\ \A x \in Automate : list'.next[x] = IF x = a THEN Null ELSE list.next[x]
  <2>1. list' = [list EXCEPT !.next[a] = Null] /\ Null \in Pointer
    BY DEF EndCall, Pointer
  <2> QED BY <2>1, WriteNext
<1> QED BY <1>1, <1>2

LEMMA GetHeadFields ==
  ASSUME Types, GetHead
  PROVE  /\ server' \in ServerType /\ server.pc = "get" /\ list' = list
         /\ server'.conn = server.conn
         /\ \/ server'.pc = "ended" /\ down' = TRUE
            \/ /\ server'.pc = "unlink" /\ server'.fsm = list.head /\ list.head \in Automate
               /\ down' = down
<1>1. server \in ServerType /\ list.head \in Pointer /\ server.pc = "get" /\ list' = list
  BY DEF Types, ListType, GetHead
<1>2. CASE init = "created" \/ list.head = Null
  <2>1. Goto("ended") /\ down' = TRUE
    BY <1>2 DEF GetHead, Throw
  <2> QED BY <1>1, <2>1, GotoFields DEF ServerPc
<1>3. CASE ~(init = "created" \/ list.head = Null)
  <2>1. server' = [server EXCEPT !.pc = "unlink", !.fsm = list.head] /\ down' = down
    BY <1>3 DEF GetHead
  <2>2. list.head \in Automate
    BY <1>1, <1>3 DEF Pointer
  <2>3. /\ server' \in ServerType /\ server'.pc = "unlink" /\ server'.conn = server.conn
        /\ server'.fsm = list.head
    BY <1>1, <2>1 DEF ServerType, ServerPc
  <2> QED BY <1>1, <2>1, <2>2, <2>3
<1> QED BY <1>2, <1>3

LEMMA GetUnlinkFields ==
  ASSUME Types, Places, GetUnlink
  PROVE  /\ server' \in ServerType /\ server.pc = "unlink" /\ server'.pc = "clear"
         /\ server.fsm \in Automate /\ server'.fsm = server.fsm /\ server'.conn = server.conn
         /\ list' \in ListType /\ list'.head = list.next[server.fsm] /\ list'.tail = list.tail
         /\ list'.count = list.count /\ list'.next = list.next
<1>1. server.fsm \in Automate /\ Goto("clear") /\ server.pc = "unlink"
  BY DEF Places, GetUnlink, GetRuns
<1>2. list.next[server.fsm] \in Pointer
  BY <1>1 DEF Types, ListType
<1>3. list' = [list EXCEPT !.head = list.next[server.fsm]]
  BY DEF GetUnlink, HeadAfter
<1>4. /\ list' \in ListType /\ list'.head = list.next[server.fsm] /\ list'.tail = list.tail
      /\ list'.count = list.count /\ list'.next = list.next
  BY <1>2, <1>3, WriteHead
<1> QED BY <1>1, <1>4, GotoFields DEF ServerPc

LEMMA GetClearFields ==
  ASSUME Types, Places, GetClear
  PROVE  /\ server' \in ServerType /\ server.pc = "clear" /\ server'.pc = "tail"
         /\ server.fsm \in Automate /\ server'.fsm = server.fsm /\ server'.conn = server.conn
         /\ list' \in ListType /\ list'.head = list.head /\ list'.tail = list.tail
         /\ list'.count = list.count
         /\ \A x \in Automate : list'.next[x] = IF x = server.fsm THEN Null ELSE list.next[x]
<1>1. server.fsm \in Automate /\ Goto("tail") /\ server.pc = "clear"
  BY DEF Places, GetClear, GetRuns
<1>2. list' = [list EXCEPT !.next[server.fsm] = Null] /\ Null \in Pointer
  BY DEF GetClear, Pointer
<1>3. /\ list' \in ListType /\ list'.head = list.head /\ list'.tail = list.tail
      /\ list'.count = list.count
      /\ \A x \in Automate : list'.next[x] = IF x = server.fsm THEN Null ELSE list.next[x]
  BY <1>1, <1>2, WriteNext
<1> QED BY <1>1, <1>3, GotoFields DEF ServerPc

LEMMA GetTailFields ==
  ASSUME Types, GetTail
  PROVE  /\ server' \in ServerType /\ server.pc = "tail" /\ server'.pc = "load"
         /\ server'.fsm = server.fsm /\ server'.conn = server.conn
         /\ list' \in ListType /\ list'.head = list.head
         /\ list'.tail = (IF list.head = Null THEN Null ELSE list.tail)
         /\ list'.count = list.count /\ list'.next = list.next
<1>1. Goto("load") /\ server.pc = "tail" /\ list' = [list EXCEPT !.tail = TailAfter]
  BY DEF GetTail
<1>2. TailAfter \in Pointer
  BY DEF TailAfter, Types, ListType, Pointer
<1>3. /\ list' \in ListType /\ list'.head = list.head /\ list'.tail = TailAfter
      /\ list'.count = list.count /\ list'.next = list.next
  BY <1>1, <1>2, WriteTail
<1> QED BY <1>1, <1>3, GotoFields DEF ServerPc, TailAfter

LEMMA GetLoadFields ==
  ASSUME Types, GetLoad
  PROVE  /\ server' \in ServerType /\ server.pc = "load" /\ list' = list
         /\ server'.fsm = server.fsm /\ server'.conn = server.conn
         /\ \/ server'.pc = "ended" /\ list.count = 0 /\ down' = TRUE
            \/ /\ server'.pc = "store" /\ server'.count = list.count /\ list.count # 0
               /\ down' = down
<1>1. server \in ServerType /\ list.count \in Nat /\ server.pc = "load" /\ list' = list
  BY DEF Types, ListType, GetLoad
<1>2. CASE list.count = 0
  <2>1. Goto("ended") /\ down' = TRUE
    BY <1>2 DEF GetLoad, Throw
  <2> QED BY <1>1, <1>2, <2>1, GotoFields DEF ServerPc
<1>3. CASE list.count # 0
  <2>1. server' = [server EXCEPT !.pc = "store", !.count = list.count] /\ down' = down
    BY <1>3 DEF GetLoad
  <2>2. /\ server' \in ServerType /\ server'.pc = "store" /\ server'.conn = server.conn
        /\ server'.fsm = server.fsm /\ server'.count = list.count
    BY <1>1, <2>1 DEF ServerType, ServerPc
  <2> QED BY <1>1, <1>3, <2>1, <2>2
<1> QED BY <1>2, <1>3

(* The steps of Add.                                                       *)
LEMMA AddTestFields ==
  ASSUME Types, AddTest
  PROVE  /\ system' \in SystemType /\ system.pc = "test" /\ system'.pc = "link"
         /\ system'.fsm = system.fsm /\ system'.tail = list.tail /\ list' = list
<1>1. /\ system \in SystemType /\ list.tail \in Pointer /\ system.pc = "test" /\ list' = list
      /\ system' = [system EXCEPT !.pc = "link", !.tail = list.tail]
  BY DEF Types, ListType, AddTest
<1> QED BY <1>1 DEF SystemType, SystemPc

LEMMA AddLinkFields ==
  ASSUME Types, Places, AddLink
  PROVE  /\ system' \in SystemType /\ system.pc = "link" /\ system'.pc = "tail"
         /\ system.fsm \in Automate /\ system'.fsm = system.fsm
         /\ list' \in ListType /\ list'.tail = list.tail /\ list'.count = list.count
         /\ \/ /\ system.tail = Null /\ list'.head = system.fsm /\ list'.next = list.next
            \/ /\ system.tail \in Automate /\ list'.head = list.head
               /\ \A x \in Automate : list'.next[x] = IF x = system.tail THEN system.fsm
                                                     ELSE list.next[x]
<1>1. /\ system \in SystemType /\ system.fsm \in Automate /\ system.pc = "link"
      /\ system' = [system EXCEPT !.pc = "tail"]
  BY DEF Types, Places, AddLink, AddStep
<1>2. /\ system' \in SystemType /\ system'.pc = "tail" /\ system'.fsm = system.fsm
  BY <1>1 DEF SystemType, SystemPc
<1>3. system.fsm \in Pointer /\ system.tail \in Automate \cup {Null}
  BY <1>1 DEF SystemType, Pointer
<1>4. CASE system.tail = Null
  <2>1. list' = [list EXCEPT !.head = system.fsm]
    BY <1>4 DEF AddLink
  <2>2. /\ list' \in ListType /\ list'.head = system.fsm /\ list'.tail = list.tail
        /\ list'.count = list.count /\ list'.next = list.next
    BY <1>3, <2>1, WriteHead
  <2> QED BY <1>1, <1>2, <1>4, <2>2
<1>5. CASE system.tail # Null
  <2>1. list' = [list EXCEPT !.next[system.tail] = system.fsm] /\ system.tail \in Automate
    BY <1>3, <1>5 DEF AddLink
  <2>2. /\ list' \in ListType /\ list'.head = list.head /\ list'.tail = list.tail
        /\ list'.count = list.count
        /\ \A x \in Automate : list'.next[x] = IF x = system.tail THEN system.fsm ELSE list.next[x]
    BY <1>3, <2>1, WriteNext
  <2> QED BY <1>1, <1>2, <2>1, <2>2
<1> QED BY <1>4, <1>5

LEMMA AddTailFields ==
  ASSUME Types, Places, AddTail
  PROVE  /\ system' \in SystemType /\ system.pc = "tail" /\ system'.pc = "load"
         /\ system'.fsm = system.fsm
         /\ list' \in ListType /\ list'.head = list.head /\ list'.tail = system.fsm
         /\ list'.count = list.count /\ list'.next = list.next
<1>1. /\ system \in SystemType /\ system.fsm \in Pointer /\ system.pc = "tail"
      /\ system' = [system EXCEPT !.pc = "load"] /\ list' = [list EXCEPT !.tail = system.fsm]
  BY DEF Types, SystemType, AddTail, AddStep
<1>2. /\ system' \in SystemType /\ system'.pc = "load" /\ system'.fsm = system.fsm
  BY <1>1 DEF SystemType, SystemPc
<1>3. /\ list' \in ListType /\ list'.head = list.head /\ list'.tail = system.fsm
      /\ list'.count = list.count /\ list'.next = list.next
  BY <1>1, WriteTail
<1> QED BY <1>1, <1>2, <1>3

LEMMA AddLoadFields ==
  ASSUME Types, AddLoad
  PROVE  /\ system' \in SystemType /\ system.pc = "load" /\ system'.pc = "store"
         /\ system'.fsm = system.fsm /\ system'.count = list.count /\ list' = list
<1>1. /\ system \in SystemType /\ list.count \in Nat /\ system.pc = "load" /\ list' = list
      /\ system' = [system EXCEPT !.pc = "store", !.count = list.count]
  BY DEF Types, ListType, AddLoad
<1> QED BY <1>1 DEF SystemType, SystemPc

LEMMA AddStoreFields ==
  ASSUME Types, AddStore
  PROVE  /\ system' \in SystemType /\ system.pc = "store" /\ system'.pc = "idle"
         /\ list' \in ListType /\ list'.head = list.head /\ list'.tail = list.tail
         /\ list'.count = system.count + 1 /\ list'.next = list.next
<1>1. /\ system \in SystemType /\ system.pc = "store" /\ system' = Idle
      /\ list' = [list EXCEPT !.count = system.count + 1]
  BY DEF Types, AddStore
<1>2. system.count + 1 \in Nat
  BY <1>1 DEF SystemType
<1>3. /\ list' \in ListType /\ list'.head = list.head /\ list'.tail = list.tail
      /\ list'.count = system.count + 1 /\ list'.next = list.next
  BY <1>1, <1>2, WriteCount
<1>4. system' \in SystemType /\ system'.pc = "idle"
  BY <1>1 DEF Idle, SystemType, SystemPc, Pointer
<1> QED BY <1>1, <1>3, <1>4

-----------------------------------------------------------------------------
(* The types of the state.                                                 *)

LEMMA FirstLinks ==
  ASSUME Init
  PROVE  /\ list.head = Order[1] /\ list.tail = Order[Len(Order)] /\ list.count = Len(Order)
         /\ list.next \in [Automate -> Pointer]
         /\ \A k \in 1 .. Len(Order) :
              list.next[Order[k]] = IF k = Len(Order) THEN Null ELSE Order[k + 1]
<1> DEFINE place(a) == CHOOSE j \in DOMAIN Order : Order[j] = a
<1>1. /\ Len(Order) \in Nat /\ Len(Order) # 0 /\ DOMAIN Order = 1 .. Len(Order)
      /\ \A k \in 1 .. Len(Order) : Order[k] \in Automate
  BY NetServerAssumption
<1>2. /\ list.head = Order[1] /\ list.tail = Order[Len(Order)] /\ list.count = Len(Order)
      /\ list.next = [a \in Automate |-> IF place(a) = Len(Order) THEN Null ELSE Order[place(a) + 1]]
  BY DEF Init
<1>3. ASSUME NEW a \in Automate PROVE place(a) \in 1 .. Len(Order) /\ Order[place(a)] = a
  <2>1. \E j \in DOMAIN Order : Order[j] = a
    BY NetServerAssumption DEF Range
  <2> QED BY <1>1, <2>1
<1>4. ASSUME NEW k \in 1 .. Len(Order) PROVE place(Order[k]) = k
  <2>1. place(Order[k]) \in DOMAIN Order /\ Order[place(Order[k])] = Order[k] /\ k \in DOMAIN Order
    BY <1>1, <1>3
  <2> QED BY <2>1, NetServerAssumption DEF IsInjective
<1> HIDE DEF place
<1>5. list.next \in [Automate -> Pointer]
  <2>1. ASSUME NEW a \in Automate
        PROVE  (IF place(a) = Len(Order) THEN Null ELSE Order[place(a) + 1]) \in Pointer
    <3>1. CASE place(a) = Len(Order)
      BY <3>1 DEF Pointer
    <3>2. CASE place(a) # Len(Order)
      <4>1. place(a) + 1 \in 1 .. Len(Order)
        BY <1>1, <1>3, <3>2
      <4> QED BY <1>1, <3>2, <4>1 DEF Pointer
    <3> QED BY <3>1, <3>2
  <2> QED BY <1>2, <2>1
<1>6. ASSUME NEW k \in 1 .. Len(Order)
      PROVE  list.next[Order[k]] = IF k = Len(Order) THEN Null ELSE Order[k + 1]
  <2>1. place(Order[k]) = k /\ Order[k] \in Automate
    BY <1>1, <1>4
  <2>2. list.next[Order[k]] = IF place(Order[k]) = Len(Order) THEN Null
                              ELSE Order[place(Order[k]) + 1]
    BY <1>2, <2>1
  <2> QED BY <2>1, <2>2
<1> QED BY <1>2, <1>5, <1>6

LEMMA TypesInit == Init => Types
<1> SUFFICES ASSUME Init PROVE Types
  OBVIOUS
<1>1. /\ Len(Order) \in Nat /\ Len(Order) # 0
      /\ \A k \in 1 .. Len(Order) : Order[k] \in Automate
  BY NetServerAssumption
<1>2. /\ list.head = Order[1] /\ list.tail = Order[Len(Order)] /\ list.count = Len(Order)
      /\ list.next \in [Automate -> Pointer]
  BY FirstLinks
<1>3. list \in ListType
  <2>1. list = [head |-> list.head, tail |-> list.tail, count |-> list.count, next |-> list.next]
    BY DEF Init
  <2>2. list.head \in Pointer /\ list.tail \in Pointer
    BY <1>1, <1>2 DEF Pointer
  <2> QED BY <1>1, <1>2, <2>1, <2>2 DEF ListType
<1>4. None \in Place
  BY NetServerAssumption DEF None, Place
<1>5. server \in ServerType
  BY <1>4 DEF Init, Waiting, ServerType, ServerPc, Pointer
<1>6. system \in SystemType
  BY DEF Init, Idle, SystemType, SystemPc, Pointer
<1>7. fsm \in [Automate -> FsmType]
  BY <1>4 DEF Init, FsmType
<1>8. conn \in [Conn -> ConnType]
  BY DEF Init, ConnType, Pointer
<1>9. backlog \in Seq(Conn) /\ sent \in Nat /\ init = "none" /\ down = FALSE /\ overlapped = FALSE
  BY DEF Init
<1> QED BY <1>3, <1>5, <1>6, <1>7, <1>8, <1>9 DEF Types

LEMMA TypesStep == Types /\ Places /\ [Next]_vars => Types'
<1> SUFFICES ASSUME Types, Places, [Next]_vars PROVE Types'
  OBVIOUS
<1> USE DEF Types
<1>1. ASSUME NEW c \in Conn, Connect(c) PROVE Types'
  BY <1>1, ConnectFields DEF Connect
<1>2. ASSUME NEW c \in Conn, PeerSends(c) PROVE Types'
  <2>1. sent' \in Nat
    BY <1>2 DEF PeerSends
  <2>2. conn' \in [Conn -> ConnType]
    BY <1>2, PeerSendsFields
  <2> QED BY <1>2, <2>1, <2>2 DEF PeerSends
<1>3. ASSUME NEW c \in Conn, PeerCloses(c) PROVE Types'
  BY <1>3, PeerClosesFields DEF PeerCloses
<1>4. ASSUME NEW created \in BOOLEAN, InitTCPServer(created) PROVE Types'
  <2>1. Waiting \in ServerType
    BY NetServerAssumption DEF Waiting, ServerType, ServerPc, Pointer, None, Place
  <2>2. server' \in ServerType /\ init' \in {"created", "failed"}
    BY <1>4, <2>1 DEF InitTCPServer
  <2> QED BY <1>4, <2>2 DEF InitTCPServer
<1>5. CASE StoreAutomateType
  BY <1>5 DEF StoreAutomateType
<1>6. CASE DeinitTCPServer
  BY <1>6, DeinitFields DEF DeinitTCPServer
<1>7. CASE Accept
  <2>1. CASE init = "closed"
    <3>1. server' \in ServerType
      BY <1>7, <2>1, GotoFields DEF Accept, ServerPc
    <3> QED BY <1>7, <2>1, <3>1 DEF Accept
  <2>2. CASE init # "closed"
    BY <1>7, <2>2, AcceptFields DEF Accept
  <2> QED BY <2>1, <2>2
<1>8. CASE GetHead
  BY <1>8, GetHeadFields DEF GetHead, GetStep
<1>9. CASE GetUnlink
  BY <1>9, GetUnlinkFields DEF GetUnlink, GetStep
<1>10. CASE GetClear
  BY <1>10, GetClearFields DEF GetClear, GetStep
<1>11. CASE GetTail
  BY <1>11, GetTailFields DEF GetTail, GetStep
<1>12. CASE GetLoad
  BY <1>12, GetLoadFields DEF GetLoad, GetStep
<1>13. CASE GetStore
  BY <1>13, GetStoreFields DEF GetStore, GetStep
<1>14. ASSUME NEW created \in BOOLEAN, AcceptConnection(created) PROVE Types'
  <2>1. conn' \in [Conn -> ConnType] /\ fsm' \in [Automate -> FsmType]
    BY <1>14, AcceptConnectionFields
  <2>2. server' \in ServerType
    BY <1>14, GotoFields DEF AcceptConnection, ServerPc
  <2> QED BY <1>14, <2>1, <2>2 DEF AcceptConnection
<1>15. CASE StoreClient
  BY <1>15, StoreClientFields DEF StoreClient
<1>16. ASSUME NEW c \in Conn, Receive(c) PROVE Types'
  BY <1>16, ReceiveFields DEF Receive
<1>17. ASSUME NEW c \in Conn, Convert(c) PROVE Types'
  BY <1>17, ConvertFields DEF Convert
<1>18. ASSUME NEW c \in Conn, ReceiveEnd(c) PROVE Types'
  BY <1>18, ReceiveEndFields DEF ReceiveEnd
<1>19. ASSUME NEW a \in Automate, NEW answers \in BOOLEAN, Process(a, answers) PROVE Types'
  BY <1>19, ProcessFields DEF Process
<1>20. ASSUME NEW a \in Automate, EndCall(a) PROVE Types'
  BY <1>20, EndCallFields, EndCallLinks DEF EndCall
<1>21. CASE AddTest
  BY <1>21, AddTestFields DEF AddTest
<1>22. CASE AddLink
  BY <1>22, AddLinkFields DEF AddLink, AddStep
<1>23. CASE AddTail
  BY <1>23, AddTailFields DEF AddTail, AddStep
<1>24. CASE AddLoad
  BY <1>24, AddLoadFields DEF AddLoad
<1>25. CASE AddStore
  BY <1>25, AddStoreFields DEF AddStore
<1>26. CASE UNCHANGED vars
  BY <1>26 DEF vars
<1> QED
  BY <1>1, <1>2, <1>3, <1>4, <1>5, <1>6, <1>7, <1>8, <1>9, <1>10, <1>11, <1>12, <1>13, <1>14,
     <1>15, <1>16, <1>17, <1>18, <1>19, <1>20, <1>21, <1>22, <1>23, <1>24, <1>25, <1>26
  DEF Next, ServerThread, ReceiveThread, Add

-----------------------------------------------------------------------------
(* Places.                                                                 *)

LEMMA PlacesInit == Init => Places
  BY DEF Init, Places, GetRuns, Waiting, Idle

(* Only the connections change.                                            *)
LEMMA PlacesOfConn ==
  ASSUME Types, Places, UNCHANGED <<server, system>>, sent' \in Nat, sent <= sent',
         \A c \in Conn : /\ conn[c].sock # "none" => conn'[c].sock # "none"
                         /\ conn'[c].wire <= sent'
                         /\ conn'[c].thread # "none" => conn'[c].netFSM \in Automate
  PROVE  Places'
  BY DEF Places, GetRuns

LEMMA PlacesStep == Types /\ Places /\ [Next]_vars => Places'
<1> SUFFICES ASSUME Types, Places, [Next]_vars PROVE Places'
  OBVIOUS
<1>1. \A c \in Conn : conn[c] \in ConnType
  BY DEF Types
<1>2. /\ sent \in Nat
      /\ \A c \in Conn : conn[c].wire \in Nat /\ conn[c].wire <= sent
                         /\ (conn[c].thread # "none" => conn[c].netFSM \in Automate)
  BY <1>1 DEF ConnType, Types, Places
<1>3. ASSUME NEW c \in Conn, Connect(c) PROVE Places'
  <2>1. \A d \in Conn : /\ conn'[d].sock = conn[d].sock /\ conn'[d].wire = conn[d].wire
                        /\ conn'[d].thread = conn[d].thread /\ conn'[d].netFSM = conn[d].netFSM
    <3> SUFFICES ASSUME NEW d \in Conn
                 PROVE  /\ conn'[d].sock = conn[d].sock /\ conn'[d].wire = conn[d].wire
                        /\ conn'[d].thread = conn[d].thread /\ conn'[d].netFSM = conn[d].netFSM
      OBVIOUS
    <3>1. conn'[d] = IF d = c THEN [conn[d] EXCEPT !.peer = "open"] ELSE conn[d]
      BY <1>3, ConnectFields
    <3>2. conn[d] \in ConnType
      BY <1>1
    <3> QED BY <3>1, <3>2 DEF ConnType
  <2>2. UNCHANGED <<server, system, sent>>
    BY <1>3 DEF Connect
  <2> QED BY <1>2, <2>1, <2>2, PlacesOfConn
<1>4. ASSUME NEW c \in Conn, PeerSends(c) PROVE Places'
  <2>1. \A d \in Conn : /\ conn'[d].sock = conn[d].sock /\ conn'[d].thread = conn[d].thread
                        /\ conn'[d].netFSM = conn[d].netFSM
                        /\ conn'[d].wire \in {conn[d].wire, conn[d].wire + 1}
    <3> SUFFICES ASSUME NEW d \in Conn
                 PROVE  /\ conn'[d].sock = conn[d].sock /\ conn'[d].thread = conn[d].thread
                        /\ conn'[d].netFSM = conn[d].netFSM
                        /\ conn'[d].wire \in {conn[d].wire, conn[d].wire + 1}
      OBVIOUS
    <3>1. conn'[d] = IF d = c THEN [conn[d] EXCEPT !.wire = conn[d].wire + 1] ELSE conn[d]
      BY <1>4, PeerSendsFields
    <3>2. conn[d] \in ConnType
      BY <1>1
    <3> QED BY <3>1, <3>2 DEF ConnType
  <2>2. UNCHANGED <<server, system>> /\ sent' = sent + 1
    BY <1>4 DEF PeerSends
  <2> QED BY <1>2, <2>1, <2>2, PlacesOfConn
<1>5. ASSUME NEW c \in Conn, PeerCloses(c) PROVE Places'
  <2>1. \A d \in Conn : /\ conn'[d].sock = conn[d].sock /\ conn'[d].wire = conn[d].wire
                        /\ conn'[d].thread = conn[d].thread /\ conn'[d].netFSM = conn[d].netFSM
    <3> SUFFICES ASSUME NEW d \in Conn
                 PROVE  /\ conn'[d].sock = conn[d].sock /\ conn'[d].wire = conn[d].wire
                        /\ conn'[d].thread = conn[d].thread /\ conn'[d].netFSM = conn[d].netFSM
      OBVIOUS
    <3>1. conn'[d] = IF d = c THEN [conn[d] EXCEPT !.peer = "closed"] ELSE conn[d]
      BY <1>5, PeerClosesFields
    <3>2. conn[d] \in ConnType
      BY <1>1
    <3> QED BY <3>1, <3>2 DEF ConnType
  <2>2. UNCHANGED <<server, system, sent>>
    BY <1>5 DEF PeerCloses
  <2> QED BY <1>2, <2>1, <2>2, PlacesOfConn
<1>6. ASSUME NEW created \in BOOLEAN, InitTCPServer(created) PROVE Places'
  <2>1. server' = Waiting \/ server' = server
    BY <1>6 DEF InitTCPServer
  <2>2. UNCHANGED <<system, conn, sent>>
    BY <1>6 DEF InitTCPServer
  <2>3. server' = Waiting => server'.pc = "accept"
    BY DEF Waiting
  <2> QED BY <2>1, <2>2, <2>3 DEF Places, GetRuns
<1>7. CASE DeinitTCPServer
  <2>1. \A d \in Conn : /\ conn'[d].sock = conn[d].sock /\ conn'[d].wire = conn[d].wire
                        /\ conn'[d].thread = conn[d].thread /\ conn'[d].netFSM = conn[d].netFSM
    BY <1>1, <1>7, DeinitFields DEF ConnType
  <2>2. UNCHANGED <<server, system, sent>>
    BY <1>7 DEF DeinitTCPServer
  <2> QED BY <1>2, <2>1, <2>2, PlacesOfConn
<1>8. CASE Accept
  <2>0. UNCHANGED <<system, sent>>
    BY <1>8 DEF Accept
  <2>1. CASE init = "closed"
    <3>1. server'.pc = "ended" /\ conn' = conn
      BY <1>8, <2>1, GotoFields DEF Accept, ServerPc
    <3> QED BY <2>0, <3>1 DEF Places, GetRuns
  <2>2. CASE init # "closed"
    <3>1. PICK c \in Conn :
            /\ \A d \in Conn : conn'[d] = IF d = c THEN [conn[c] EXCEPT !.sock = "open"] ELSE conn[d]
            /\ server'.pc = "get" /\ server'.conn = c
      BY <1>8, <2>2, AcceptFields
    <3>2. \A d \in Conn : /\ conn'[d].sock = IF d = c THEN "open" ELSE conn[d].sock
                          /\ conn'[d].wire = conn[d].wire
                          /\ conn'[d].thread = conn[d].thread /\ conn'[d].netFSM = conn[d].netFSM
      BY <1>1, <3>1 DEF ConnType
    <3> QED BY <1>2, <2>0, <3>1, <3>2 DEF Places, GetRuns
  <2> QED BY <2>1, <2>2
<1>9. ASSUME UNCHANGED <<system, conn, sent>>,
             server'.conn = server.conn,
             server'.pc \in {"unlink", "clear", "tail", "load", "store", "start", "client"} =>
               server'.fsm \in Automate,
             server'.pc # "ended" => server.pc \notin {"none", "accept", "ended"},
             server'.pc \notin {"none", "accept"},
             server'.pc = "store" => server'.count # 0
      PROVE  Places'
  BY <1>9 DEF Places, GetRuns
<1>10. CASE GetHead
  BY <1>9, <1>10, GetHeadFields DEF GetHead, GetStep
<1>11. CASE GetUnlink
  BY <1>9, <1>11, GetUnlinkFields DEF GetUnlink, GetStep
<1>12. CASE GetClear
  BY <1>9, <1>12, GetClearFields DEF GetClear, GetStep
<1>13. CASE GetTail
  <2>1. server.fsm \in Automate
    BY <1>13 DEF GetTail, Places, GetRuns
  <2> QED BY <1>9, <1>13, <2>1, GetTailFields DEF GetTail, GetStep
<1>14. CASE GetLoad
  <2>1. server.fsm \in Automate
    BY <1>14 DEF GetLoad, Places, GetRuns
  <2> QED BY <1>9, <1>14, <2>1, GetLoadFields DEF GetLoad, GetStep
<1>15. CASE GetStore
  <2>1. server.pc = "store"
    BY <1>15 DEF GetStore
  <2> QED BY <1>9, <1>15, <2>1, GetStoreFields DEF GetStore, GetStep
<1>16. ASSUME NEW created \in BOOLEAN, AcceptConnection(created) PROVE Places'
  <2>1. server.fsm \in Automate /\ server.conn \in Conn
    BY <1>16, AcceptConnectionFields
  <2>2. \A d \in Conn : /\ conn[d].sock # "none" => conn'[d].sock # "none"
                        /\ conn'[d].wire \in {0, conn[d].wire}
                        /\ conn'[d].thread # "none" => conn'[d].netFSM \in Automate
    <3> SUFFICES ASSUME NEW d \in Conn
                 PROVE  /\ conn[d].sock # "none" => conn'[d].sock # "none"
                        /\ conn'[d].wire \in {0, conn[d].wire}
                        /\ conn'[d].thread # "none" => conn'[d].netFSM \in Automate
      OBVIOUS
    <3>1. conn'[d] = IF d # server.conn THEN conn[d]
                     ELSE IF created THEN [conn[d] EXCEPT !.netFSM = server.fsm, !.thread = "recv"]
                     ELSE [conn[d] EXCEPT !.sock = "closed", !.wire = 0]
      BY <1>16, AcceptConnectionFields
    <3>2. conn[d] \in ConnType
      BY <1>1
    <3> QED BY <1>2, <2>1, <3>1, <3>2 DEF ConnType
  <2>3. /\ server'.pc \in {"client", "ended"} /\ server'.fsm = server.fsm /\ server'.conn = server.conn
        /\ UNCHANGED <<system, sent>>
    BY <1>16, GotoFields DEF AcceptConnection, ServerPc
  <2>4. server.pc = "start"
    BY <1>16 DEF AcceptConnection
  <2> QED BY <1>2, <2>1, <2>2, <2>3, <2>4 DEF Places, GetRuns
<1>17. CASE StoreClient
  BY <1>17, StoreClientFields DEF StoreClient, Places, GetRuns
<1>18. ASSUME NEW c \in Conn, Receive(c) PROVE Places'
  <2>1. \A d \in Conn : /\ conn'[d].sock = conn[d].sock /\ conn'[d].netFSM = conn[d].netFSM
                        /\ conn'[d].wire \in {conn[d].wire, conn[d].wire - 1}
                        /\ (conn'[d].thread # "none" => conn[d].thread # "none")
    <3> SUFFICES ASSUME NEW d \in Conn
                 PROVE  /\ conn'[d].sock = conn[d].sock /\ conn'[d].netFSM = conn[d].netFSM
                        /\ conn'[d].wire \in {conn[d].wire, conn[d].wire - 1}
                        /\ (conn'[d].thread # "none" => conn[d].thread # "none")
      OBVIOUS
    <3>1. conn'[d] = IF d = c THEN [conn[d] EXCEPT !.wire = conn[d].wire - 1, !.thread = "convert"]
                     ELSE conn[d]
      BY <1>18, ReceiveFields
    <3>2. conn[d] \in ConnType
      BY <1>1
    <3>3. conn[c].thread # "none"
      BY <1>18 DEF Receive
    <3> QED BY <3>1, <3>2, <3>3 DEF ConnType
  <2>2. UNCHANGED <<server, system, sent>>
    BY <1>18 DEF Receive
  <2> QED BY <1>2, <2>1, <2>2, PlacesOfConn
<1>19. ASSUME NEW c \in Conn, Convert(c) PROVE Places'
  <2>1. \A d \in Conn : /\ conn'[d].sock = conn[d].sock /\ conn'[d].netFSM = conn[d].netFSM
                        /\ conn'[d].wire = conn[d].wire
                        /\ (conn'[d].thread # "none" => conn[d].thread # "none")
    <3> SUFFICES ASSUME NEW d \in Conn
                 PROVE  /\ conn'[d].sock = conn[d].sock /\ conn'[d].netFSM = conn[d].netFSM
                        /\ conn'[d].wire = conn[d].wire
                        /\ (conn'[d].thread # "none" => conn[d].thread # "none")
      OBVIOUS
    <3>1. conn'[d] = IF d = c THEN [conn[d] EXCEPT !.thread = "recv", !.stale =
                                     IF conn[d].killed THEN conn[d].stale + 1 ELSE conn[d].stale]
                     ELSE conn[d]
      BY <1>19, ConvertFields
    <3>2. conn[d] \in ConnType
      BY <1>1
    <3>3. conn[c].thread # "none"
      BY <1>19 DEF Convert
    <3> QED BY <3>1, <3>2, <3>3 DEF ConnType
  <2>2. UNCHANGED <<server, system, sent>>
    BY <1>19 DEF Convert
  <2> QED BY <1>2, <2>1, <2>2, PlacesOfConn
<1>20. ASSUME NEW c \in Conn, ReceiveEnd(c) PROVE Places'
  <2>1. \A d \in Conn : /\ conn'[d].sock \in {conn[d].sock, "closed"} /\ conn'[d].netFSM = conn[d].netFSM
                        /\ conn'[d].wire = conn[d].wire /\ conn'[d].thread = conn[d].thread
    <3> SUFFICES ASSUME NEW d \in Conn
                 PROVE  /\ conn'[d].sock \in {conn[d].sock, "closed"} /\ conn'[d].netFSM = conn[d].netFSM
                        /\ conn'[d].wire = conn[d].wire /\ conn'[d].thread = conn[d].thread
      OBVIOUS
    <3>1. conn'[d] = IF d = c THEN [conn[d] EXCEPT !.sock = "closed"] ELSE conn[d]
      BY <1>20, ReceiveEndFields
    <3>2. conn[d] \in ConnType
      BY <1>1
    <3> QED BY <3>1, <3>2 DEF ConnType
  <2>2. UNCHANGED <<server, system, sent>>
    BY <1>20 DEF ReceiveEnd
  <2> QED BY <1>2, <2>1, <2>2, PlacesOfConn
<1>21. ASSUME NEW a \in Automate, EndCall(a) PROVE Places'
  <2>1. \A d \in Conn : /\ conn'[d].sock \in {conn[d].sock, "closed"} /\ conn'[d].netFSM = conn[d].netFSM
                        /\ conn'[d].wire \in {0, conn[d].wire} /\ conn'[d].thread = conn[d].thread
    <3> SUFFICES ASSUME NEW d \in Conn
                 PROVE  /\ conn'[d].sock \in {conn[d].sock, "closed"} /\ conn'[d].netFSM = conn[d].netFSM
                        /\ conn'[d].wire \in {0, conn[d].wire} /\ conn'[d].thread = conn[d].thread
      OBVIOUS
    <3>1. conn'[d] = IF d = fsm[a].call
                       THEN [conn[d] EXCEPT !.killed = TRUE, !.sock = "closed", !.wire = 0]
                     ELSE conn[d]
      BY <1>21, EndCallFields
    <3>2. conn[d] \in ConnType
      BY <1>1
    <3> QED BY <3>1, <3>2 DEF ConnType
  <2>2. UNCHANGED <<server, sent>> /\ system'.fsm = a
    BY <1>21, EndCallLinks DEF EndCall
  <2> QED BY <1>2, <2>1, <2>2 DEF Places, GetRuns
<1>22. ASSUME UNCHANGED <<server, conn, sent>>, system'.pc = "idle" \/ system'.fsm \in Automate
       PROVE  Places'
  BY <1>22 DEF Places, GetRuns
<1>23. CASE AddTest
  <2>1. system.fsm \in Automate
    BY <1>23 DEF AddTest, Places
  <2> QED BY <1>22, <1>23, <2>1, AddTestFields DEF AddTest
<1>24. CASE AddLink
  BY <1>22, <1>24, AddLinkFields DEF AddLink, AddStep
<1>25. CASE AddTail
  <2>1. system.fsm \in Automate
    BY <1>25 DEF AddTail, Places
  <2> QED BY <1>22, <1>25, <2>1, AddTailFields DEF AddTail, AddStep
<1>26. CASE AddLoad
  <2>1. system.fsm \in Automate
    BY <1>26 DEF AddLoad, Places
  <2> QED BY <1>22, <1>26, <2>1, AddLoadFields DEF AddLoad
<1>27. CASE AddStore
  BY <1>22, <1>27, AddStoreFields DEF AddStore
<1>28. CASE UNCHANGED <<server, system, conn, sent>>
  BY <1>28 DEF Places, GetRuns
<1>29. CASE \/ StoreAutomateType \/ UNCHANGED vars
            \/ \E a \in Automate, answers \in BOOLEAN : Process(a, answers)
  BY <1>28, <1>29 DEF StoreAutomateType, Process, vars
<1> QED
  BY <1>3, <1>4, <1>5, <1>6, <1>7, <1>8, <1>10, <1>11, <1>12, <1>13, <1>14, <1>15, <1>16, <1>17,
     <1>18, <1>19, <1>20, <1>21, <1>23, <1>24, <1>25, <1>26, <1>27, <1>29
  DEF Next, ServerThread, ReceiveThread, Add

-----------------------------------------------------------------------------
(* Pointers.                                                               *)

LEMMA StartedInit == Init => Started
  BY DEF Init, Started, Waiting

LEMMA StartedStep == Started /\ [Next]_vars => Started'
<1> SUFFICES ASSUME Started, [Next]_vars PROVE Started'
  OBVIOUS
<1>1. CASE UNCHANGED <<init, server>>
  BY <1>1 DEF Started
<1>2. CASE \/ \E c \in Conn : Connect(c) \/ PeerSends(c) \/ PeerCloses(c) \/ ReceiveThread(c)
           \/ \E a \in Automate, answers \in BOOLEAN : Process(a, answers)
           \/ \E a \in Automate : EndCall(a)
           \/ UNCHANGED vars
  BY <1>1, <1>2 DEF Connect, PeerSends, PeerCloses, ReceiveThread, Receive, Convert, ReceiveEnd,
                    Process, EndCall, vars
<1>3. CASE Add
  BY <1>1, <1>3 DEF Add, AddTest, AddLink, AddTail, AddLoad, AddStore, AddStep
<1>4. CASE \/ \E created \in BOOLEAN : InitTCPServer(created)
           \/ StoreAutomateType \/ DeinitTCPServer
  BY <1>4 DEF InitTCPServer, StoreAutomateType, DeinitTCPServer, Started
<1>5. CASE ServerThread
  <2>1. server.pc # "none" /\ init' = init
    BY <1>5 DEF ServerThread, Accept, GetHead, GetUnlink, GetClear, GetTail, GetLoad, GetStore,
                GetStep, AcceptConnection, StoreClient
  <2> QED BY <2>1 DEF Started
<1> QED BY <1>2, <1>3, <1>4, <1>5 DEF Next

LEMMA OneMore ==
  ASSUME NEW n \in Nat, NEW k \in 1 .. n, k # n
  PROVE  k + 1 \in 1 .. n
  OBVIOUS

LEMMA PointersInit == Init => Pointers
<1> SUFFICES ASSUME Init PROVE Pointers
  OBVIOUS
<1>1. /\ Len(Order) \in Nat /\ Len(Order) # 0 /\ DOMAIN Order = 1 .. Len(Order)
      /\ \A k \in 1 .. Len(Order) : Order[k] \in Automate
      /\ Null \notin Automate
  BY NetServerAssumption
<1>2. /\ list.head = Order[1]
      /\ \A k \in 1 .. Len(Order) :
           list.next[Order[k]] = IF k = Len(Order) THEN Null ELSE Order[k + 1]
  BY FirstLinks
<1>3. \A x \in Automate : \E k \in 1 .. Len(Order) : Order[k] = x
  BY <1>1, NetServerAssumption DEF Range
<1>4. \A j, k \in 1 .. Len(Order) : Order[j] = Order[k] => j = k
  BY <1>1, NetServerAssumption DEF IsInjective
<1>5. /\ \A a \in Automate : fsm[a].call = None
      /\ server.pc = "none" /\ system.pc = "idle"
  BY DEF Init, Waiting, Idle
<1>6. ASSUME NEW x \in Automate, list.next[x] # Null
      PROVE  \E k \in 1 .. Len(Order) : k + 1 \in 1 .. Len(Order) /\ x = Order[k]
                                        /\ list.next[x] = Order[k + 1]
  <2>1. PICK k \in 1 .. Len(Order) : Order[k] = x
    BY <1>3
  <2>2. k # Len(Order) /\ list.next[x] = Order[k + 1]
    BY <1>2, <1>6, <2>1
  <2>3. k + 1 \in 1 .. Len(Order)
    BY <1>1, <2>2, OneMore
  <2> QED BY <2>1, <2>2, <2>3
<1>7. ASSUME NEW x \in Automate, NEW y \in Automate, list.next[x] = list.next[y], list.next[x] # Null
      PROVE  x = y
  <2>1. PICK j \in 1 .. Len(Order) : /\ j + 1 \in 1 .. Len(Order) /\ x = Order[j]
                                     /\ list.next[x] = Order[j + 1]
    BY <1>6, <1>7
  <2>2. PICK k \in 1 .. Len(Order) : /\ k + 1 \in 1 .. Len(Order) /\ y = Order[k]
                                     /\ list.next[y] = Order[k + 1]
    BY <1>6, <1>7
  <2>3. j + 1 = k + 1
    BY <1>4, <1>7, <2>1, <2>2
  <2> QED BY <2>1, <2>2, <2>3
<1>8. ASSUME NEW x \in Automate, list.next[x] = list.head, list.head # Null PROVE FALSE
  <2>1. PICK j \in 1 .. Len(Order) : /\ j + 1 \in 1 .. Len(Order) /\ x = Order[j]
                                     /\ list.next[x] = Order[j + 1]
    BY <1>6, <1>8
  <2>2. 1 \in 1 .. Len(Order)
    BY <1>1
  <2>3. j + 1 = 1
    BY <1>2, <1>4, <1>8, <2>1, <2>2
  <2> QED BY <2>3
<1> QED BY <1>5, <1>7, <1>8 DEF Pointers, Taken, GetRuns

(* Steps that keep the links, the calls and what Get and Add hold.         *)
LEMMA PointersKept ==
  ASSUME Pointers,
         \A a \in Automate : fsm'[a].call = fsm[a].call /\ list'.next[a] = list.next[a],
         list'.head = list.head,
         \/ server' = server
         \/ /\ server.pc # "clear"
            /\ \/ server'.pc \notin {"unlink", "clear", "tail", "load", "store"}
               \/ /\ server'.pc \in {"tail", "load", "store"} /\ server.pc \in {"tail", "load", "store"}
                  /\ server'.fsm = server.fsm /\ server.fsm \in Automate,
         \/ system' = system
         \/ system'.pc \notin {"test", "link"}
         \/ /\ system'.pc \in {"test", "link"} /\ system.pc \in {"test", "link"}
            /\ system'.fsm = system.fsm /\ system.fsm \in Automate,
         GetRuns => server.fsm \in Automate,
         system.pc \in {"test", "link"} => system.fsm \in Automate
  PROVE  Pointers'
<1>1. \A a \in Automate : Taken(a)' => Taken(a)
  BY DEF Taken
<1>2. /\ \A a \in Automate : Taken(a)' => list'.head # a /\ \A x \in Automate : list'.next[x] # a
      /\ \A x, y \in Automate : list'.next[x] = list'.next[y] /\ list'.next[x] # Null => x = y
  BY <1>1 DEF Pointers
<1>3. \A x \in Automate : list'.next[x] = list'.head /\ list'.head # Null =>
        server'.pc = "clear" /\ server'.fsm = x
  BY DEF Pointers
<1>4. /\ server'.pc = "unlink" => \A x \in Automate : list'.next[x] # server'.fsm
      /\ GetRuns' => GetRuns /\ server'.fsm = server.fsm
  BY DEF Pointers, GetRuns
<1>5. GetRuns' => fsm'[server'.fsm].call = None
  BY <1>4 DEF Pointers
<1>6. system'.pc \in {"test", "link"} =>
        /\ fsm'[system'.fsm].call = None
        /\ GetRuns' => system'.fsm # server'.fsm
  BY <1>4 DEF Pointers
<1> QED BY <1>2, <1>3, <1>4, <1>5, <1>6 DEF Pointers

LEMMA PointersStep == Types /\ Places /\ Started /\ Pointers /\ [Next]_vars => Pointers'
<1> SUFFICES ASSUME Types, Places, Started, Pointers, [Next]_vars PROVE Pointers'
  OBVIOUS
<1>1. /\ GetRuns => server.fsm \in Automate
      /\ system.pc \in {"test", "link"} => system.fsm \in Automate
      /\ Null \notin Automate
  BY NetServerAssumption DEF Places
<1>2. CASE UNCHANGED <<list, server, system, fsm>>
  BY <1>1, <1>2, PointersKept
<1>3. CASE \/ \E c \in Conn : Connect(c) \/ PeerSends(c) \/ PeerCloses(c) \/ Receive(c) \/ ReceiveEnd(c)
           \/ StoreAutomateType \/ DeinitTCPServer \/ UNCHANGED vars
  BY <1>2, <1>3 DEF Connect, PeerSends, PeerCloses, Receive, ReceiveEnd, StoreAutomateType,
                    DeinitTCPServer, vars
<1>4. ASSUME NEW c \in Conn, Convert(c) PROVE Pointers'
  <2>1. UNCHANGED <<list, server, system>>
    BY <1>4 DEF Convert
  <2>2. \A a \in Automate : fsm'[a].call = fsm[a].call
    BY <1>4, ConvertFields
  <2> QED BY <1>1, <2>1, <2>2, PointersKept
<1>5. ASSUME NEW a \in Automate, NEW answers \in BOOLEAN, Process(a, answers) PROVE Pointers'
  <2>1. UNCHANGED <<list, server, system>>
    BY <1>5 DEF Process
  <2>2. \A b \in Automate : fsm'[b].call = fsm[b].call
    BY <1>5, ProcessFields
  <2> QED BY <1>1, <2>1, <2>2, PointersKept
<1>6. ASSUME NEW created \in BOOLEAN, InitTCPServer(created) PROVE Pointers'
  <2>1. server.pc = "none" /\ (server' = Waiting \/ server' = server)
    BY <1>6 DEF InitTCPServer, Started
  <2>2. UNCHANGED <<list, system, fsm>>
    BY <1>6 DEF InitTCPServer
  <2>3. server' = Waiting => server'.pc = "accept"
    BY DEF Waiting
  <2> QED BY <1>1, <2>1, <2>2, <2>3, PointersKept
<1>7. CASE Accept
  <2>1. UNCHANGED <<list, system, fsm>> /\ server.pc = "accept"
    BY <1>7 DEF Accept
  <2>2. server'.pc \in {"ended", "get"}
    <3>1. CASE init = "closed"
      BY <1>7, <3>1, GotoFields DEF Accept, ServerPc
    <3>2. CASE init # "closed"
      BY <1>7, <3>2, AcceptFields
    <3> QED BY <3>1, <3>2
  <2> QED BY <1>1, <2>1, <2>2, PointersKept
<1>8. ASSUME NEW created \in BOOLEAN, AcceptConnection(created) PROVE Pointers'
  <2>1. UNCHANGED <<list, system>> /\ server.pc = "start"
    BY <1>8 DEF AcceptConnection
  <2>2. server'.pc \in {"client", "ended"}
    BY <1>8, GotoFields DEF AcceptConnection, ServerPc
  <2>3. \A b \in Automate : fsm'[b].call = fsm[b].call
    BY <1>8, AcceptConnectionFields
  <2> QED BY <1>1, <2>1, <2>2, <2>3, PointersKept
<1>9. CASE StoreClient
  <2>1. UNCHANGED <<list, system>> /\ server.pc = "client"
    BY <1>9 DEF StoreClient
  <2>2. server'.pc = "accept" /\ \A b \in Automate : fsm'[b].call = fsm[b].call
    BY <1>9, StoreClientFields
  <2> QED BY <1>1, <2>1, <2>2, PointersKept
<1>10. CASE GetTail
  <2>1. UNCHANGED <<system, fsm>>
    BY <1>10 DEF GetTail, GetStep
  <2>2. GetRuns
    BY <1>10 DEF GetTail, GetRuns
  <2> QED BY <1>1, <1>10, <2>1, <2>2, GetTailFields, PointersKept
<1>11. CASE GetLoad
  <2>1. UNCHANGED <<system, fsm>>
    BY <1>11 DEF GetLoad, GetStep
  <2>2. GetRuns
    BY <1>11 DEF GetLoad, GetRuns
  <2> QED BY <1>1, <1>11, <2>1, <2>2, GetLoadFields, PointersKept
<1>12. CASE AddTest
  <2>1. UNCHANGED <<list, server, fsm>>
    BY <1>12 DEF AddTest
  <2> QED BY <1>1, <1>12, <2>1, AddTestFields, PointersKept
<1>13. CASE AddTail
  <2>1. UNCHANGED <<server, fsm>>
    BY <1>13 DEF AddTail, AddStep
  <2> QED BY <1>1, <1>13, <2>1, AddTailFields, PointersKept
<1>14. CASE AddLoad
  <2>1. UNCHANGED <<list, server, fsm>>
    BY <1>14 DEF AddLoad
  <2> QED BY <1>1, <1>14, <2>1, AddLoadFields, PointersKept
<1>15. CASE AddStore
  <2>1. UNCHANGED <<server, fsm>>
    BY <1>15 DEF AddStore
  <2> QED BY <1>1, <1>15, <2>1, AddStoreFields, PointersKept
<1>16. CASE GetHead
  <2>1. UNCHANGED <<list, system, fsm>>
    BY <1>16 DEF GetHead, GetStep
  <2>2. CASE server'.pc = "ended"
    BY <1>1, <1>16, <2>1, <2>2, GetHeadFields, PointersKept
  <2>3. CASE server'.pc # "ended"
    <3>1. /\ server.pc = "get" /\ server'.pc = "unlink" /\ server'.fsm = list.head
          /\ list.head \in Automate
      BY <1>16, <2>3, GetHeadFields
    <3>2. ~ Taken(list.head)
      BY <3>1 DEF Pointers
    <3>3. \A a \in Automate : Taken(a)' => Taken(a)
      BY <2>1, <3>1 DEF Taken
    <3>4. \A x \in Automate : list.next[x] # list.head
      BY <1>1, <3>1 DEF Pointers
    <3>5. /\ fsm[list.head].call = None
          /\ system.pc \in {"test", "link"} => system.fsm # list.head /\ fsm[system.fsm].call = None
      BY <3>2 DEF Taken, Pointers
    <3> QED BY <2>1, <3>1, <3>3, <3>4, <3>5 DEF Pointers
  <2> QED BY <2>2, <2>3
<1>17. CASE GetUnlink
  <2>1. UNCHANGED <<system, fsm>>
    BY <1>17 DEF GetUnlink, GetStep
  <2>2. /\ server.pc = "unlink" /\ server'.pc = "clear" /\ server'.fsm = server.fsm
        /\ server.fsm \in Automate /\ list'.head = list.next[server.fsm] /\ list'.next = list.next
    BY <1>17, GetUnlinkFields
  <2>3. /\ \A x \in Automate : list.next[x] # server.fsm
        /\ fsm[server.fsm].call = None
        /\ system.pc \in {"test", "link"} =>
             fsm[system.fsm].call = None /\ system.fsm # server.fsm
    BY <2>2 DEF Pointers, GetRuns
  <2>4. \A a \in Automate : Taken(a)' => Taken(a) \/ a = server.fsm
    BY <2>1, <2>2 DEF Taken
  <2>5. \A a \in Automate : Taken(a)' => list'.head # a /\ \A x \in Automate : list'.next[x] # a
    BY <2>2, <2>3, <2>4 DEF Pointers
  <2>6. \A x \in Automate : list'.next[x] = list'.head /\ list'.head # Null => x = server.fsm
    BY <2>2 DEF Pointers
  <2>7. \A x, y \in Automate : list'.next[x] = list'.next[y] /\ list'.next[x] # Null => x = y
    BY <2>2 DEF Pointers
  <2> QED BY <2>1, <2>2, <2>3, <2>5, <2>6, <2>7 DEF Pointers
<1>18. CASE GetClear
  <2>1. UNCHANGED <<system, fsm>>
    BY <1>18 DEF GetClear, GetStep
  <2>2. /\ server.pc = "clear" /\ server'.pc = "tail" /\ server'.fsm = server.fsm
        /\ server.fsm \in Automate /\ list'.head = list.head
        /\ \A x \in Automate : list'.next[x] = IF x = server.fsm THEN Null ELSE list.next[x]
    BY <1>18, GetClearFields
  <2>3. /\ fsm[server.fsm].call = None
        /\ system.pc \in {"test", "link"} =>
             fsm[system.fsm].call = None /\ system.fsm # server.fsm
    BY <2>2 DEF Pointers, GetRuns
  <2>4. \A a \in Automate : Taken(a)' => Taken(a)
    BY <2>1, <2>2 DEF Taken
  <2>5. \A a \in Automate : Taken(a)' => list'.head # a /\ \A x \in Automate : list'.next[x] # a
    BY <1>1, <2>2, <2>4 DEF Pointers
  <2>6. \A x \in Automate : list'.next[x] = list'.head => list'.head = Null
    BY <2>2 DEF Pointers
  <2>7. \A x, y \in Automate : list'.next[x] = list'.next[y] /\ list'.next[x] # Null => x = y
    BY <2>2 DEF Pointers
  <2> QED BY <2>1, <2>2, <2>3, <2>5, <2>6, <2>7 DEF Pointers
<1>19. CASE GetStore
  <2>1. system' = system /\ server.pc = "store"
    BY <1>19 DEF GetStore, GetStep
  <2>2. /\ server'.pc = "start" /\ server.fsm \in Automate
        /\ list'.head = list.head /\ list'.next = list.next
        /\ \A a \in Automate : a # server.fsm => fsm'[a].call = fsm[a].call
    BY <1>19, GetStoreFields
  <2>3. \A a \in Automate : Taken(a)' => Taken(a)
    BY <2>1, <2>2 DEF Taken
  <2>4. \A a \in Automate : Taken(a)' => list'.head # a /\ \A x \in Automate : list'.next[x] # a
    BY <2>2, <2>3 DEF Pointers
  <2>5. /\ \A x \in Automate : list'.next[x] = list'.head => list'.head = Null
        /\ \A x, y \in Automate : list'.next[x] = list'.next[y] /\ list'.next[x] # Null => x = y
    BY <2>1, <2>2 DEF Pointers
  <2>6. system'.pc \in {"test", "link"} => fsm'[system'.fsm].call = None
    BY <1>1, <2>1, <2>2 DEF Pointers, GetRuns
  <2> QED BY <2>2, <2>4, <2>5, <2>6 DEF Pointers, GetRuns
<1>20. ASSUME NEW a \in Automate, EndCall(a) PROVE Pointers'
  <2>1. server' = server /\ fsm[a].call # None
    BY <1>20 DEF EndCall
  <2>2. /\ system'.pc = "test" /\ system'.fsm = a /\ list'.head = list.head
        /\ \A b \in Automate : fsm'[b].call = IF b = a THEN None ELSE fsm[b].call
        /\ \A x \in Automate : list'.next[x] = IF x = a THEN Null ELSE list.next[x]
    <3>1. \A b \in Automate : fsm'[b].call = IF b = a THEN None ELSE fsm[b].call
      BY <1>20, EndCallFields
    <3> QED BY <1>20, <3>1, EndCallLinks
  <2>3. \A b \in Automate : Taken(b)' => Taken(b)
    BY <2>1, <2>2 DEF Taken
  <2>4. \A b \in Automate : Taken(b)' => list'.head # b /\ \A x \in Automate : list'.next[x] # b
    BY <1>1, <2>2, <2>3 DEF Pointers
  <2>5. /\ \A x \in Automate : list'.next[x] = list'.head /\ list'.head # Null =>
             server'.pc = "clear" /\ server'.fsm = x
        /\ \A x, y \in Automate : list'.next[x] = list'.next[y] /\ list'.next[x] # Null => x = y
    BY <2>1, <2>2 DEF Pointers
  <2>6. server'.pc = "unlink" => \A x \in Automate : list'.next[x] # server'.fsm
    <3> SUFFICES ASSUME server.pc = "unlink", NEW x \in Automate PROVE list'.next[x] # server.fsm
      BY <2>1
    <3>1. server.fsm \in Automate /\ list.next[x] # server.fsm
      BY <1>1 DEF Pointers, GetRuns
    <3> QED BY <1>1, <2>2, <3>1
  <2>7. GetRuns' => GetRuns /\ fsm'[server'.fsm].call = None /\ a # server'.fsm
    BY <1>1, <2>1, <2>2 DEF Pointers, GetRuns
  <2>8. fsm'[a].call = None
    BY <2>2
  <2> QED BY <2>2, <2>4, <2>5, <2>6, <2>7, <2>8 DEF Pointers
<1>21. CASE AddLink
  <2>1. UNCHANGED <<server, fsm>>
    BY <1>21 DEF AddLink, AddStep
  <2>2. /\ system.pc = "link" /\ system'.pc = "tail" /\ system.fsm \in Automate
        /\ \/ list'.head = system.fsm /\ list'.next = list.next
           \/ /\ system.tail \in Automate /\ list'.head = list.head
              /\ \A x \in Automate : list'.next[x] = IF x = system.tail THEN system.fsm
                                                     ELSE list.next[x]
    BY <1>21, AddLinkFields
  <2>3. Taken(system.fsm)
    BY <2>2 DEF Taken
  <2>4. list.head # system.fsm /\ \A x \in Automate : list.next[x] # system.fsm
    BY <2>2, <2>3 DEF Pointers
  <2>5. \A a \in Automate : Taken(a)' => Taken(a) /\ a # system.fsm
    BY <2>1, <2>2 DEF Taken, Pointers, GetRuns
  <2>6. \A a \in Automate : Taken(a)' => list'.head # a /\ \A x \in Automate : list'.next[x] # a
    <3> SUFFICES ASSUME NEW a \in Automate, Taken(a)'
                 PROVE  list'.head # a /\ \A x \in Automate : list'.next[x] # a
      OBVIOUS
    <3>1. a # system.fsm /\ list.head # a /\ \A x \in Automate : list.next[x] # a
      BY <2>5 DEF Pointers
    <3> QED BY <2>2, <3>1
  <2>7. \A x \in Automate : list'.next[x] = list'.head /\ list'.head # Null =>
             server'.pc = "clear" /\ server'.fsm = x
    BY <2>1, <2>2, <2>4 DEF Pointers
  <2>8. \A x, y \in Automate : list'.next[x] = list'.next[y] /\ list'.next[x] # Null => x = y
    BY <2>2, <2>4 DEF Pointers
  <2>9. server'.pc = "unlink" => \A x \in Automate : list'.next[x] # server'.fsm
    <3> SUFFICES ASSUME server.pc = "unlink", NEW x \in Automate PROVE list'.next[x] # server.fsm
      BY <2>1
    <3>1. system.fsm # server.fsm /\ list.next[x] # server.fsm
      BY <2>2 DEF Pointers, GetRuns
    <3> QED BY <2>2, <3>1
  <2>10. GetRuns' => fsm'[server'.fsm].call = None
    BY <2>1 DEF Pointers, GetRuns
  <2> QED BY <2>2, <2>6, <2>7, <2>8, <2>9, <2>10 DEF Pointers
<1> QED
  BY <1>3, <1>4, <1>5, <1>6, <1>7, <1>8, <1>9, <1>10, <1>11, <1>12, <1>13, <1>14, <1>15, <1>16,
     <1>17, <1>18, <1>19, <1>20, <1>21
  DEF Next, ServerThread, ReceiveThread, Add

-----------------------------------------------------------------------------
(* Sockets.                                                                *)

LEMMA SocketsInit == Init => Sockets
  BY DEF Init, Sockets, Closing, Queued

(* A connection that was queued still is, one that was not is not added.   *)
LEMMA SocketsKept ==
  ASSUME Types, Sockets, backlog' = backlog,
         \A c \in Conn : Closing(conn'[c]) /\ (Queued(conn[c]) => Queued(conn'[c]))
  PROVE  Sockets'
<1>1. \A k \in 1 .. Len(backlog) : backlog[k] \in Conn
  BY DEF Types
<1> QED BY <1>1 DEF Sockets

LEMMA SocketsStep == Types /\ Places /\ Sockets /\ [Next]_vars => Sockets'
<1> SUFFICES ASSUME Types, Places, Sockets, [Next]_vars PROVE Sockets'
  OBVIOUS
<1>1. \A c \in Conn : conn[c] \in ConnType /\ Closing(conn[c])
  BY DEF Types, Sockets
<1>2. backlog \in Seq(Conn) /\ Len(backlog) \in Nat /\ \A k \in 1 .. Len(backlog) : backlog[k] \in Conn
  BY DEF Types
<1>3. ASSUME NEW c \in Conn, Connect(c) PROVE Sockets'
  <2>1. conn[c].peer = "none"
    BY <1>3 DEF Connect
  <2>2. \A k \in 1 .. Len(backlog) : backlog[k] # c
    BY <2>1 DEF Sockets, Queued
  <2>3. \A d \in Conn : conn'[d] = IF d = c THEN [conn[c] EXCEPT !.peer = "open"] ELSE conn[d]
    BY <1>3, ConnectFields
  <2>4. Closing(conn'[c]) /\ Queued(conn'[c])
    <3>1. conn[c] \in ConnType /\ Closing(conn[c]) /\ conn'[c] = [conn[c] EXCEPT !.peer = "open"]
      BY <1>1, <2>3
    <3> QED BY <2>1, <3>1 DEF ConnType, Closing, Queued
  <2>5. /\ Len(backlog') = Len(backlog) + 1
        /\ \A k \in 1 .. Len(backlog') :
             backlog'[k] = IF k = Len(backlog) + 1 THEN c ELSE backlog[k]
    <3>1. backlog' = Append(backlog, c)
      BY <1>3 DEF Connect
    <3> QED BY <1>2, <3>1, AppendProperties
  <2>6. PICK n \in Nat : n = Len(backlog)
    BY <1>2
  <2>7. \A k \in 1 .. n + 1 : k = n + 1 \/ k \in 1 .. n
    OBVIOUS
  <2>8. \A d \in Conn : Closing(conn'[d])
    BY <1>1, <2>3, <2>4
  <2>9. \A k \in 1 .. Len(backlog') : Queued(conn'[backlog'[k]])
    <3> SUFFICES ASSUME NEW k \in 1 .. n + 1 PROVE Queued(conn'[backlog'[k]])
      BY <2>5, <2>6
    <3>1. CASE k = n + 1
      BY <2>4, <2>5, <2>6, <3>1
    <3>2. CASE k # n + 1
      <4>1. k \in 1 .. Len(backlog) /\ backlog'[k] = backlog[k]
        BY <2>5, <2>6, <2>7, <3>2
      <4>2. Queued(conn[backlog[k]]) /\ backlog[k] \in Conn /\ backlog[k] # c
        BY <1>2, <2>2, <4>1 DEF Sockets
      <4> QED BY <2>3, <4>1, <4>2
    <3> QED BY <3>1, <3>2
  <2>10. ASSUME NEW j \in 1 .. Len(backlog'), NEW k \in 1 .. Len(backlog'), backlog'[j] = backlog'[k]
         PROVE  j = k
    <3>1. /\ j = n + 1 \/ j \in 1 .. Len(backlog)
          /\ k = n + 1 \/ k \in 1 .. Len(backlog)
      BY <2>5, <2>6, <2>7
    <3>2. /\ j \in 1 .. Len(backlog) /\ j # n + 1 => backlog'[j] = backlog[j] /\ backlog[j] # c
          /\ k \in 1 .. Len(backlog) /\ k # n + 1 => backlog'[k] = backlog[k] /\ backlog[k] # c
          /\ j = n + 1 => backlog'[j] = c
          /\ k = n + 1 => backlog'[k] = c
      BY <2>2, <2>5, <2>6
    <3> QED BY <2>10, <3>1, <3>2 DEF Sockets
  <2> QED BY <2>8, <2>9, <2>10 DEF Sockets
<1>4. CASE DeinitTCPServer
  <2>1. backlog' = <<>>
    BY <1>4 DEF DeinitTCPServer
  <2>2. ASSUME NEW d \in Conn PROVE Closing(conn'[d])
    <3>1. conn'[d] = conn[d] \/ conn'[d] = [conn[d] EXCEPT !.peer = "closed"]
      BY <1>4, DeinitFields
    <3>2. conn[d] \in ConnType /\ Closing(conn[d])
      BY <1>1
    <3> QED BY <3>1, <3>2 DEF ConnType, Closing
  <2> QED BY <2>1, <2>2 DEF Sockets
<1>5. CASE Accept
  <2>1. CASE init = "closed"
    BY <1>1, <1>5, <2>1, SocketsKept DEF Accept
  <2>2. CASE init # "closed"
    <3>1. PICK c \in Conn :
            /\ backlog # <<>> /\ c = backlog[1] /\ backlog' = Tail(backlog)
            /\ \A d \in Conn : conn'[d] = IF d = c THEN [conn[c] EXCEPT !.sock = "open"] ELSE conn[d]
      BY <1>5, <2>2, AcceptFields
    <3>2. PICK n \in Nat : n = Len(backlog)
      BY <1>2
    <3>3. /\ n # 0 /\ Len(backlog') = n - 1
          /\ \A k \in 1 .. n - 1 : backlog'[k] = backlog[k + 1]
      BY <1>2, <3>1, <3>2, HeadTailProperties
    <3>4. 1 \in 1 .. n /\ \A k \in 1 .. n - 1 : k + 1 \in 1 .. n /\ k + 1 # 1
      BY <3>3
    <3>5. Queued(conn[c])
      BY <3>1, <3>2, <3>4 DEF Sockets
    <3>6. ASSUME NEW d \in Conn PROVE Closing(conn'[d])
      <4>1. conn[d] \in ConnType /\ Closing(conn[d])
        BY <1>1
      <4>2. conn'[d] = IF d = c THEN [conn[d] EXCEPT !.sock = "open"] ELSE conn[d]
        BY <3>1
      <4>3. d = c => Queued(conn[d])
        BY <3>5
      <4> QED BY <4>1, <4>2, <4>3 DEF ConnType, Closing, Queued
    <3>7. ASSUME NEW k \in 1 .. n - 1 PROVE Queued(conn'[backlog'[k]])
      <4>1. backlog'[k] = backlog[k + 1] /\ k + 1 \in 1 .. Len(backlog) /\ k + 1 # 1
        BY <3>2, <3>3, <3>4
      <4>2. backlog[k + 1] \in Conn /\ Queued(conn[backlog[k + 1]]) /\ backlog[k + 1] # c
        BY <1>2, <3>1, <3>2, <3>4, <4>1 DEF Sockets
      <4> QED BY <3>1, <4>1, <4>2
    <3>8. ASSUME NEW j \in 1 .. n - 1, NEW k \in 1 .. n - 1, backlog'[j] = backlog'[k] PROVE j = k
      <4>1. j + 1 \in 1 .. Len(backlog) /\ k + 1 \in 1 .. Len(backlog)
            /\ backlog[j + 1] = backlog[k + 1]
        BY <3>2, <3>3, <3>4, <3>8
      <4>2. j + 1 = k + 1
        BY <4>1 DEF Sockets
      <4> QED BY <4>2
    <3> QED BY <3>3, <3>6, <3>7, <3>8 DEF Sockets
  <2> QED BY <2>1, <2>2
<1>6. ASSUME NEW c \in Conn, PeerSends(c) PROVE Sockets'
  <2>1. ASSUME NEW d \in Conn PROVE Closing(conn'[d]) /\ (Queued(conn[d]) => Queued(conn'[d]))
    <3>1. conn'[d] = IF d = c THEN [conn[d] EXCEPT !.wire = conn[d].wire + 1] ELSE conn[d]
      BY <1>6, PeerSendsFields
    <3>2. conn[d] \in ConnType /\ Closing(conn[d])
      BY <1>1
    <3> QED BY <3>1, <3>2 DEF ConnType, Closing, Queued
  <2> QED BY <1>6, <2>1, SocketsKept DEF PeerSends
<1>7. ASSUME NEW c \in Conn, PeerCloses(c) PROVE Sockets'
  <2>1. ASSUME NEW d \in Conn PROVE Closing(conn'[d]) /\ (Queued(conn[d]) => Queued(conn'[d]))
    <3>1. conn'[d] = IF d = c THEN [conn[d] EXCEPT !.peer = "closed"] ELSE conn[d]
      BY <1>7, PeerClosesFields
    <3>2. conn[d] \in ConnType /\ Closing(conn[d])
      BY <1>1
    <3> QED BY <3>1, <3>2 DEF ConnType, Closing, Queued
  <2> QED BY <1>7, <2>1, SocketsKept DEF PeerCloses
<1>8. ASSUME NEW created \in BOOLEAN, AcceptConnection(created) PROVE Sockets'
  <2>1. conn[server.conn].sock # "none"
    BY <1>8 DEF Places, AcceptConnection
  <2>2. ASSUME NEW d \in Conn PROVE Closing(conn'[d]) /\ (Queued(conn[d]) => Queued(conn'[d]))
    <3>1. conn'[d] = IF d # server.conn THEN conn[d]
                     ELSE IF created THEN [conn[d] EXCEPT !.netFSM = server.fsm, !.thread = "recv"]
                     ELSE [conn[d] EXCEPT !.sock = "closed", !.wire = 0]
      BY <1>8, AcceptConnectionFields
    <3>2. conn[d] \in ConnType /\ Closing(conn[d]) /\ (d = server.conn => conn[d].sock # "none")
      BY <1>1, <2>1
    <3> QED BY <3>1, <3>2 DEF ConnType, Closing, Queued
  <2> QED BY <1>8, <2>2, SocketsKept DEF AcceptConnection
<1>9. ASSUME NEW c \in Conn, Receive(c) PROVE Sockets'
  <2>1. conn[c].sock = "open"
    BY <1>9 DEF Receive
  <2>2. ASSUME NEW d \in Conn PROVE Closing(conn'[d]) /\ (Queued(conn[d]) => Queued(conn'[d]))
    <3>1. conn'[d] = IF d = c THEN [conn[d] EXCEPT !.wire = conn[d].wire - 1, !.thread = "convert"]
                     ELSE conn[d]
      BY <1>9, ReceiveFields
    <3>2. conn[d] \in ConnType /\ Closing(conn[d]) /\ (d = c => conn[d].sock = "open")
      BY <1>1, <2>1
    <3> QED BY <3>1, <3>2 DEF ConnType, Closing, Queued
  <2> QED BY <1>9, <2>2, SocketsKept DEF Receive
<1>10. ASSUME NEW c \in Conn, Convert(c) PROVE Sockets'
  <2>1. conn[c].thread = "convert"
    BY <1>10 DEF Convert
  <2>2. ASSUME NEW d \in Conn PROVE Closing(conn'[d]) /\ (Queued(conn[d]) => Queued(conn'[d]))
    <3>1. conn'[d] = IF d = c THEN [conn[d] EXCEPT !.thread = "recv", !.stale =
                                      IF conn[d].killed THEN conn[d].stale + 1 ELSE conn[d].stale]
                     ELSE conn[d]
      BY <1>10, ConvertFields
    <3>2. conn[d] \in ConnType /\ Closing(conn[d]) /\ (d = c => conn[d].thread = "convert")
      BY <1>1, <2>1
    <3> QED BY <3>1, <3>2 DEF ConnType, Closing, Queued
  <2> QED BY <1>10, <2>2, SocketsKept DEF Convert
<1>11. ASSUME NEW c \in Conn, ReceiveEnd(c) PROVE Sockets'
  <2>1. conn[c].sock = "open"
    BY <1>11 DEF ReceiveEnd
  <2>2. ASSUME NEW d \in Conn PROVE Closing(conn'[d]) /\ (Queued(conn[d]) => Queued(conn'[d]))
    <3>1. conn'[d] = IF d = c THEN [conn[d] EXCEPT !.sock = "closed"] ELSE conn[d]
      BY <1>11, ReceiveEndFields
    <3>2. conn[d] \in ConnType /\ Closing(conn[d]) /\ (d = c => conn[d].sock = "open")
      BY <1>1, <2>1
    <3> QED BY <3>1, <3>2 DEF ConnType, Closing, Queued
  <2> QED BY <1>11, <2>2, SocketsKept DEF ReceiveEnd
<1>12. ASSUME NEW a \in Automate, EndCall(a) PROVE Sockets'
  <2>1. conn[fsm[a].call].thread # "none"
    BY <1>12 DEF EndCall
  <2>2. ASSUME NEW d \in Conn PROVE Closing(conn'[d]) /\ (Queued(conn[d]) => Queued(conn'[d]))
    <3>1. conn'[d] = IF d = fsm[a].call
                       THEN [conn[d] EXCEPT !.killed = TRUE, !.sock = "closed", !.wire = 0]
                     ELSE conn[d]
      BY <1>12, EndCallFields
    <3>2. conn[d] \in ConnType /\ Closing(conn[d]) /\ (d = fsm[a].call => conn[d].thread # "none")
      BY <1>1, <2>1
    <3> QED BY <3>1, <3>2 DEF ConnType, Closing, Queued
  <2> QED BY <1>12, <2>2, SocketsKept DEF EndCall
<1>13. CASE UNCHANGED <<conn, backlog>>
  BY <1>1, <1>13, SocketsKept
<1>14. CASE \/ \E created \in BOOLEAN : InitTCPServer(created)
            \/ StoreAutomateType \/ GetHead \/ GetUnlink \/ GetClear \/ GetTail \/ GetLoad \/ GetStore
            \/ StoreClient \/ Add \/ UNCHANGED vars
            \/ \E a \in Automate, answers \in BOOLEAN : Process(a, answers)
  BY <1>13, <1>14 DEF InitTCPServer, StoreAutomateType, GetHead, GetUnlink, GetClear, GetTail, GetLoad,
                      GetStore, GetStep, StoreClient, Add, AddTest, AddLink, AddTail, AddLoad, AddStore,
                      AddStep, vars, Process
<1> QED
  BY <1>3, <1>4, <1>5, <1>6, <1>7, <1>8, <1>9, <1>10, <1>11, <1>12, <1>14
  DEF Next, ServerThread, ReceiveThread

-----------------------------------------------------------------------------
(* Calls.                                                                  *)

LEMMA CallsInit == Init => Calls
  BY DEF Init, Calls, Waiting

LEMMA CallsKept ==
  ASSUME Places, Calls,
         \A a \in Automate : fsm'[a].call = fsm[a].call /\ fsm'[a].client = fsm[a].client,
         \/ server' = server
         \/ server.pc \notin {"start", "client", "ended"} /\ server'.pc \notin {"start", "client"}
         \/ /\ server.pc = "start" /\ server'.pc \in {"client", "ended"}
            /\ server'.fsm = server.fsm /\ server'.conn = server.conn
  PROVE  Calls'
<1>1. \A a \in Automate : Handed(a) => Handed(a)'
  BY DEF Handed
<1>2. server.pc \in {"start", "client"} => server.fsm \in Automate
  BY DEF Places
<1>3. server'.pc \in {"start", "client"} => fsm'[server'.fsm].call \in {None, server'.conn}
  BY <1>2 DEF Calls
<1> QED BY <1>1, <1>3 DEF Calls

LEMMA CallsStep == Types /\ Places /\ Started /\ Calls /\ [Next]_vars => Calls'
<1> SUFFICES ASSUME Types, Places, Started, Calls, [Next]_vars PROVE Calls'
  OBVIOUS
<1>1. CASE UNCHANGED <<server, fsm>>
  BY <1>1, CallsKept
<1>2. CASE \/ \E c \in Conn : Connect(c) \/ PeerSends(c) \/ PeerCloses(c) \/ Receive(c) \/ ReceiveEnd(c)
           \/ StoreAutomateType \/ DeinitTCPServer \/ Add \/ UNCHANGED vars
  BY <1>1, <1>2 DEF Connect, PeerSends, PeerCloses, Receive, ReceiveEnd, StoreAutomateType,
                    DeinitTCPServer, Add, AddTest, AddLink, AddTail, AddLoad, AddStore, AddStep, vars
<1>3. ASSUME NEW c \in Conn, Convert(c) PROVE Calls'
  BY <1>3, ConvertFields, CallsKept DEF Convert
<1>4. ASSUME NEW a \in Automate, NEW answers \in BOOLEAN, Process(a, answers) PROVE Calls'
  BY <1>4, ProcessFields, CallsKept DEF Process
<1>5. ASSUME NEW created \in BOOLEAN, InitTCPServer(created) PROVE Calls'
  <2>1. server.pc = "none" /\ (server' = Waiting \/ server' = server) /\ fsm' = fsm
    BY <1>5 DEF InitTCPServer, Started
  <2>2. server' = Waiting => server'.pc = "accept"
    BY DEF Waiting
  <2> QED BY <2>1, <2>2, CallsKept
<1>6. CASE Accept
  <2>1. fsm' = fsm /\ server.pc = "accept"
    BY <1>6 DEF Accept
  <2>2. server'.pc \in {"ended", "get"}
    <3>1. CASE init = "closed"
      BY <1>6, <3>1, GotoFields DEF Accept, ServerPc
    <3>2. CASE init # "closed"
      BY <1>6, <3>2, AcceptFields
    <3> QED BY <3>1, <3>2
  <2> QED BY <2>1, <2>2, CallsKept
<1>7. CASE GetHead
  BY <1>7, GetHeadFields, CallsKept DEF GetHead
<1>8. CASE GetUnlink
  BY <1>8, GetUnlinkFields, CallsKept DEF GetUnlink
<1>9. CASE GetClear
  BY <1>9, GetClearFields, CallsKept DEF GetClear
<1>10. CASE GetTail
  BY <1>10, GetTailFields, CallsKept DEF GetTail
<1>11. CASE GetLoad
  BY <1>11, GetLoadFields, CallsKept DEF GetLoad
<1>12. CASE GetStore
  <2>1. server.pc = "store"
    BY <1>12 DEF GetStore
  <2>2. /\ server.fsm \in Automate /\ server'.pc = "start" /\ server'.conn = server.conn
        /\ server'.fsm = server.fsm
        /\ \A a \in Automate : /\ fsm'[a].call = IF a = server.fsm THEN server.conn ELSE fsm[a].call
                               /\ fsm'[a].client = fsm[a].client
    BY <1>12, GetStoreFields
  <2>3. \A a \in Automate : ~ Handed(a) /\ (Handed(a)' <=> a = server.fsm)
    BY <2>1, <2>2 DEF Handed
  <2>4. \A a \in Automate : fsm'[a].call # None /\ ~ Handed(a)' => fsm'[a].client = fsm'[a].call
    BY <2>2, <2>3 DEF Calls
  <2> QED BY <2>2, <2>4 DEF Calls
<1>13. ASSUME NEW created \in BOOLEAN, AcceptConnection(created) PROVE Calls'
  <2>1. server.pc = "start"
    BY <1>13 DEF AcceptConnection
  <2>2. /\ server'.pc \in {"client", "ended"} /\ server'.fsm = server.fsm
        /\ server'.conn = server.conn
    BY <1>13, GotoFields DEF AcceptConnection, ServerPc
  <2> QED BY <1>13, <2>1, <2>2, AcceptConnectionFields, CallsKept
<1>14. CASE StoreClient
  <2>1. server.pc = "client"
    BY <1>14 DEF StoreClient
  <2>2. /\ server.fsm \in Automate /\ server'.pc = "accept"
        /\ \A a \in Automate :
             /\ fsm'[a].call = fsm[a].call
             /\ fsm'[a].client = IF a = server.fsm THEN server.conn ELSE fsm[a].client
    BY <1>14, StoreClientFields
  <2>3. fsm[server.fsm].call \in {None, server.conn}
    BY <2>1 DEF Calls
  <2>4. \A a \in Automate : a # server.fsm => ~ Handed(a)
    BY DEF Handed
  <2>5. \A a \in Automate : fsm'[a].call # None => fsm'[a].client = fsm'[a].call
    BY <2>2, <2>3, <2>4 DEF Calls
  <2> QED BY <2>2, <2>5 DEF Calls
<1>15. ASSUME NEW a \in Automate, EndCall(a) PROVE Calls'
  <2>1. server' = server
    BY <1>15 DEF EndCall
  <2>2. \A b \in Automate : /\ fsm'[b].call = IF b = a THEN None ELSE fsm[b].call
                            /\ fsm'[b].client = fsm[b].client
    BY <1>15, EndCallFields
  <2>3. server.pc \in {"start", "client"} => server.fsm \in Automate
    BY DEF Places
  <2>4. \A b \in Automate : Handed(b)' = Handed(b)
    BY <2>1 DEF Handed
  <2>5. \A b \in Automate : fsm'[b].call # None /\ ~ Handed(b)' => fsm'[b].client = fsm'[b].call
    BY <2>2, <2>4 DEF Calls
  <2>6. server'.pc \in {"start", "client"} => fsm'[server'.fsm].call \in {None, server'.conn}
    BY <2>1, <2>2, <2>3 DEF Calls
  <2> QED BY <2>5, <2>6 DEF Calls
<1> QED
  BY <1>2, <1>3, <1>4, <1>5, <1>6, <1>7, <1>8, <1>9, <1>10, <1>11, <1>12, <1>13, <1>14, <1>15
  DEF Next, ServerThread, ReceiveThread

-----------------------------------------------------------------------------
(* The list as a sequence.                                                 *)

(* Taking the first automate and adding one at the end.                    *)
LEMMA WithoutFirst ==
  ASSUME NEW q \in Seq(Automate), NEW S, q # <<>>, Elements(q, S)
  PROVE  /\ Tail(q) \in Seq(Automate) /\ Len(Tail(q)) = Len(q) - 1 /\ Len(q) \in Nat /\ Len(q) # 0
         /\ \A k \in 1 .. Len(Tail(q)) : Tail(q)[k] = q[k + 1] /\ k + 1 \in 1 .. Len(q)
         /\ q[1] \in S /\ q[1] \in Automate /\ \A k \in 1 .. Len(Tail(q)) : Tail(q)[k] # q[1]
         /\ Elements(Tail(q), S \ {q[1]})
<1>1. PICK n \in Nat : n = Len(q)
  OBVIOUS
<1>2. /\ Tail(q) \in Seq(Automate) /\ Len(Tail(q)) = n - 1 /\ n # 0
      /\ \A k \in 1 .. n - 1 : Tail(q)[k] = q[k + 1]
  BY <1>1, HeadTailProperties
<1>3. /\ 1 \in 1 .. n /\ \A k \in 1 .. n - 1 : k + 1 \in 1 .. n /\ k + 1 # 1
      /\ \A k \in 1 .. n : k = 1 \/ k - 1 \in 1 .. n - 1
  BY <1>2
<1>4. /\ \A j, k \in 1 .. n : q[j] = q[k] => j = k
      /\ \A a \in Automate : a \in S <=> \E k \in 1 .. n : q[k] = a
      /\ \A k \in 1 .. n : q[k] \in Automate
  BY <1>1 DEF Elements, Distinct
<1>5. q[1] \in S /\ q[1] \in Automate
  BY <1>3, <1>4
<1>6. \A k \in 1 .. n - 1 : Tail(q)[k] # q[1]
  BY <1>2, <1>3, <1>4
<1>7. ASSUME NEW j \in 1 .. n - 1, NEW k \in 1 .. n - 1, Tail(q)[j] = Tail(q)[k] PROVE j = k
  <2>1. q[j + 1] = q[k + 1] /\ j + 1 \in 1 .. n /\ k + 1 \in 1 .. n
    BY <1>2, <1>3, <1>7
  <2>2. j + 1 = k + 1
    BY <1>4, <2>1
  <2> QED BY <2>2
<1>8. ASSUME NEW a \in Automate
      PROVE  a \in S \ {q[1]} <=> \E k \in 1 .. n - 1 : Tail(q)[k] = a
  <2>1. ASSUME a \in S \ {q[1]} PROVE \E k \in 1 .. n - 1 : Tail(q)[k] = a
    <3>1. PICK k \in 1 .. n : q[k] = a /\ k # 1
      BY <1>4, <2>1
    <3>2. k - 1 \in 1 .. n - 1 /\ (k - 1) + 1 = k
      BY <1>3, <3>1
    <3>3. Tail(q)[k - 1] = a
      BY <1>2, <3>1, <3>2
    <3> QED BY <3>2, <3>3
  <2>2. ASSUME NEW k \in 1 .. n - 1, Tail(q)[k] = a PROVE a \in S \ {q[1]}
    BY <1>2, <1>3, <1>4, <1>6, <2>2
  <2> QED BY <2>1, <2>2
<1>9. Elements(Tail(q), S \ {q[1]})
  BY <1>2, <1>7, <1>8 DEF Elements, Distinct
<1> QED BY <1>1, <1>2, <1>3, <1>5, <1>6, <1>9

LEMMA WithLast ==
  ASSUME NEW q \in Seq(Automate), NEW S, NEW s \in Automate, s \in S, Elements(q, S \ {s})
  PROVE  /\ Append(q, s) \in Seq(Automate) /\ Len(Append(q, s)) = Len(q) + 1 /\ Len(q) \in Nat
         /\ \A k \in 1 .. Len(q) : Append(q, s)[k] = q[k] /\ q[k] # s
         /\ Append(q, s)[Len(q) + 1] = s
         /\ Elements(Append(q, s), S)
<1>1. PICK n \in Nat : n = Len(q)
  OBVIOUS
<1>2. PICK r : r = Append(q, s)
  OBVIOUS
<1>3. /\ r \in Seq(Automate) /\ Len(r) = n + 1 /\ r[n + 1] = s
      /\ \A k \in 1 .. n : r[k] = q[k]
  BY <1>1, <1>2, AppendProperties
<1>4. /\ n + 1 \in 1 .. n + 1 /\ \A k \in 1 .. n : k \in 1 .. n + 1
      /\ \A k \in 1 .. n + 1 : k = n + 1 \/ k \in 1 .. n
  OBVIOUS
<1>5. /\ \A j, k \in 1 .. n : q[j] = q[k] => j = k
      /\ \A a \in Automate : a \in S \ {s} <=> \E k \in 1 .. n : q[k] = a
      /\ \A k \in 1 .. n : q[k] \in Automate
  BY <1>1 DEF Elements, Distinct
<1>6. \A k \in 1 .. n : q[k] # s
  BY <1>5
<1>7. ASSUME NEW j \in 1 .. n + 1, NEW k \in 1 .. n + 1, r[j] = r[k] PROVE j = k
  BY <1>3, <1>4, <1>5, <1>6, <1>7
<1>8. ASSUME NEW a \in Automate
      PROVE  a \in S <=> \E k \in 1 .. n + 1 : r[k] = a
  <2>1. ASSUME a \in S PROVE \E k \in 1 .. n + 1 : r[k] = a
    <3>1. CASE a = s
      BY <1>3, <1>4, <3>1
    <3>2. CASE a # s
      <4>1. PICK k \in 1 .. n : q[k] = a
        BY <1>5, <2>1, <3>2
      <4> QED BY <1>3, <1>4, <4>1
    <3> QED BY <3>1, <3>2
  <2>2. ASSUME NEW k \in 1 .. n + 1, r[k] = a PROVE a \in S
    BY <1>3, <1>4, <1>5, <2>2
  <2> QED BY <2>1, <2>2
<1>9. Elements(r, S)
  BY <1>3, <1>7, <1>8 DEF Elements, Distinct
<1> QED BY <1>1, <1>2, <1>3, <1>6, <1>9

(* The places of a sequence's elements.                                    *)
LEMMA LastOf ==
  ASSUME NEW q \in Seq(Automate)
  PROVE  /\ Len(q) \in Nat /\ (q = <<>> <=> Len(q) = 0)
         /\ q # <<>> => Last(q) \in Automate /\ Last(q) = q[Len(q)] /\ Len(q) \in 1 .. Len(q)
                        /\ 1 \in 1 .. Len(q)
         /\ \A k \in 1 .. Len(q) : q[k] \in Automate
<1>1. Len(q) \in Nat /\ (q = <<>> <=> Len(q) = 0) /\ \A k \in 1 .. Len(q) : q[k] \in Automate
  BY EmptySeq
<1>2. q # <<>> => Len(q) \in 1 .. Len(q) /\ 1 \in 1 .. Len(q)
  BY <1>1
<1> QED BY <1>1, <1>2 DEF Last

LEMMA FreeListInit == Init => FreeList
<1> SUFFICES ASSUME Init PROVE FreeList
  OBVIOUS
<1>1. /\ Order \in Seq(Automate) /\ Order # <<>> /\ DOMAIN Order = 1 .. Len(Order)
      /\ IsInjective(Order) /\ Range(Order) = Automate
  BY NetServerAssumption
<1>2. \A a \in Automate : a \in Free
  BY DEF Init, Free
<1>3. Elements(Order, Free)
  <2>1. \A j, k \in 1 .. Len(Order) : Order[j] = Order[k] => j = k
    BY <1>1 DEF IsInjective
  <2>2. \A a \in Automate : \E k \in 1 .. Len(Order) : Order[k] = a
    BY <1>1 DEF Range
  <2> QED BY <1>2, <2>1, <2>2 DEF Elements, Distinct
<1>4. /\ list.head = Order[1] /\ list.tail = Order[Len(Order)] /\ list.count = Len(Order)
      /\ \A k \in 1 .. Len(Order) :
           list.next[Order[k]] = IF k = Len(Order) THEN Null ELSE Order[k + 1]
  BY FirstLinks
<1>5. server.pc = "none" /\ system.pc = "idle"
  BY DEF Init, Waiting, Idle
<1>6. Linked(Order) /\ Between(Order)
  BY <1>1, <1>3, <1>4, <1>5 DEF Linked, Between, Last
<1> QED BY <1>1, <1>5, <1>6 DEF FreeList, ListIs

(* What is known after a step was known before it, and Get and Add then    *)
(* ran alone.                                                              *)
LEMMA KnownBefore ==
  ASSUME Types, Started, [Next]_vars, Known'
  PROVE  /\ Known
         /\ GetHead \/ GetUnlink \/ GetClear \/ GetTail \/ GetLoad \/ GetStore => ~ AddRuns
         /\ Add => ~ GetRuns
<1>1. ~ overlapped' /\ ~ down' /\ overlapped \in BOOLEAN /\ down \in BOOLEAN
  BY DEF Known, Types
<1>2. CASE GetHead \/ GetUnlink \/ GetClear \/ GetTail \/ GetLoad \/ GetStore
  <2>1. overlapped' = (overlapped \/ AddRuns) /\ ~ down
    BY <1>2 DEF GetHead, GetUnlink, GetClear, GetTail, GetLoad, GetStore, GetStep, Run
  <2>2. ~ Add
    <3>1. system' = system
      BY <1>2 DEF GetHead, GetUnlink, GetClear, GetTail, GetLoad, GetStore, GetStep
    <3>2. ~ AddRuns
      BY <1>1, <2>1
    <3> QED BY <3>2 DEF Add, AddTest, AddLink, AddTail, AddLoad, AddStore, AddRuns
  <2> QED BY <1>1, <2>1, <2>2 DEF Known
<1>3. CASE Add
  <2>1. overlapped' = (overlapped \/ GetRuns) /\ ~ down
    BY <1>3 DEF Add, AddTest, AddLink, AddTail, AddLoad, AddStore, AddStep, Run
  <2>2. AddRuns
    BY <1>3 DEF Add, AddTest, AddLink, AddTail, AddLoad, AddStore, AddRuns
  <2>3. GetHead \/ GetUnlink \/ GetClear \/ GetTail \/ GetLoad \/ GetStore => overlapped'
    BY <2>2 DEF GetHead, GetUnlink, GetClear, GetTail, GetLoad, GetStore, GetStep
  <2> QED BY <1>1, <2>1, <2>3 DEF Known
<1>4. CASE ~ (GetHead \/ GetUnlink \/ GetClear \/ GetTail \/ GetLoad \/ GetStore) /\ ~ Add
  <2>1. overlapped' = overlapped /\ (~ down \/ down' = down)
    BY <1>4 DEF Next, ServerThread, ReceiveThread, Connect, PeerSends, PeerCloses, InitTCPServer,
                StoreAutomateType, DeinitTCPServer, Accept, AcceptConnection, StoreClient, Receive,
                Convert, ReceiveEnd, Process, EndCall, Run, vars
  <2>2. GetRuns /\ AddRuns => GetRuns' /\ AddRuns'
    <3> SUFFICES ASSUME GetRuns, AddRuns PROVE GetRuns' /\ AddRuns'
      OBVIOUS
    <3>1. ~ Accept /\ ~ StoreClient /\ \A created \in BOOLEAN : ~ AcceptConnection(created)
      BY DEF GetRuns, Accept, StoreClient, AcceptConnection
    <3>2. \A a \in Automate : ~ EndCall(a)
      BY DEF AddRuns, EndCall
    <3>3. CASE \E created \in BOOLEAN : InitTCPServer(created)
      <4>1. system' = system /\ (server' = server \/ (server' = Waiting /\ init = "none"))
        BY <3>3 DEF InitTCPServer
      <4>2. init # "none"
        BY DEF Started, GetRuns
      <4>3. server' = server
        BY <3>3, <4>1, <4>2
      <4> QED BY <4>1, <4>3 DEF GetRuns, AddRuns
    <3>4. CASE ~ \E created \in BOOLEAN : InitTCPServer(created)
      <4>1. UNCHANGED <<server, system>>
        BY <1>4, <3>1, <3>2, <3>4
        DEF Next, ServerThread, ReceiveThread, Connect, PeerSends, PeerCloses, StoreAutomateType,
            DeinitTCPServer, Receive, Convert, ReceiveEnd, Process, vars
      <4> QED BY <4>1 DEF GetRuns, AddRuns
    <3> QED BY <3>3, <3>4
  <2> QED BY <1>1, <1>4, <2>1, <2>2 DEF Known
<1> QED BY <1>2, <1>3, <1>4

LEMMA FreeKept ==
  ASSUME \A a \in Automate : fsm'[a].call = fsm[a].call
  PROVE  Free' = Free
  BY DEF Free

(* Steps that change neither the list nor what Get and Add hold.           *)
LEMMA FreeListKept ==
  ASSUME Known, FreeList, UNCHANGED <<list, system>>,
         \A a \in Automate : fsm'[a].call = fsm[a].call,
         \/ server' = server
         \/ /\ server.pc \notin {"unlink", "clear", "tail", "load", "store"}
            /\ server'.pc \notin {"unlink", "clear", "tail", "load", "store"}
  PROVE  FreeList'
<1>1. PICK q \in Seq(Automate) : ListIs(q)
  BY DEF FreeList
<1>2. Free' = Free
  BY FreeKept
<1>3. Linked(q)' /\ (Appended(q) => Appended(q)') /\ (InAdd(q) => InAdd(q)')
  BY <1>1, <1>2 DEF ListIs, Linked, Appended, InAdd
<1>4. Between(q) => Between(q)'
  BY <1>2 DEF Between
<1>5. server.pc \in {"clear", "tail", "load", "store"} /\ InGet(q) => InGet(q)'
  BY <1>2 DEF InGet
<1>6. server'.pc \in {"clear", "tail", "load", "store"} <=> server.pc \in {"clear", "tail", "load", "store"}
  OBVIOUS
<1>7. ListIs(q)'
  BY <1>1, <1>3, <1>4, <1>5, <1>6 DEF ListIs
<1> QED BY <1>7 DEF FreeList

LEMMA FreeListStep ==
  Types /\ Places /\ Started /\ Pointers /\ FreeList /\ [Next]_vars => FreeList'
<1> SUFFICES ASSUME Types, Places, Started, Pointers, FreeList, [Next]_vars, Known' PROVE FreeList'
  BY DEF FreeList
<1>1. /\ Known
      /\ GetHead \/ GetUnlink \/ GetClear \/ GetTail \/ GetLoad \/ GetStore => ~ AddRuns
      /\ Add => ~ GetRuns
  BY KnownBefore
<1>2. PICK q \in Seq(Automate) : ListIs(q)
  BY <1>1 DEF FreeList
<1>3. PICK n \in Nat :
        /\ n = Len(q) /\ (q = <<>> <=> n = 0)
        /\ q # <<>> => Last(q) \in Automate /\ Last(q) = q[n] /\ n \in 1 .. n /\ 1 \in 1 .. n
        /\ \A k \in 1 .. n : q[k] \in Automate
  BY LastOf
<1>4. system.pc \in SystemPc /\ Null \notin Automate
  BY NetServerAssumption DEF Types, SystemType
<1>5. GetHead \/ GetUnlink \/ GetClear \/ GetTail \/ GetLoad \/ GetStore =>
        system.pc = "idle" /\ system' = system
  <2>1. ~ AddRuns => system.pc = "idle"
    BY <1>4 DEF AddRuns, SystemPc
  <2> QED BY <1>1, <2>1 DEF GetHead, GetUnlink, GetClear, GetTail, GetLoad, GetStore, GetStep
<1>6. ASSUME NEW r \in Seq(Automate), ListIs(r)' PROVE FreeList'
  BY <1>6 DEF FreeList
<1>7. CASE UNCHANGED <<list, server, system, fsm>>
  BY <1>1, <1>7, FreeListKept
<1>8. CASE \/ \E c \in Conn : Connect(c) \/ PeerSends(c) \/ PeerCloses(c) \/ Receive(c) \/ ReceiveEnd(c)
           \/ StoreAutomateType \/ DeinitTCPServer \/ UNCHANGED vars
  BY <1>7, <1>8 DEF Connect, PeerSends, PeerCloses, Receive, ReceiveEnd, StoreAutomateType,
                    DeinitTCPServer, vars
<1>9. ASSUME NEW c \in Conn, Convert(c) PROVE FreeList'
  BY <1>1, <1>9, ConvertFields, FreeListKept DEF Convert
<1>10. ASSUME NEW a \in Automate, NEW answers \in BOOLEAN, Process(a, answers) PROVE FreeList'
  BY <1>1, <1>10, ProcessFields, FreeListKept DEF Process
<1>11. ASSUME NEW created \in BOOLEAN, InitTCPServer(created) PROVE FreeList'
  <2>1. server.pc = "none" /\ (server' = Waiting \/ server' = server) /\ UNCHANGED <<list, system, fsm>>
    BY <1>11 DEF InitTCPServer, Started
  <2>2. server' = Waiting => server'.pc = "accept"
    BY DEF Waiting
  <2> QED BY <1>1, <2>1, <2>2, FreeListKept
<1>12. CASE Accept
  <2>1. UNCHANGED <<list, system, fsm>> /\ server.pc = "accept"
    BY <1>12 DEF Accept
  <2>2. server'.pc \in {"ended", "get"}
    <3>1. CASE init = "closed"
      BY <1>12, <3>1, GotoFields DEF Accept, ServerPc
    <3>2. CASE init # "closed"
      BY <1>12, <3>2, AcceptFields
    <3> QED BY <3>1, <3>2
  <2> QED BY <1>1, <2>1, <2>2, FreeListKept
<1>13. ASSUME NEW created \in BOOLEAN, AcceptConnection(created) PROVE FreeList'
  <2>1. UNCHANGED <<list, system>> /\ server.pc = "start"
    BY <1>13 DEF AcceptConnection
  <2>2. server'.pc \in {"client", "ended"}
    BY <1>13, GotoFields DEF AcceptConnection, ServerPc
  <2> QED BY <1>1, <1>13, <2>1, <2>2, AcceptConnectionFields, FreeListKept
<1>14. CASE StoreClient
  <2>1. UNCHANGED <<list, system>> /\ server.pc = "client"
    BY <1>14 DEF StoreClient
  <2> QED BY <1>1, <1>14, <2>1, StoreClientFields, FreeListKept
<1>15. CASE GetHead
  <2>1. UNCHANGED <<list, fsm, system>> /\ system.pc = "idle"
    BY <1>5, <1>15 DEF GetHead, GetStep
  <2>2. server.pc = "get" /\ server'.pc = "unlink" /\ server'.fsm = list.head /\ list.head \in Automate
    <3>1. ~ down'
      BY DEF Known
    <3> QED BY <1>15, <3>1, GetHeadFields
  <2>3. Linked(q) /\ Between(q)
    BY <1>2, <2>1, <2>2 DEF ListIs
  <2>4. q # <<>> /\ list.head = q[1]
    BY <1>4, <2>2, <2>3 DEF Linked
  <2>5. Free' = Free
    BY <2>1, FreeKept
  <2>6. Linked(q)' /\ Between(q)'
    BY <2>1, <2>2, <2>3, <2>4, <2>5 DEF Linked, Between
  <2>7. ListIs(q)'
    BY <2>1, <2>2, <2>6 DEF ListIs
  <2> QED BY <1>6, <2>7
<1>16. CASE GetUnlink
  <2>1. UNCHANGED <<fsm, system>> /\ system.pc = "idle"
    BY <1>5, <1>16 DEF GetUnlink, GetStep
  <2>2. /\ server.pc = "unlink" /\ server'.pc = "clear" /\ server'.fsm = server.fsm
        /\ list'.head = list.next[server.fsm] /\ list'.tail = list.tail
        /\ list'.count = list.count /\ list'.next = list.next
    BY <1>16, GetUnlinkFields
  <2>3. Linked(q) /\ Between(q)
    BY <1>2, <2>1, <2>2 DEF ListIs
  <2>4. /\ Elements(q, Free) /\ q # <<>> /\ server.fsm = q[1] /\ list.tail = Last(q) /\ list.count = n
    BY <1>3, <2>2, <2>3 DEF Between
  <2>5. PICK r \in Seq(Automate) :
          /\ r = Tail(q) /\ Len(r) = n - 1 /\ n # 0
          /\ \A k \in 1 .. n - 1 : r[k] = q[k + 1] /\ k + 1 \in 1 .. n
          /\ q[1] \in Free /\ q[1] \in Automate
          /\ Elements(r, Free \ {q[1]})
    BY <1>3, <2>4, WithoutFirst
  <2>6. \A k \in 1 .. n : list.next[q[k]] = IF k = n THEN Null ELSE q[k + 1]
    BY <1>3, <2>3 DEF Linked
  <2>7. list'.head = IF r = <<>> THEN Null ELSE r[1]
    <3>1. list'.head = IF 1 = n THEN Null ELSE q[1 + 1]
      BY <1>3, <2>2, <2>4, <2>6
    <3>2. CASE n = 1
      <4>1. r = <<>>
        BY <2>5, <3>2, EmptySeq
      <4> QED BY <3>1, <3>2, <4>1
    <3>3. CASE n # 1
      <4>1. 1 \in 1 .. n - 1
        BY <2>5, <3>3
      <4>2. r # <<>> /\ r[1] = q[1 + 1]
        <5>1. Len(r) # 0
          BY <2>5, <3>3
        <5> QED BY <2>5, <4>1, <5>1, LastOf
      <4> QED BY <3>1, <3>3, <4>2
    <3> QED BY <3>2, <3>3
  <2>8. Linked(r)'
    <3>1. ASSUME NEW k \in 1 .. n - 1
          PROVE  list'.next[r[k]] = IF k = n - 1 THEN Null ELSE r[k + 1]
      <4>1. r[k] = q[k + 1] /\ k + 1 \in 1 .. n
        BY <2>5
      <4>2. list'.next[r[k]] = IF k + 1 = n THEN Null ELSE q[(k + 1) + 1]
        BY <2>2, <2>6, <4>1
      <4>3. CASE k = n - 1
        BY <4>2, <4>3
      <4>4. CASE k # n - 1
        <5>1. k + 1 \in 1 .. n - 1 /\ k + 1 # n
          BY <4>4
        <5>2. r[k + 1] = q[(k + 1) + 1]
          BY <2>5, <5>1
        <5> QED BY <4>2, <4>4, <5>1, <5>2
      <4> QED BY <4>3, <4>4
    <3> QED BY <2>5, <2>7, <3>1 DEF Linked
  <2>9. list.tail = IF r = <<>> THEN server.fsm ELSE Last(r)
    <3>1. list.tail = q[n]
      BY <1>3, <2>4
    <3>2. CASE n = 1
      <4>1. r = <<>>
        BY <2>5, <3>2, EmptySeq
      <4> QED BY <2>4, <3>1, <3>2, <4>1
    <3>3. CASE n # 1
      <4>1. n - 1 \in 1 .. n - 1 /\ (n - 1) + 1 = n
        BY <2>5, <3>3
      <4>2. r # <<>> /\ Last(r) = r[n - 1]
        <5>1. Len(r) # 0 /\ Len(r) = n - 1
          BY <2>5, <3>3
        <5> QED BY <5>1, LastOf
      <4>3. r[n - 1] = q[n]
        BY <2>5, <4>1
      <4> QED BY <3>1, <4>2, <4>3
    <3> QED BY <3>2, <3>3
  <2>10. Free' = Free
    BY <2>1, FreeKept
  <2>11. InGet(r)'
    <3>1. list.count = Len(r) + 1
      BY <2>4, <2>5
    <3> QED BY <2>2, <2>4, <2>5, <2>9, <2>10, <3>1 DEF InGet
  <2>12. ListIs(r)'
    BY <2>1, <2>2, <2>8, <2>11 DEF ListIs
  <2> QED BY <1>6, <2>12
<1>17. CASE GetClear
  <2>1. UNCHANGED <<fsm, system>> /\ system.pc = "idle"
    BY <1>5, <1>17 DEF GetClear, GetStep
  <2>2. /\ server.pc = "clear" /\ server'.pc = "tail" /\ server'.fsm = server.fsm
        /\ server.fsm \in Automate
        /\ list'.head = list.head /\ list'.tail = list.tail /\ list'.count = list.count
        /\ \A x \in Automate : list'.next[x] = IF x = server.fsm THEN Null ELSE list.next[x]
    BY <1>17, GetClearFields
  <2>3. Linked(q) /\ InGet(q)
    BY <1>2, <2>1, <2>2 DEF ListIs
  <2>4. \A k \in 1 .. n : q[k] # server.fsm
    BY <1>3, <2>2, <2>3 DEF InGet, Elements
  <2>5. Linked(q)'
    BY <1>3, <2>2, <2>3, <2>4 DEF Linked
  <2>6. Free' = Free
    BY <2>1, FreeKept
  <2>7. InGet(q)'
    BY <2>2, <2>3, <2>6 DEF InGet
  <2>8. ListIs(q)'
    BY <2>1, <2>2, <2>5, <2>7 DEF ListIs
  <2> QED BY <1>6, <2>8
<1>18. CASE GetTail
  <2>1. UNCHANGED <<fsm, system>> /\ system.pc = "idle"
    BY <1>5, <1>18 DEF GetTail, GetStep
  <2>2. /\ server.pc = "tail" /\ server'.pc = "load" /\ server'.fsm = server.fsm
        /\ list'.head = list.head /\ list'.next = list.next /\ list'.count = list.count
        /\ list'.tail = IF list.head = Null THEN Null ELSE list.tail
    BY <1>18, GetTailFields
  <2>3. Linked(q) /\ InGet(q)
    BY <1>2, <2>1, <2>2 DEF ListIs
  <2>4. list.head = Null <=> q = <<>>
    BY <1>3, <1>4, <2>3 DEF Linked
  <2>5. list'.tail = Last(q)
    BY <2>2, <2>3, <2>4 DEF InGet, Last
  <2>6. Linked(q)'
    BY <2>2, <2>3 DEF Linked
  <2>7. Free' = Free
    BY <2>1, FreeKept
  <2>8. InGet(q)'
    BY <2>2, <2>3, <2>5, <2>7 DEF InGet
  <2>9. ListIs(q)'
    BY <2>1, <2>2, <2>6, <2>8 DEF ListIs
  <2> QED BY <1>6, <2>9
<1>19. CASE GetLoad
  <2>1. UNCHANGED <<list, fsm, system>> /\ system.pc = "idle"
    BY <1>5, <1>19 DEF GetLoad, GetStep
  <2>2. /\ server.pc = "load" /\ server'.pc = "store" /\ server'.fsm = server.fsm
        /\ server'.count = list.count
    <3>1. ~ down'
      BY DEF Known
    <3> QED BY <1>19, <3>1, GetLoadFields
  <2>3. Linked(q) /\ InGet(q)
    BY <1>2, <2>1, <2>2 DEF ListIs
  <2>4. Free' = Free
    BY <2>1, FreeKept
  <2>5. Linked(q)' /\ InGet(q)'
    BY <2>1, <2>2, <2>3, <2>4 DEF Linked, InGet
  <2>6. ListIs(q)'
    BY <2>1, <2>2, <2>5 DEF ListIs
  <2> QED BY <1>6, <2>6
<1>20. CASE GetStore
  <2>1. system' = system /\ system.pc = "idle" /\ server.pc = "store"
    BY <1>5, <1>20 DEF GetStore, GetStep
  <2>2. /\ server'.pc = "start" /\ server.fsm \in Automate /\ server.conn \in Conn
        /\ list'.head = list.head /\ list'.next = list.next /\ list'.tail = list.tail
        /\ list'.count = server.count - 1
        /\ \A a \in Automate : fsm'[a].call = IF a = server.fsm THEN server.conn ELSE fsm[a].call
    BY <1>20, GetStoreFields
  <2>3. Linked(q) /\ InGet(q)
    BY <1>2, <2>1 DEF ListIs
  <2>4. server.conn # None
    BY <2>2, NetServerAssumption DEF Conn, None
  <2>5. \A a \in Automate : a \in Free' <=> a \in Free \ {server.fsm}
    BY <2>2, <2>4 DEF Free
  <2>6. Elements(q, Free') /\ list'.tail = Last(q) /\ list'.count = n
    <3>1. server.count = n + 1 /\ list.tail = Last(q)
      BY <1>3, <2>1, <2>3 DEF InGet
    <3>2. Elements(q, Free')
      BY <2>3, <2>5 DEF InGet, Elements
    <3> QED BY <2>2, <3>1, <3>2
  <2>7. Linked(q)' /\ Between(q)'
    BY <1>3, <2>2, <2>3, <2>6 DEF Linked, Between
  <2>8. ListIs(q)'
    BY <2>1, <2>2, <2>7 DEF ListIs
  <2> QED BY <1>6, <2>8
<1>21. ASSUME NEW a \in Automate, EndCall(a) PROVE FreeList'
  <2>1. server' = server /\ system.pc = "idle" /\ fsm[a].call # None
    BY <1>21 DEF EndCall
  <2>2. /\ system'.pc = "test" /\ system'.fsm = a
        /\ list'.head = list.head /\ list'.tail = list.tail /\ list'.count = list.count
        /\ \A b \in Automate : fsm'[b].call = IF b = a THEN None ELSE fsm[b].call
        /\ \A x \in Automate : list'.next[x] = IF x = a THEN Null ELSE list.next[x]
    <3>1. \A b \in Automate : fsm'[b].call = IF b = a THEN None ELSE fsm[b].call
      BY <1>21, EndCallFields
    <3> QED BY <1>21, <3>1, EndCallLinks
  <2>3. ~ GetRuns
    <3>1. AddRuns'
      BY <2>2 DEF AddRuns
    <3> QED BY <2>1, <3>1 DEF Known, GetRuns
  <2>4. Linked(q) /\ Between(q)
    BY <1>2, <2>1, <2>3 DEF ListIs, GetRuns
  <2>5. a \notin Free /\ a \in Free' /\ \A b \in Automate : b \in Free <=> b \in Free' \ {a}
    BY <2>1, <2>2 DEF Free
  <2>6. \A k \in 1 .. n : q[k] # a
    BY <1>3, <2>4, <2>5 DEF Between, Elements
  <2>7. Linked(q)'
    BY <1>3, <2>2, <2>4, <2>6 DEF Linked
  <2>8. Elements(q, Free' \ {a})
    BY <2>4, <2>5 DEF Between, Elements
  <2>9. InAdd(q)'
    BY <2>2, <2>4, <2>5, <2>8 DEF InAdd, Between
  <2>10. ListIs(q)'
    BY <2>2, <2>7, <2>9 DEF ListIs
  <2> QED BY <1>6, <2>10
<1>22. CASE AddTest
  <2>1. UNCHANGED <<list, fsm, server>>
    BY <1>22 DEF AddTest
  <2>2. /\ system.pc = "test" /\ system'.pc = "link" /\ system'.fsm = system.fsm
        /\ system'.tail = list.tail
    BY <1>22, AddTestFields
  <2>3. Linked(q) /\ InAdd(q)
    BY <1>2, <2>2 DEF ListIs
  <2>4. Free' = Free
    BY <2>1, FreeKept
  <2>5. Linked(q)' /\ InAdd(q)'
    BY <2>1, <2>2, <2>3, <2>4 DEF Linked, InAdd
  <2>6. ListIs(q)'
    BY <2>2, <2>5 DEF ListIs
  <2> QED BY <1>6, <2>6
<1>23. CASE AddLink
  <2>1. UNCHANGED <<fsm, server>>
    BY <1>23 DEF AddLink, AddStep
  <2>2. /\ system.pc = "link" /\ system'.pc = "tail" /\ system.fsm \in Automate
        /\ system'.fsm = system.fsm /\ list'.tail = list.tail /\ list'.count = list.count
        /\ \/ system.tail = Null /\ list'.head = system.fsm /\ list'.next = list.next
           \/ /\ system.tail \in Automate /\ list'.head = list.head
              /\ \A x \in Automate : list'.next[x] = IF x = system.tail THEN system.fsm
                                                     ELSE list.next[x]
    BY <1>23, AddLinkFields
  <2>3. Linked(q) /\ InAdd(q)
    BY <1>2, <2>2 DEF ListIs
  <2>4. /\ system.fsm \in Free /\ Elements(q, Free \ {system.fsm}) /\ list.next[system.fsm] = Null
        /\ system.tail = Last(q) /\ list.count = n
    BY <1>3, <2>2, <2>3 DEF InAdd
  <2>5. PICK s \in Automate : s = system.fsm /\ s \in Free /\ Elements(q, Free \ {s})
    BY <2>2, <2>4
  <2>6. PICK r \in Seq(Automate) :
          /\ r = Append(q, s) /\ Len(r) = n + 1
          /\ \A k \in 1 .. n : r[k] = q[k] /\ q[k] # s
          /\ r[n + 1] = s /\ Elements(r, Free)
    <3>1. /\ Append(q, s) \in Seq(Automate) /\ Len(Append(q, s)) = Len(q) + 1
          /\ \A k \in 1 .. Len(q) : Append(q, s)[k] = q[k] /\ q[k] # s
          /\ Append(q, s)[Len(q) + 1] = s /\ Elements(Append(q, s), Free)
      BY <2>5, WithLast
    <3>2. n = Len(q)
      BY <1>3
    <3> QED BY <3>1, <3>2
  <2>7. r # <<>> /\ Last(r) = s
    BY <2>6, EmptySeq DEF Last
  <2>8. /\ \A k \in 1 .. n : list.next[q[k]] = IF k = n THEN Null ELSE q[k + 1]
        /\ list.head = IF q = <<>> THEN Null ELSE q[1]
    BY <1>3, <2>3 DEF Linked
  <2>9. n + 1 \in 1 .. n + 1 /\ 1 \in 1 .. n + 1 /\ \A k \in 1 .. n : k # n => k + 1 \in 1 .. n
    OBVIOUS
  <2>10. ASSUME q = <<>> PROVE Linked(r)'
    <3>1. n = 0 /\ system.tail = Null
      BY <1>3, <2>4, <2>10 DEF Last
    <3>2. list'.head = s /\ list'.next = list.next
      BY <1>4, <2>2, <2>5, <3>1
    <3>3. r[1] = s /\ list.next[s] = Null
      BY <2>4, <2>5, <2>6, <3>1
    <3>4. \A k \in 1 .. n + 1 : k = 1 /\ k = n + 1
      BY <3>1
    <3>5. \A k \in 1 .. n + 1 : list'.next[r[k]] = Null /\ k = n + 1
      BY <3>2, <3>3, <3>4
    <3> QED BY <2>6, <2>7, <3>2, <3>3, <3>5 DEF Linked
  <2>11. ASSUME q # <<>> PROVE Linked(r)'
    <3>1. system.tail = q[n] /\ q[n] \in Automate /\ n \in 1 .. n /\ 1 \in 1 .. n
      BY <1>3, <2>4, <2>11
    <3>2. /\ list'.head = list.head
          /\ \A x \in Automate : list'.next[x] = IF x = q[n] THEN s ELSE list.next[x]
      BY <1>4, <2>2, <2>5, <3>1
    <3>3. list'.head = r[1]
      BY <2>6, <2>8, <2>11, <3>1, <3>2
    <3>4. ASSUME NEW k \in 1 .. n + 1
          PROVE  list'.next[r[k]] = IF k = n + 1 THEN Null ELSE r[k + 1]
      <4>1. CASE k = n + 1
        <5>1. r[k] = s /\ list'.next[s] = Null
          BY <2>4, <2>5, <2>6, <3>1, <3>2, <4>1
        <5> QED BY <4>1, <5>1
      <4>2. CASE k # n + 1
        <5>1. k \in 1 .. n
          BY <4>2
        <5>2. r[k] = q[k] /\ q[k] \in Automate
          BY <1>3, <2>6, <5>1
        <5>3. CASE k = n
          BY <2>6, <3>2, <4>2, <5>2, <5>3
        <5>4. CASE k # n
          <6>1. k + 1 \in 1 .. n /\ r[k + 1] = q[k + 1]
            BY <2>6, <2>9, <5>1, <5>4
          <6>2. q[k] # q[n]
            BY <1>3, <2>4, <3>1, <5>1, <5>4 DEF Elements, Distinct
          <6>3. list'.next[r[k]] = q[k + 1]
            BY <2>8, <3>2, <5>1, <5>2, <5>4, <6>2
          <6> QED BY <4>2, <6>1, <6>3
        <5> QED BY <5>3, <5>4
      <4> QED BY <4>1, <4>2
    <3> QED BY <2>6, <2>7, <3>3, <3>4 DEF Linked
  <2>12. Linked(r)'
    BY <2>10, <2>11
  <2>13. Free' = Free
    BY <2>1, FreeKept
  <2>14. Appended(r)'
    <3>1. list'.count = Len(r) - 1
      BY <2>2, <2>4, <2>6
    <3> QED BY <2>2, <2>5, <2>6, <2>7, <2>13, <3>1 DEF Appended
  <2>15. ListIs(r)'
    BY <2>2, <2>12, <2>14 DEF ListIs
  <2> QED BY <1>6, <2>15
<1>24. CASE AddTail
  <2>1. UNCHANGED <<fsm, server>>
    BY <1>24 DEF AddTail, AddStep
  <2>2. /\ system.pc = "tail" /\ system'.pc = "load" /\ system'.fsm = system.fsm
        /\ list'.head = list.head /\ list'.tail = system.fsm /\ list'.count = list.count
        /\ list'.next = list.next
    BY <1>24, AddTailFields
  <2>3. Linked(q) /\ Appended(q)
    BY <1>2, <2>2 DEF ListIs
  <2>4. Free' = Free
    BY <2>1, FreeKept
  <2>5. Linked(q)' /\ Appended(q)'
    BY <2>2, <2>3, <2>4 DEF Linked, Appended
  <2>6. ListIs(q)'
    BY <2>2, <2>5 DEF ListIs
  <2> QED BY <1>6, <2>6
<1>25. CASE AddLoad
  <2>1. UNCHANGED <<list, fsm, server>>
    BY <1>25 DEF AddLoad
  <2>2. /\ system.pc = "load" /\ system'.pc = "store" /\ system'.fsm = system.fsm
        /\ system'.count = list.count
    BY <1>25, AddLoadFields
  <2>3. Linked(q) /\ Appended(q)
    BY <1>2, <2>2 DEF ListIs
  <2>4. Free' = Free
    BY <2>1, FreeKept
  <2>5. Linked(q)' /\ Appended(q)'
    BY <2>1, <2>2, <2>3, <2>4 DEF Linked, Appended
  <2>6. ListIs(q)'
    BY <2>2, <2>5 DEF ListIs
  <2> QED BY <1>6, <2>6
<1>26. CASE AddStore
  <2>1. UNCHANGED <<fsm, server>>
    BY <1>26 DEF AddStore
  <2>2. /\ system.pc = "store" /\ system'.pc = "idle"
        /\ list'.head = list.head /\ list'.tail = list.tail /\ list'.count = system.count + 1
        /\ list'.next = list.next
    BY <1>26, AddStoreFields
  <2>3. Linked(q) /\ Appended(q)
    BY <1>2, <2>2 DEF ListIs
  <2>4. Free' = Free
    BY <2>1, FreeKept
  <2>5. ~ GetRuns
    BY <1>1, <1>26 DEF Add
  <2>6. list'.count = n
    BY <1>3, <2>2, <2>3 DEF Appended
  <2>7. Linked(q)' /\ Between(q)'
    BY <1>3, <2>1, <2>2, <2>3, <2>4, <2>5, <2>6 DEF Linked, Appended, Between, GetRuns
  <2>8. ListIs(q)'
    BY <2>1, <2>2, <2>5, <2>7 DEF ListIs, GetRuns
  <2> QED BY <1>6, <2>8
<1> QED
  BY <1>8, <1>9, <1>10, <1>11, <1>12, <1>13, <1>14, <1>15, <1>16, <1>17, <1>18, <1>19, <1>20,
     <1>21, <1>22, <1>23, <1>24, <1>25, <1>26
  DEF Next, ServerThread, ReceiveThread, Add

-----------------------------------------------------------------------------
(* The links as Chain follows them: after n links, from each pointer.      *)

LEMMA NaturalsAreWellFounded ==
  \E R : IsWellFoundedOn(R, Nat) /\ \A j, k \in Nat : j < k => <<j, k>> \in R
<1>1. IsWellFoundedOn(OpToRel(<, Nat), Nat)
  BY NatLessThanWellFounded
<1>2. \A j, k \in Nat : j < k => <<j, k>> \in OpToRel(<, Nat)
  BY DEF OpToRel
<1> QED BY <1>1, <1>2

LEMMA LeastNatural ==
  ASSUME NEW S, S \subseteq Nat, S # {}
  PROVE  \E k \in S : \A j \in S : k <= j
<1>1. PICK R : IsWellFoundedOn(R, Nat) /\ \A j, k \in Nat : j < k => <<j, k>> \in R
  BY NaturalsAreWellFounded
<1>2. IsWellFoundedOn(R, Nat)
  BY <1>1
<1>3. PICK k \in S : \A j \in S : ~(<<j, k>> \in R)
  <2>1. \E k \in S : \A j \in S : ~(<<j, k>> \in R)
    BY <1>2, WFMin, Zenon
  <2> QED BY <2>1
<1>4. ASSUME NEW j \in S PROVE k <= j
  <2>1. j \in Nat /\ k \in Nat
    OBVIOUS
  <2>2. ~(j < k)
    BY <1>1, <1>3, <2>1
  <2> QED BY <2>1, <2>2
<1> QED BY <1>4

(* A set that holds 0 and whatever follows one of its elements is all of   *)
(* Nat: what is missing would have a least element.                        *)
LEMMA Induction ==
  ASSUME NEW S, 0 \in S, \A n \in Nat : n \in S => n + 1 \in S
  PROVE  Nat \subseteq S
<1> SUFFICES ASSUME Nat \ S # {} PROVE FALSE
  OBVIOUS
<1>1. PICK k \in Nat \ S : \A j \in Nat \ S : k <= j
  BY LeastNatural
<1>2. k \in Nat /\ k # 0 /\ k \notin S
  OBVIOUS
<1>3. k - 1 \in Nat /\ ~(k <= k - 1) /\ (k - 1) + 1 = k
  BY <1>2
<1>4. k - 1 \in S
  BY <1>1, <1>3
<1> QED BY <1>2, <1>3, <1>4

Walk(f, n) == [a \in Automate \cup {Null} |->
                 IF n = 0 \/ a = Null THEN <<>> ELSE <<a>> \o f[n - 1][list.next[a]]]
Walks == CHOOSE f : f = [n \in 0 .. Len(Order) |-> Walk(f, n)]

LEMMA ChainWalks == Chain = Walks[Len(Order)][list.head]
  BY DEF Chain, Walks, Walk

LEMMA WalksExist == \A n \in Nat : \E f : f = [m \in 0 .. n |-> Walk(f, m)]
<1> DEFINE S == {n \in Nat : \E f : f = [m \in 0 .. n |-> Walk(f, m)]}
<1>1. 0 \in S
  <2>1. PICK e : e = [a \in Automate \cup {Null} |-> <<>>]
    OBVIOUS
  <2>2. PICK f : f = [m \in 0 .. 0 |-> e]
    OBVIOUS
  <2>3. \A m \in 0 .. 0 : Walk(f, m) = e
    BY <2>1 DEF Walk
  <2>4. f = [m \in 0 .. 0 |-> Walk(f, m)]
    BY <2>2, <2>3
  <2> QED BY <2>4
<1>2. ASSUME NEW n \in Nat, n \in S PROVE n + 1 \in S
  <2>1. PICK f : f = [m \in 0 .. n |-> Walk(f, m)]
    BY <1>2
  <2>2. PICK w : w = Walk(f, n + 1)
    OBVIOUS
  <2>3. PICK g : g = [m \in 0 .. n + 1 |-> IF m = n + 1 THEN w ELSE f[m]]
    OBVIOUS
  <2>4. /\ \A m \in 0 .. n : m \in 0 .. n + 1 /\ m # n + 1
        /\ \A m \in 0 .. n + 1 : m = n + 1 \/ m \in 0 .. n
        /\ \A m \in 0 .. n + 1 : m # 0 => m - 1 \in 0 .. n
    OBVIOUS
  <2>5. \A m \in 0 .. n : g[m] = f[m]
    BY <2>3, <2>4
  <2>6. ASSUME NEW m \in 0 .. n + 1 PROVE Walk(g, m) = Walk(f, m)
    <3>1. m # 0 => g[m - 1] = f[m - 1]
      BY <2>4, <2>5
    <3> QED BY <3>1 DEF Walk
  <2>7. ASSUME NEW m \in 0 .. n + 1 PROVE g[m] = Walk(g, m)
    <3>1. CASE m = n + 1
      BY <2>2, <2>3, <2>6, <3>1
    <3>2. CASE m # n + 1
      <4>1. m \in 0 .. n
        BY <2>4, <3>2
      <4>2. f[m] = Walk(f, m)
        BY <2>1, <4>1
      <4> QED BY <2>5, <2>6, <4>1, <4>2
    <3> QED BY <3>1, <3>2
  <2>8. g = [m \in 0 .. n + 1 |-> Walk(g, m)]
    BY <2>3, <2>7
  <2> QED BY <2>8
<1> HIDE DEF S
<1>3. Nat \subseteq S
  BY <1>1, <1>2, Induction
<1> QED BY <1>3 DEF S

LEMMA WalksStep ==
  /\ Len(Order) \in Nat
  /\ \A n \in 0 .. Len(Order), a \in Automate \cup {Null} :
       Walks[n][a] = IF n = 0 \/ a = Null THEN <<>> ELSE <<a>> \o Walks[n - 1][list.next[a]]
<1>1. Len(Order) \in Nat
  BY NetServerAssumption
<1>2. Walks = [n \in 0 .. Len(Order) |-> Walk(Walks, n)]
  BY <1>1, WalksExist DEF Walks
<1>3. \A n \in 0 .. Len(Order) : Walks[n] = Walk(Walks, n)
  BY <1>2
<1> QED BY <1>1, <1>3 DEF Walk

(* Links that do not lead to an automate never reach it.                   *)
LEMMA NotReached ==
  ASSUME Types, NEW a \in Automate, list.head # a, \A x \in Automate : list.next[x] # a
  PROVE  Chain \in Seq(Automate) /\ \A k \in 1 .. Len(Chain) : Chain[k] # a
<1> DEFINE Good(s) == s \in Seq(Automate) /\ \A k \in 1 .. Len(s) : s[k] # a
           S == {n \in Nat : n <= Len(Order) => \A p \in Pointer \ {a} : Good(Walks[n][p])}
<1>1. Len(Order) \in Nat
  BY WalksStep
<1>2. \A p \in Pointer : p \in Automate \/ p = Null
  BY DEF Pointer
<1>3. Good(<<>>)
  BY EmptySeq
<1>4. 0 \in S
  <2>1. 0 \in 0 .. Len(Order)
    BY <1>1
  <2>2. \A p \in Pointer : Walks[0][p] = <<>>
    BY <2>1, WalksStep DEF Pointer
  <2> QED BY <1>3, <2>2
<1>5. ASSUME NEW n \in Nat, n \in S PROVE n + 1 \in S
  <2> SUFFICES ASSUME n + 1 <= Len(Order), NEW p \in Pointer \ {a} PROVE Good(Walks[n + 1][p])
    OBVIOUS
  <2>1. n <= Len(Order) /\ n + 1 \in 0 .. Len(Order) /\ n + 1 # 0 /\ (n + 1) - 1 = n
    BY <1>1
  <2>2. Walks[n + 1][p] = IF p = Null THEN <<>> ELSE <<p>> \o Walks[n][list.next[p]]
    BY <2>1, WalksStep DEF Pointer
  <2>3. CASE p = Null
    BY <1>3, <2>2, <2>3
  <2>4. CASE p # Null
    <3>1. p \in Automate /\ p # a
      BY <1>2, <2>4
    <3>2. list.next[p] \in Pointer \ {a}
      BY <3>1 DEF Types, ListType
    <3>3. PICK t : t = Walks[n][list.next[p]]
      OBVIOUS
    <3>4. Good(t)
      BY <1>5, <2>1, <3>2, <3>3
    <3>5. <<p>> \in Seq(Automate) /\ Len(<<p>>) = 1 /\ <<p>>[1] = p
      BY <3>1
    <3>6. /\ <<p>> \o t \in Seq(Automate) /\ Len(<<p>> \o t) = 1 + Len(t) /\ Len(t) \in Nat
          /\ \A i \in 1 .. 1 + Len(t) : (<<p>> \o t)[i] = IF i <= 1 THEN <<p>>[i] ELSE t[i - 1]
      BY <3>4, <3>5, ConcatProperties
    <3>7. ASSUME NEW i \in 1 .. 1 + Len(t) PROVE (<<p>> \o t)[i] # a
      <4>1. CASE i <= 1
        <5>1. i = 1
          BY <3>6, <4>1
        <5> QED BY <3>1, <3>5, <3>6, <4>1, <5>1
      <4>2. CASE ~(i <= 1)
        <5>1. i - 1 \in 1 .. Len(t)
          BY <3>6, <4>2
        <5> QED BY <3>4, <3>6, <4>2, <5>1
      <4> QED BY <4>1, <4>2
    <3>8. Good(<<p>> \o t)
      BY <3>6, <3>7
    <3> QED BY <2>2, <2>4, <3>3, <3>8
  <2> QED BY <2>3, <2>4
<1> HIDE DEF S
<1>6. Len(Order) \in S
  BY <1>1, <1>4, <1>5, Induction
<1>7. list.head \in Pointer \ {a}
  BY DEF Types, ListType
<1>8. Good(Walks[Len(Order)][list.head])
  BY <1>1, <1>6, <1>7 DEF S
<1> QED BY <1>8, ChainWalks

LEMMA UpTo ==
  ASSUME NEW n \in Nat
  PROVE  IsFiniteSet(1 .. n) /\ Cardinality(1 .. n) = n
<1>1. IsFiniteSet(1 .. n) /\ Cardinality(1 .. n) = IF 1 > n THEN 0 ELSE n - 1 + 1
  BY FS_Interval
<1> QED BY <1>1

(* An automate occurs once at most in a sequence without repetition, which *)
(* is therefore no longer than the order of registration.                  *)
LEMMA NoLongerThanOrder ==
  ASSUME NEW q \in Seq(Automate), Distinct(q)
  PROVE  Len(q) <= Len(Order)
<1>1. Len(q) \in Nat /\ Len(Order) \in Nat /\ DOMAIN Order = 1 .. Len(Order)
  BY NetServerAssumption
<1>2. \A a \in Automate : \E j \in 1 .. Len(Order) : Order[j] = a
  BY <1>1, NetServerAssumption DEF Range
<1>3. \A k \in 1 .. Len(q) : q[k] \in Automate
  OBVIOUS
<1>4. PICK f : f = [k \in 1 .. Len(q) |-> CHOOSE j \in 1 .. Len(Order) : Order[j] = q[k]]
  OBVIOUS
<1>5. \A k \in 1 .. Len(q) : f[k] \in 1 .. Len(Order) /\ Order[f[k]] = q[k]
  BY <1>2, <1>3, <1>4
<1>6. f \in [1 .. Len(q) -> 1 .. Len(Order)]
  BY <1>4, <1>5
<1>7. \A j, k \in 1 .. Len(q) : f[j] = f[k] => j = k
  BY <1>5 DEF Distinct
<1>8. f \in Injection(1 .. Len(q), 1 .. Len(Order))
  BY <1>6, <1>7 DEF Injection, IsInjective
<1>9. /\ IsFiniteSet(1 .. Len(Order)) /\ Cardinality(1 .. Len(Order)) = Len(Order)
      /\ Cardinality(1 .. Len(q)) = Len(q)
  BY <1>1, UpTo
<1>10. Cardinality(1 .. Len(q)) <= Cardinality(1 .. Len(Order))
  BY <1>8, <1>9, FS_Injection
<1> QED BY <1>9, <1>10

(* Chain is the sequence the links form.                                   *)
LEMMA ChainIsLinked ==
  ASSUME Types, NEW q \in Seq(Automate), Linked(q), Distinct(q)
  PROVE  Chain = q
<1>1. PICK L \in Nat : L = Len(Order)
  BY WalksStep
<1>2. PICK n \in Nat :
        /\ n = Len(q) /\ (q = <<>> <=> n = 0) /\ \A k \in 1 .. n : q[k] \in Automate
        /\ q # <<>> => 1 \in 1 .. n
  BY LastOf
<1>3. n <= L
  BY <1>1, <1>2, NoLongerThanOrder
<1>4. /\ list.head = IF q = <<>> THEN Null ELSE q[1]
      /\ \A k \in 1 .. n : list.next[q[k]] = IF k = n THEN Null ELSE q[k + 1]
  BY <1>2 DEF Linked
<1>5. Null \notin Automate
  BY NetServerAssumption
<1>6. \A m \in 0 .. L, a \in Automate \cup {Null} :
        Walks[m][a] = IF m = 0 \/ a = Null THEN <<>> ELSE <<a>> \o Walks[m - 1][list.next[a]]
  BY <1>1, WalksStep
<1>7. \A m \in 0 .. L : Walks[m][Null] = <<>>
  BY <1>6
<1> DEFINE From(k) == \A m \in 0 .. L : m >= n - k + 1 => Walks[m][q[k]] = SubSeq(q, k, n)
           S == {d \in Nat : d < n => From(n - d)}
<1>8. \A d \in Nat : d < n => n - d \in 1 .. n /\ n - (n - d) + 1 = d + 1
  OBVIOUS
<1>9. 0 \in S
  <2> SUFFICES ASSUME 0 < n, NEW m \in 0 .. L, m >= 1 PROVE Walks[m][q[n]] = SubSeq(q, n, n)
    BY <1>8
  <2>1. n \in 1 .. n /\ m # 0 /\ m - 1 \in 0 .. L
    OBVIOUS
  <2>2. q[n] \in Automate /\ list.next[q[n]] = Null
    BY <1>2, <1>4, <2>1
  <2>3. Walks[m][q[n]] = <<q[n]>> \o <<>>
    <3>1. PICK a \in Automate : a = q[n] /\ a # Null /\ list.next[a] = Null
      BY <1>5, <2>2
    <3>2. Walks[m][a] = <<a>> \o Walks[m - 1][list.next[a]]
      BY <1>6, <2>1, <3>1
    <3>3. Walks[m - 1][Null] = <<>>
      BY <1>7, <2>1
    <3> QED BY <3>1, <3>2, <3>3
  <2>4. n \in 1 .. Len(q) /\ n \in n .. Len(q)
    BY <1>2, <2>1
  <2>5. SubSeq(q, n, n) = <<q[n]>> \o SubSeq(q, n + 1, n)
    BY <2>4, SubSeqRecursiveFirst
  <2>6. SubSeq(q, n + 1, n) = <<>>
    BY SubSeqEmpty
  <2> QED BY <2>3, <2>5, <2>6
<1>10. ASSUME NEW d \in Nat, d \in S PROVE d + 1 \in S
  <2> SUFFICES ASSUME d + 1 < n, NEW m \in 0 .. L, m >= d + 2
               PROVE  Walks[m][q[n - (d + 1)]] = SubSeq(q, n - (d + 1), n)
    BY <1>8
  <2>1. PICK k \in 1 .. n : k = n - (d + 1) /\ k # n /\ k + 1 = n - d
    OBVIOUS
  <2>2. m # 0 /\ m - 1 \in 0 .. L /\ m - 1 >= d + 1 /\ d < n
    OBVIOUS
  <2>3. q[k] \in Automate /\ list.next[q[k]] = q[k + 1]
    BY <1>2, <1>4, <2>1
  <2>4. Walks[m][q[k]] = <<q[k]>> \o Walks[m - 1][q[k + 1]]
    <3>1. PICK a \in Automate : a = q[k] /\ a # Null /\ list.next[a] = q[k + 1]
      BY <1>5, <2>3
    <3>2. Walks[m][a] = <<a>> \o Walks[m - 1][list.next[a]]
      BY <1>6, <2>2, <3>1
    <3> QED BY <3>1, <3>2
  <2>5. From(n - d)
    BY <1>10, <2>2
  <2>6. Walks[m - 1][q[k + 1]] = SubSeq(q, k + 1, n)
    BY <1>8, <2>1, <2>2, <2>5
  <2>7. k \in 1 .. Len(q) /\ n \in k .. Len(q)
    BY <1>2, <2>1
  <2>8. SubSeq(q, k, n) = <<q[k]>> \o SubSeq(q, k + 1, n)
    BY <2>7, SubSeqRecursiveFirst
  <2> QED BY <2>1, <2>4, <2>6, <2>8
<1> HIDE DEF S
<1>11. Nat \subseteq S
  BY <1>9, <1>10, Induction
<1>12. CASE q = <<>>
  BY <1>1, <1>4, <1>7, <1>12, ChainWalks
<1>13. CASE q # <<>>
  <2>1. n # 0 /\ 1 \in 1 .. n
    BY <1>2, <1>13
  <2>2. n - 1 \in S /\ n - 1 < n /\ n - (n - 1) = 1 /\ L \in 0 .. L /\ L >= n - 1 + 1
    BY <1>3, <1>11, <2>1
  <2>3. From(1)
    BY <2>2 DEF S
  <2>4. Walks[L][q[1]] = SubSeq(q, 1, n)
    BY <2>2, <2>3
  <2>5. SubSeq(q, 1, n) = q
    BY <1>2, SubSeqFull
  <2> QED BY <1>1, <1>4, <1>13, <2>4, <2>5, ChainWalks
<1> QED BY <1>12, <1>13

-----------------------------------------------------------------------------
(* The theorems.                                                           *)

LEMMA Invariance == Spec => []IInv
<1>1. Init => IInv
  BY TypesInit, PlacesInit, StartedInit, PointersInit, SocketsInit, CallsInit, FreeListInit DEF IInv
<1>2. IInv /\ [Next]_vars => IInv'
  BY TypesStep, PlacesStep, StartedStep, PointersStep, SocketsStep, CallsStep, FreeListStep DEF IInv
<1> QED BY <1>1, <1>2, PTL DEF Spec

(* The list, the threads' registers, the automates and the connections     *)
(* keep their types, whatever the server thread and the system thread do   *)
(* to the list at once (fsmSystem.cpp, FSMList::Get and Add).              *)
THEOREM TypeCorrect == Spec => []TypeOK
<1>1. IInv => TypeOK
  <2> SUFFICES ASSUME Types, Places PROVE TypeOK
    BY DEF IInv
  <2>1. {list.head, list.tail} \cup Range(list.next) \subseteq Automate \cup {Null} /\ list.count \in Nat
    BY DEF Types, ListType, Pointer, Range
  <2>2. ASSUME NEW a \in Automate
        PROVE  fsm[a].inbox \in Nat /\ {fsm[a].client, fsm[a].receivingSide, fsm[a].call}
                                         \subseteq Conn \cup {None}
    <3>1. \A p \in Place : p \in Conn \cup {None}
      BY NetServerAssumption DEF Place, Conn, None
    <3>2. fsm[a] \in FsmType
      BY DEF Types
    <3> QED BY <3>1, <3>2 DEF FsmType
  <2>3. ASSUME NEW c \in Conn
        PROVE  conn[c].wire \in 0 .. sent /\ (conn[c].thread # "none" => conn[c].netFSM \in Automate)
    <3>1. conn[c] \in ConnType /\ sent \in Nat
      BY DEF Types
    <3>2. conn[c].wire \in Nat /\ conn[c].wire <= sent
      BY <3>1 DEF ConnType, Places
    <3> QED BY <3>1, <3>2 DEF Places
  <2> QED BY <2>1, <2>2, <2>3 DEF TypeOK, Places
<1> QED BY Invariance, <1>1, PTL

(* However Get and Add interleave, no automate is handed to a second       *)
(* connection while it has one, and the list leads to none that has: one   *)
(* thread takes automates and one puts them back (systemTCP.cpp:213).      *)
THEOREM HandedOutOnce == Spec => []NoAutomateTwice
<1>1. IInv => NoAutomateTwice
  <2> SUFFICES ASSUME Types, Pointers PROVE NoAutomateTwice
    BY DEF IInv
  <2>1. server.pc = "unlink" => fsm[server.fsm].call = None
    BY DEF Pointers, GetRuns
  <2>2. ASSUME NEW a \in Automate, fsm[a].call # None PROVE a \notin Range(Chain)
    <3>1. list.head # a /\ \A x \in Automate : list.next[x] # a
      BY <2>2 DEF Pointers, Taken
    <3>2. Chain \in Seq(Automate) /\ \A k \in 1 .. Len(Chain) : Chain[k] # a
      BY <3>1, NotReached
    <3>3. DOMAIN Chain = 1 .. Len(Chain)
      BY <3>2
    <3> QED BY <3>2, <3>3 DEF Range
  <2> QED BY <2>1, <2>2 DEF NoAutomateTwice
<1> QED BY Invariance, <1>1, PTL

(* Until a Get and an Add run at the same time, the list holds the free    *)
(* automates, once each, and its count is their number: Available does not *)
(* lie (fsmSystem.h:111).                                                  *)
THEOREM ListCorrect == Spec => []ListIsRight
<1>1. IInv => ListIsRight
  <2> SUFFICES ASSUME Types, FreeList, ~overlapped, ~GetRuns, system.pc = "idle", ~down
               PROVE  /\ IsInjective(Chain)
                      /\ Range(Chain) = {a \in Automate : fsm[a].call = None}
                      /\ list.count = Len(Chain)
                      /\ list.tail = IF Chain = <<>> THEN Null ELSE Chain[Len(Chain)]
    BY DEF IInv, ListIsRight
  <2>1. PICK q \in Seq(Automate) : ListIs(q)
    BY DEF FreeList, Known
  <2>2. Linked(q) /\ Elements(q, Free) /\ list.tail = Last(q) /\ list.count = Len(q)
    BY <2>1 DEF ListIs, Between, GetRuns
  <2>3. Chain = q
    BY <2>2, ChainIsLinked DEF Elements
  <2>4. DOMAIN q = 1 .. Len(q) /\ \A k \in 1 .. Len(q) : q[k] \in Automate
    OBVIOUS
  <2>5. IsInjective(q)
    BY <2>2, <2>4 DEF Elements, Distinct, IsInjective
  <2>6. Range(q) = Free
    <3>1. \A a \in Range(q) : a \in Free
      BY <2>2, <2>4 DEF Range, Elements
    <3>2. \A a \in Free : a \in Range(q)
      BY <2>2, <2>4 DEF Range, Elements, Free
    <3> QED BY <3>1, <3>2
  <2> QED BY <2>2, <2>3, <2>5, <2>6 DEF Last, Free
<1> QED BY Invariance, <1>1, PTL

(* After killConnection at most one message of the old connection still    *)
(* reaches the automate: the one its receive thread had already received   *)
(* (NetFSM.cpp:81, Client.cpp).                                            *)
THEOREM StaleBounded == Spec => []StaleIsBounded
<1>1. IInv => StaleIsBounded
  BY DEF IInv, Sockets, Closing, StaleIsBounded
<1> QED BY Invariance, <1>1, PTL

(* An automate answers to the client of its call, but for the time between *)
(* FSMList::Get and the store of the socket in acceptConnection            *)
(* (NetFSM.cpp:102).                                                       *)
THEOREM RepliesCorrect == Spec => []RepliesToCaller
<1>1. IInv => RepliesToCaller
  BY DEF IInv, Calls, Handed, RepliesToCaller
<1> QED BY Invariance, <1>1, PTL
=============================================================================
