------------------------------- MODULE NetServer -------------------------------
(***************************************************************************)
(* A TCP server (TCPSystemSupport) whose connections are served by         *)
(* automates (NetFSM) that are taken from the list of free automates       *)
(* (FSMList).  Three kinds of threads share this state without a lock: the *)
(* server thread, which accepts connections and takes automates, the       *)
(* system thread, in which automates answer, end calls and are put back,   *)
(* and a receive thread (Client_DTP) for every connection.                 *)
(*                                                                         *)
(* The operations on the list are modelled one memory access at a time.    *)
(* One server is initialised once, and it alone takes automates.  A SOCKET *)
(* is not used again for another connection.                               *)
(***************************************************************************)
EXTENDS Integers, Sequences, FiniteSets, Functions

CONSTANTS
  Automate,
  Null,        \* null pointer
  Order,       \* the automates in the order they were registered
  Connections, \* bound: connections that clients open
  Data         \* bound: messages clients send

ASSUME NetServerAssumption ==
  /\ Null \notin Automate
  /\ Order \in Seq(Automate) /\ Order # <<>>
  /\ Range(Order) = Automate /\ IsInjective(Order)
  /\ Connections \in Nat /\ Data \in Nat

Conn == 1 .. Connections
None == 0            \* no connection, no socket

VARIABLES
  list,        \* FSMList: Head, Tail, FreeFSMCount, and the automates' Next
  overlapped,  \* history: did a Get and an Add ever run at the same time?
  init,        \* what InitTCPServer and DeinitTCPServer have done
  server,      \* the server thread: where it is, its connection, automate, register
  system,      \* the system thread: where it is, the automate it puts back, registers
  fsm,         \* of every automate: client, receivingSide (by its connection),
               \* the number of messages in its mailbox and, as a history, the
               \* connection it was taken for
  conn,        \* of every connection: the client's end, the server's socket, messages
               \* on their way, the automate and place of its receive
               \* thread and, as a history, what it posted after killConnection
  backlog,     \* connections not accepted yet
  sent,        \* messages the clients sent
  down         \* an exception nobody catches ended the process

vars == <<list, overlapped, init, server, system, fsm, conn, backlog, sent, down>>

Waiting == [pc |-> "accept", conn |-> None, fsm |-> Null, count |-> 0]
Idle == [pc |-> "idle", fsm |-> Null, tail |-> Null, count |-> 0]

Init ==
  /\ list = [head |-> Order[1], tail |-> Order[Len(Order)], count |-> Len(Order),
             next |-> [a \in Automate |->
                        LET k == CHOOSE j \in DOMAIN Order : Order[j] = a
                        IN IF k = Len(Order) THEN Null ELSE Order[k + 1]]]
  /\ overlapped = FALSE
  /\ init = "none"
  /\ server = [Waiting EXCEPT !.pc = "none"]
  /\ system = Idle
  /\ fsm = [a \in Automate |-> [client |-> None, receivingSide |-> None,
              inbox |-> 0, call |-> None]]
  /\ conn = [c \in Conn |-> [peer |-> "none", sock |-> "none", wire |-> 0,
              netFSM |-> Null, thread |-> "none", killed |-> FALSE, stale |-> 0]]
  /\ backlog = <<>> /\ sent = 0
  /\ down = FALSE

-----------------------------------------------------------------------------
Run == ~down

(* The clients, which connect once the server's thread runs.               *)
Connect(c) ==
  /\ Run /\ server.pc # "none" /\ init # "closed"
  /\ conn[c].peer = "none" /\ \A d \in 1 .. c - 1 : conn[d].peer # "none"
  /\ conn' = [conn EXCEPT ![c].peer = "open"]
  /\ backlog' = Append(backlog, c)
  /\ UNCHANGED <<list, overlapped, init, server, system, fsm, sent, down>>

(* What a client does after the server has closed is seen by nobody.       *)
PeerSends(c) ==
  /\ Run /\ conn[c].peer = "open" /\ conn[c].sock # "closed" /\ sent < Data
  /\ conn' = [conn EXCEPT ![c].wire = @ + 1]
  /\ sent' = sent + 1
  /\ UNCHANGED <<list, overlapped, init, server, system, fsm, backlog, down>>

PeerCloses(c) ==
  /\ Run /\ conn[c].peer = "open" /\ conn[c].sock # "closed"
  /\ conn' = [conn EXCEPT ![c].peer = "closed"]
  /\ UNCHANGED <<list, overlapped, init, server, system, fsm, backlog, sent, down>>

-----------------------------------------------------------------------------
(* InitTCPServer and DeinitTCPServer, in the main thread.                  *)

(* socket, bind or CreateThread fails: -1.  Otherwise the thread runs      *)
(* before AutomateType is stored.                                          *)
InitTCPServer(created) ==
  /\ Run /\ init = "none"
  /\ init' = IF created THEN "created" ELSE "failed"
  /\ server' = IF created THEN Waiting ELSE server
  /\ UNCHANGED <<list, overlapped, system, fsm, conn, backlog, sent, down>>

StoreAutomateType ==
  /\ Run /\ init = "created" /\ init' = "ready"
  /\ UNCHANGED <<list, overlapped, server, system, fsm, conn, backlog, sent, down>>

(* The listening socket is closed and with it what was not accepted.       *)
DeinitTCPServer ==
  /\ Run /\ init = "ready" /\ init' = "closed"
  /\ conn' = [c \in Conn |-> IF c \in Range(backlog) THEN [conn[c] EXCEPT !.peer = "closed"]
                             ELSE conn[c]]
  /\ backlog' = <<>>
  /\ UNCHANGED <<list, overlapped, server, system, fsm, sent, down>>

-----------------------------------------------------------------------------
(* The server thread: listen and accept.                                   *)
Goto(pc) == server' = [server EXCEPT !.pc = pc]

Accept ==
  /\ Run /\ server.pc = "accept"
  /\ IF init = "closed"
       THEN Goto("ended") /\ UNCHANGED <<conn, backlog>>
       ELSE /\ backlog # <<>>
            /\ server' = [server EXCEPT !.pc = "get", !.conn = Head(backlog)]
            /\ conn' = [conn EXCEPT ![Head(backlog)].sock = "open"]
            /\ backlog' = Tail(backlog)
  /\ UNCHANGED <<list, overlapped, init, system, fsm, sent, down>>

(* FSMList::Get.  An empty list, or the garbage that AutomateType is until *)
(* InitTCPServer stores it, throws; the caller's test for 0 is in vain.    *)
Throw == down' = TRUE /\ Goto("ended")

AddRuns == system.pc \in {"test", "link", "tail", "load", "store"}
GetRuns == server.pc \in {"unlink", "clear", "tail", "load", "store"}
GetStep == overlapped' = (overlapped \/ AddRuns)
           /\ UNCHANGED <<init, system, conn, backlog, sent>>

(* Faulty variant: an empty list is not noticed.                           *)
GetHeadUnchecked ==
  /\ Run /\ server.pc = "get"
  /\ server' = [server EXCEPT !.pc = "unlink", !.fsm = list.head]
  /\ GetStep /\ UNCHANGED <<list, fsm, down>>

GetHead ==
  /\ Run /\ server.pc = "get"
  /\ IF init = "created" \/ list.head = Null THEN Throw
     ELSE server' = [server EXCEPT !.pc = "unlink", !.fsm = list.head] /\ UNCHANGED down
  /\ GetStep /\ UNCHANGED <<list, fsm>>

(* Faulty variant: the automate stays at the head of the list.             *)
HeadStays(a) == list.head
HeadAfter(a) == list.next[a]

GetUnlink ==
  /\ Run /\ server.pc = "unlink"
  /\ list' = [list EXCEPT !.head = HeadAfter(server.fsm)]
  /\ Goto("clear")
  /\ GetStep /\ UNCHANGED <<fsm, down>>

GetClear ==
  /\ Run /\ server.pc = "clear"
  /\ list' = [list EXCEPT !.next[server.fsm] = Null]
  /\ Goto("tail")
  /\ GetStep /\ UNCHANGED <<fsm, down>>

(* Faulty variant: Tail still points to the last automate taken.           *)
TailStays == list.tail
TailAfter == IF list.head = Null THEN Null ELSE list.tail

GetTail ==
  /\ Run /\ server.pc = "tail"
  /\ list' = [list EXCEPT !.tail = TailAfter]
  /\ Goto("load")
  /\ GetStep /\ UNCHANGED <<fsm, down>>

(* The count is tested after the automate was taken, and Add counts last:  *)
(* the exception may lose an automate.                                     *)
GetLoad ==
  /\ Run /\ server.pc = "load"
  /\ IF list.count = 0 THEN Throw
     ELSE server' = [server EXCEPT !.pc = "store", !.count = list.count] /\ UNCHANGED down
  /\ GetStep /\ UNCHANGED <<list, fsm>>

GetStore ==
  /\ Run /\ server.pc = "store"
  /\ list' = [list EXCEPT !.count = server.count - 1]
  /\ fsm' = [fsm EXCEPT ![server.fsm].call = server.conn]
  /\ server' = [server EXCEPT !.pc = "start", !.count = 0]
  /\ GetStep /\ UNCHANGED down

(* acceptConnection: the receive thread runs before client is stored.  When*)
(* it cannot be created the connection is closed, the server thread ends,  *)
(* and the automate is not put back.                                       *)
AcceptConnection(created) ==
  LET a == server.fsm
      c == server.conn IN
  /\ Run /\ server.pc = "start"
  /\ fsm' = [fsm EXCEPT ![a].receivingSide = c]
  /\ conn' = IF created THEN [conn EXCEPT ![c].netFSM = a, ![c].thread = "recv"]
             ELSE [conn EXCEPT ![c].sock = "closed", ![c].wire = 0]
  /\ Goto(IF created THEN "client" ELSE "ended")
  /\ UNCHANGED <<list, overlapped, init, system, backlog, sent, down>>

(* Faulty variant: the automate keeps the socket of its last call.         *)
OldClient(a) == IF fsm[a].client = None THEN server.conn ELSE fsm[a].client
NewClient(a) == server.conn

(* Faulty variant: after the first connection the thread ends.             *)
StoreClientAndEnd ==
  /\ Run /\ server.pc = "client"
  /\ fsm' = [fsm EXCEPT ![server.fsm].client = NewClient(server.fsm)]
  /\ Goto("ended")
  /\ UNCHANGED <<list, overlapped, init, system, conn, backlog, sent, down>>

StoreClient ==
  /\ Run /\ server.pc = "client"
  /\ fsm' = [fsm EXCEPT ![server.fsm].client = NewClient(server.fsm)]
  /\ server' = Waiting
  /\ UNCHANGED <<list, overlapped, init, system, conn, backlog, sent, down>>

ServerThread ==
  \/ Accept \/ GetHead \/ GetUnlink \/ GetClear \/ GetTail \/ GetLoad \/ GetStore
  \/ \E created \in BOOLEAN : AcceptConnection(created)
  \/ StoreClient

-----------------------------------------------------------------------------
(* The receive thread of connection c: the endless loop of Client_DTP.     *)
(* recv on a socket that was closed fails at once, for ever.               *)
Receive(c) ==
  /\ Run /\ conn[c].thread = "recv" /\ conn[c].sock = "open" /\ conn[c].wire > 0
  /\ conn' = [conn EXCEPT ![c].wire = @ - 1, ![c].thread = "convert"]
  /\ UNCHANGED <<list, overlapped, init, server, system, fsm, backlog, sent, down>>

(* convertNetToFSMMessage and workWhenReceive: what was received goes to   *)
(* the automate's mailbox.                                                 *)
Convert(c) ==
  /\ Run /\ conn[c].thread = "convert"
  /\ conn' = [conn EXCEPT ![c].thread = "recv",
                          ![c].stale = IF conn[c].killed THEN @ + 1 ELSE @]
  /\ fsm' = [fsm EXCEPT ![conn[c].netFSM].inbox = @ + 1]
  /\ UNCHANGED <<list, overlapped, init, server, system, backlog, sent, down>>

(* The peer closed: NetError, which does nothing by default, and           *)
(* releaseAll.                                                             *)
ReceiveEnd(c) ==
  /\ Run /\ conn[c].thread = "recv" /\ conn[c].sock = "open"
  /\ conn[c].wire = 0 /\ conn[c].peer = "closed"
  /\ conn' = [conn EXCEPT ![c].sock = "closed"]
  /\ UNCHANGED <<list, overlapped, init, server, system, fsm, backlog, sent, down>>

ReceiveThread(c) == Receive(c) \/ Convert(c) \/ ReceiveEnd(c)

-----------------------------------------------------------------------------
(* The system thread.                                                      *)

(* The automate processes a message, and may answer with sendToTCP, which  *)
(* throws when there is no socket.  Errors of send go unnoticed.           *)
Process(a, answers) ==
  /\ Run /\ system.pc = "idle" /\ fsm[a].inbox > 0
  /\ answers => fsm[a].call # None
  /\ fsm' = [fsm EXCEPT ![a].inbox = @ - 1]
  /\ down' = (answers /\ fsm[a].client = None)
  /\ UNCHANGED <<list, overlapped, init, server, system, conn, backlog, sent>>

(* Faulty variant: killConnection does not close the socket.               *)
KeepOpen(c) == [conn EXCEPT ![c].killed = TRUE]
(* NetError and releaseAll of the receiving side.                          *)
KillConnection(c) == [conn EXCEPT ![c].killed = TRUE, ![c].sock = "closed",
                                       ![c].wire = 0]

(* The automate ends a call it knows of: killConnection, then FreeFSM.     *)
EndCall(a) ==
  /\ Run /\ system.pc = "idle"
  /\ fsm[a].call # None /\ fsm[a].receivingSide = fsm[a].call
  /\ conn[fsm[a].call].thread # "none"
  /\ conn' = KillConnection(fsm[a].receivingSide)
  /\ fsm' = [fsm EXCEPT ![a].call = None]
  /\ system' = [system EXCEPT !.pc = "test", !.fsm = a]
  /\ list' = [list EXCEPT !.next[a] = Null]
  /\ UNCHANGED <<overlapped, init, server, backlog, sent, down>>

(* FSMList::Add, from the test of Tail on.                                 *)
AddStep(pc) == /\ system' = [system EXCEPT !.pc = pc]
               /\ overlapped' = (overlapped \/ GetRuns)
               /\ UNCHANGED <<init, server, fsm, conn, backlog, sent, down>>

AddTest ==
  /\ Run /\ system.pc = "test"
  /\ system' = [system EXCEPT !.pc = "link", !.tail = list.tail]
  /\ overlapped' = (overlapped \/ GetRuns)
  /\ UNCHANGED <<list, init, server, fsm, conn, backlog, sent, down>>

AddLink == /\ Run /\ system.pc = "link"
           /\ list' = IF system.tail = Null THEN [list EXCEPT !.head = system.fsm]
                      ELSE [list EXCEPT !.next[system.tail] = system.fsm]
           /\ AddStep("tail")

AddTail == /\ Run /\ system.pc = "tail"
           /\ list' = [list EXCEPT !.tail = system.fsm]
           /\ AddStep("load")

AddLoad ==
  /\ Run /\ system.pc = "load"
  /\ system' = [system EXCEPT !.pc = "store", !.count = list.count]
  /\ overlapped' = (overlapped \/ GetRuns)
  /\ UNCHANGED <<list, init, server, fsm, conn, backlog, sent, down>>

AddStore ==
  /\ Run /\ system.pc = "store"
  /\ list' = [list EXCEPT !.count = system.count + 1]
  /\ system' = Idle
  /\ overlapped' = (overlapped \/ GetRuns)
  /\ UNCHANGED <<init, server, fsm, conn, backlog, sent, down>>

Add == AddTest \/ AddLink \/ AddTail \/ AddLoad \/ AddStore

-----------------------------------------------------------------------------
Next ==
  \/ \E c \in Conn : Connect(c) \/ PeerSends(c) \/ PeerCloses(c)
  \/ \E created \in BOOLEAN : InitTCPServer(created)
  \/ StoreAutomateType \/ DeinitTCPServer
  \/ ServerThread
  \/ \E c \in Conn : ReceiveThread(c)
  \/ \E a \in Automate, answers \in BOOLEAN : Process(a, answers)
  \/ \E a \in Automate : EndCall(a)
  \/ Add

Spec == Init /\ [][Next]_vars

(* The server thread and an Add that was begun go on.                      *)
FairSpec == Spec /\ WF_vars(ServerThread) /\ WF_vars(Add)

-----------------------------------------------------------------------------
(* Type invariant of the list, the threads, the automates and connections. *)
TypeOK ==
  /\ {list.head, list.tail} \cup Range(list.next) \subseteq Automate \cup {Null}
  /\ list.count \in Nat
  /\ GetRuns \/ server.pc \in {"start", "client"} => server.fsm \in Automate
  /\ server.pc \notin {"none", "accept", "ended"} => conn[server.conn].sock # "none"
  /\ system.pc # "idle" => system.fsm \in Automate
  /\ \A a \in Automate : fsm[a].inbox \in Nat /\ {fsm[a].client, fsm[a].receivingSide, fsm[a].call}
                            \subseteq Conn \cup {None}
  /\ \A c \in Conn : /\ conn[c].wire \in 0 .. sent
                     /\ conn[c].thread # "none" => conn[c].netFSM \in Automate

(* The automates the list's links lead to.                                 *)
Chain == LET from[n \in 0 .. Len(Order)] == [a \in Automate \cup {Null} |->
               IF n = 0 \/ a = Null THEN <<>> ELSE <<a>> \o from[n - 1][list.next[a]]]
         IN from[Len(Order)][list.head]

(* Whatever the races do to the list, it never hands an automate out that  *)
(* has a call, that is being handed out, or that is not put back yet: one  *)
(* thread takes automates and one puts them back (systemTCP.cpp:213).      *)
NoAutomateTwice ==
  /\ server.pc = "unlink" =>
       fsm[server.fsm].call = None
  /\ \A a \in Automate : fsm[a].call # None => a \notin Range(Chain)

(* While Get and Add never ran at the same time, the list holds the free   *)
(* automates, once each, and Available is their number (fsmSystem.h:111).  *)
ListIsRight ==
  (~overlapped /\ ~GetRuns /\ system.pc = "idle" /\ ~down) =>
    /\ IsInjective(Chain)
    /\ Range(Chain) = {a \in Automate : fsm[a].call = None}
    /\ list.count = Len(Chain)
    /\ list.tail = IF Chain = <<>> THEN Null ELSE Chain[Len(Chain)]

(* killConnection does not wait for the receive thread: what it had        *)
(* received reaches the automate later, in its next call perhaps, but at   *)
(* most one message.                                                       *)
StaleIsBounded == \A c \in Conn : conn[c].stale <= 1

(* An automate answers to the client of its call, except that until        *)
(* acceptConnection stores the socket it answers to its previous one, or   *)
(* the process ends (NetFSM.cpp:102).                                      *)
RepliesToCaller ==
  \A a \in Automate :
    /\ fsm[a].call # None /\ ~(server.pc \in {"start", "client", "ended"} /\ server.fsm = a) =>
         fsm[a].client = fsm[a].call

(* Every connection is accepted: the server thread goes back to accept     *)
(* after each connection it hands over, whatever became of the earlier     *)
(* ones, unless it could not hand one over (systemTCP.cpp:167).            *)
ConnectionIsAnswered ==
  backlog # <<>>
    ~> \/ backlog = <<>> \/ down
       \/ server.pc = "ended" /\ \E c \in Conn : conn[c].thread = "none" /\ conn[c].sock = "closed"
=============================================================================
