------------------------------- MODULE DnsClient -------------------------------
(***************************************************************************)
(* The DNS client: the automates User, Client and Channel, the system      *)
(* thread that runs their handlers one message at a time, and the socket   *)
(* listener thread, which calls handlers of Channel on its own.            *)
(*                                                                         *)
(* A handler is a sequence of effects in the order of its statements; a    *)
(* thread performs one effect per step, so the two threads interleave      *)
(* between any two of them.  Posting is one step (module PostOffice shows  *)
(* the mailboxes to be FIFO queues without lost wake-ups).  Assertions are *)
(* active, as in the Debug build: a failing one stops the process.         *)
(***************************************************************************)
EXTENDS Integers, Sequences

CONSTANTS
  Name,         \* domain names the user may type
  NoData,       \* contents of a character buffer that was never written
  Blank,        \* the empty string
  Files,        \* what opening table.txt may give: NoFile or its lines
  NoFile,
  ServerReply(_), \* what the name server answers to a request
  MaxInputs,    \* bound: names typed in a run
  MaxSegments   \* bound: segments the server sends on the connection

ASSUME DnsClientAssumption ==
  /\ NoData \notin Name /\ Blank \notin Name
  /\ MaxInputs \in Nat /\ MaxSegments \in Nat

Channel == 0        \* CH_AUTOMATE_TYPE_ID and CH_AUTOMATE_MBX_ID
Client  == 1
User    == 2
Fsm     == {Channel, Client, User}
Thread  == {"system", "listener"}

VARIABLES
  mbx,        \* mbx[f]: the mailbox of automate f
  state,      \* state[f]: FiniteStateMachine::State
  todo,       \* todo[t]: effects thread t has still to perform
  running,    \* automate whose handler the system thread executes
  preparing,  \* threads between PrepareNewMessage and SendMessage of Channel
  buffer,     \* the character buffers of the automates
  flag,       \* ChAuto::FirstStartFlag, 2 for "more than once"
  timer,      \* TIMER1 of Client: where its TimerBuffer points
  listener,   \* where the listener thread is in ClientListener
  inputs,     \* names typed so far
  segments,   \* segments received so far
  asked,      \* history: the name the user waits for
  shown,      \* history: the last answer printed, and the name it was for
  halted      \* an assertion failed

vars == <<mbx, state, todo, running, preparing, buffer, flag, timer,
          listener, inputs, segments, asked, shown, halted>>

-----------------------------------------------------------------------------
(* Effects.                                                                *)
Msg(type, val)    == [type |-> type, val |-> val]
Send(f, type, b)  == [op |-> "send", to |-> f, type |-> type, from |-> b]
SetState(s)       == [op |-> "state", val |-> s]
Store(b, v)       == [op |-> "store", buf |-> b, val |-> v]
Do(what)          == [op |-> what]

(* A message of Channel.  NewMessage of the automate is occupied from      *)
(* PrepareNewMessage until SendMessage resets it, after the post.  User    *)
(* and Client do the same, but only the system thread uses theirs.         *)
ChannelSend(f, type, b) == << Do("PrepareNewMessage"), Send(f, type, b), Do("SetNewMessage") >>

(* DNSRequestInput of User, Client and Channel, DNSRequestOutput of Client,*)
(* the listener's receive buffer, what was sent to the server; "none" is   *)
(* the source of a message without parameters.                             *)
BufferId == {"user", "clIn", "clOut", "chIn", "recv", "sent", "none"}

-----------------------------------------------------------------------------
(* UserAuto.                                                               *)
User_Idle_Set_All ==
  << Send(Client,  "Client_Idle", "none"),
     Send(Channel, "Channel_Idle", "none"),
     Send(User,    "User_Data_Input", "none"),
     SetState("User_Data_Input") >>

User_Data_Input_From_Console ==
  << Do("scanf"),
     Send(User, "User_To_Client_Data_Sent", "none"),
     SetState("User_To_Client_Data") >>

User_Pass_Data_To_Client ==
  << Send(Client, "User_To_Client_Data_Sent", "user"),
     SetState("Client_To_User_Return_Data") >>

User_Get_Data_From_Client(m) ==
  << Store("user", m.val), Do("print") >> \o User_Idle_Set_All

(* ClAuto.                                                                 *)
Client_Idle_State == << SetState("Client_Input_From_User") >>

Client_Get_Data_From_User(m) ==
  << Store("clIn", m.val),
     Send(Client, "Client_Check_Local_Table", "none"),
     SetState("Client_Check_Local_Table") >>

(* string::copy copies from the string it is called on: search stays empty *)
(* and DNSRequestInput is not changed.  Every line contains the empty      *)
(* string.  On a match the next line, or what is left of a file that ends  *)
(* there, is the answer.                                                   *)
Search == Blank
Contains(line, needle) == needle = Blank \/ needle = line
Matches(file) == {i \in DOMAIN file : Contains(file[i], Search)}
Line(file, i) == IF i \in DOMAIN file THEN file[i] ELSE Blank
Found(file) == file # NoFile /\ (Matches(file) # {} \/ Contains(Blank, Search))
LocalAnswer(file) ==
  IF Matches(file) = {} THEN Blank
  ELSE LET i == CHOOSE k \in Matches(file) : \A l \in Matches(file) : k <= l
       IN Line(file, i + 1)

Client_Check_In_Local_Table(file) ==
  IF Found(file)
    THEN << Store("clOut", LocalAnswer(file)),
            Send(Client, "Client_To_User_Return_Data_Recived", "none"),
            SetState("Client_DNS_Recived") >>
    ELSE << Send(Client, "Client_To_Channel_DNS_Request_Sent", "none"),
            SetState("Client_DNS_Request") >>

Client_Pass_DNS_Request_To_Channel ==
  << Send(Channel, "Client_To_Channel_DNS_Request_Sent", "clIn"),
     Do("StartTimer"),
     SetState("Client_DNS_Recived") >>

(* Faulty variants of the next handler: the timer keeps running; the reply *)
(* is not copied; the message to itself is not sent.                       *)
ReplyKeepsTimer(m) ==
  << Store("clOut", m.val),
     Send(Client, "Client_To_User_Return_Data_Recived", "none") >>
ReplyNotCopied(m) ==
  << Do("StopTimer"), Send(Client, "Client_To_User_Return_Data_Recived", "none") >>
ReplyNotPassed(m) == << Do("StopTimer"), Store("clOut", m.val) >>

Client_Get_DNS_Request_From_Channel(m) ==
  << Do("StopTimer"),
     Store("clOut", m.val),
     Send(Client, "Client_To_User_Return_Data_Recived", "none") >>

(* Faulty variants of the next handler: Client stays in the state it waits *)
(* for replies in; Client takes a state of User.                           *)
PassAndStay == << Send(User, "Client_To_User_Return_Data_Recived", "clOut") >>
PassToUserState ==
  << Send(User, "Client_To_User_Return_Data_Recived", "clOut"),
     SetState("Client_To_User_Return_Data") >>

Client_Pass_DNS_Request_To_Client ==
  << Send(User, "Client_To_User_Return_Data_Recived", "clOut"),
     SetState("Client_Idle") >>

Client_Timer_Expired ==
  << Send(Client, "Client_To_Channel_DNS_Request_Sent", "none"),
     SetState("Client_DNS_Request") >>

(* ChAuto.                                                                 *)
Channel_Idle_State == << SetState("Channel_DNS_Request"), Do("FirstStartFlag++") >>

(* Faulty variant of the next handler: a socket on every start.            *)
ConnectOnEveryStart(m) ==
  << Store("chIn", m.val) >> \o
     (IF flag >= 1
        THEN ChannelSend(Channel, "Channel_Create_Socket", "none")
               \o << SetState("Channel_Connect") >>
        ELSE <<>>)

Channel_Get_DNS_Request(m) ==
  << Store("chIn", m.val) >> \o
     (IF flag = 1
        THEN ChannelSend(Channel, "Channel_Create_Socket", "none")
               \o << SetState("Channel_Connect") >>
        ELSE <<>>)

(* WSAStartup, name resolution, socket or connect may fail, or CreateThread*)
(* after the request was sent; the state stays as it is.                   *)
Attempt == {"refused", "NoThread", "connected"}
Channel_Connect_State(attempt) ==
  CASE attempt = "refused"   -> <<>>
    [] attempt = "NoThread" -> << Do("SendToServer") >>
    [] OTHER                 -> << Do("SendToServer"), Do("CreateThread") >>

Channel_Disconnect_State ==
  ChannelSend(Channel, "Channel_Idle", "none") \o << SetState("Channel_Idle") >>

Channel_To_Client_DNS_Request_Pass ==
  ChannelSend(Client, "Channel_To_Client_DNS_Request_Recived", "recv")
    \o ChannelSend(Channel, "Channel_Disconnect", "none")
    \o << SetState("Channel_Disconnect") >>

-----------------------------------------------------------------------------
(* GetProcedure: the branch for the message in the automate's state, or    *)
(* DoNothing.  file and attempt stand for the environment of the two       *)
(* handlers that look at it.                                               *)
Procedure(f, m, file, attempt) ==
  LET at(s, type) == state[f] = s /\ m.type = type IN
  CASE at("User_Idle", "User_Idle")             -> User_Idle_Set_All
    [] at("User_Data_Input", "User_Data_Input") -> User_Data_Input_From_Console
    [] at("User_To_Client_Data", "User_To_Client_Data_Sent")
                                                -> User_Pass_Data_To_Client
    [] at("Client_To_User_Return_Data", "Client_To_User_Return_Data_Recived")
                                                -> User_Get_Data_From_Client(m)
    [] at("Client_Idle", "Client_Idle")         -> Client_Idle_State
    [] at("Client_Input_From_User", "User_To_Client_Data_Sent")
                                                -> Client_Get_Data_From_User(m)
    [] at("Client_Check_Local_Table", "Client_Check_Local_Table")
                                                -> Client_Check_In_Local_Table(file)
    [] at("Client_DNS_Request", "Client_To_Channel_DNS_Request_Sent")
                                                -> Client_Pass_DNS_Request_To_Channel
    [] at("Client_DNS_Recived", "Channel_To_Client_DNS_Request_Recived")
                                                -> Client_Get_DNS_Request_From_Channel(m)
    [] at("Client_DNS_Recived", "Client_To_User_Return_Data_Recived")
                                                -> Client_Pass_DNS_Request_To_Client
    [] at("Client_DNS_Request", "Timer_Expired") -> Client_Timer_Expired
    [] at("Channel_Idle", "Channel_Idle")       -> Channel_Idle_State
    [] at("Channel_DNS_Request", "Client_To_Channel_DNS_Request_Sent")
                                                -> Channel_Get_DNS_Request(m)
    [] at("Channel_Connect", "Channel_Create_Socket")
                                                -> Channel_Connect_State(attempt)
    [] at("Channel_Disconnect", "Channel_Disconnect") -> Channel_Disconnect_State
    [] OTHER                                    -> <<>>

Init ==
  /\ mbx = [f \in Fsm |-> IF f = User THEN << Msg("User_Idle", NoData) >> ELSE <<>>]
  /\ state = [f \in Fsm |-> CASE f = Channel -> "Channel_Idle"
                              [] f = Client  -> "Client_Idle"
                              [] f = User    -> "User_Idle"]
  /\ todo = [t \in Thread |-> <<>>]
  /\ running = User
  /\ preparing = {}
  /\ buffer = [b \in BufferId |-> NoData]
  /\ flag = 0
  /\ timer = "null"
  /\ listener = "none"
  /\ inputs = 0 /\ segments = 0
  /\ asked = NoData
  /\ shown = [name |-> NoData, answer |-> NoData]
  /\ halted = FALSE

(* FSMSystem::Start: the system thread, done with a message, takes the     *)
(* next one from the first mailbox that has any and looks up its handler.  *)
(* The buffer of an expired timer is free once its message was processed,  *)
(* but TimerBuffer of the automate still points to it.                     *)
Dispatch(f) ==
  /\ ~halted
  /\ todo["system"] = <<>>
  /\ mbx[f] # <<>>
  /\ \A h \in Fsm : h < f => mbx[h] = <<>>
  /\ \E file \in Files, attempt \in Attempt :
       todo' = [todo EXCEPT !["system"] = Procedure(f, Head(mbx[f]), file, attempt)]
  /\ mbx' = [mbx EXCEPT ![f] = Tail(@)]
  /\ running' = f
  /\ timer' = IF Head(mbx[f]).type = "Timer_Expired" THEN "stale" ELSE timer
  /\ UNCHANGED <<state, preparing, buffer, flag, listener, inputs, segments,
                 asked, shown, halted>>

-----------------------------------------------------------------------------
(* Performing the next effect of a thread's handler.                       *)
Effect(t)    == Head(todo[t])
Self(t)      == IF t = "system" THEN running ELSE Channel
At(t, op)    == ~halted /\ todo[t] # <<>> /\ Effect(t).op = op
Performed(t) == todo' = [todo EXCEPT ![t] = Tail(@)]

(* assert(!NewMessage), then the automate has a new message.               *)
PrepareNewMessage(t) ==
  /\ At(t, "PrepareNewMessage")
  /\ Performed(t)
  /\ IF preparing = {} THEN preparing' = {t} /\ UNCHANGED halted
                       ELSE halted' = TRUE /\ UNCHANGED preparing
  /\ UNCHANGED <<mbx, state, running, buffer, flag, timer, listener, inputs,
                 segments, asked, shown>>

SendMessage(t) ==
  /\ At(t, "send")
  /\ Performed(t)
  /\ LET e == Effect(t) IN
       mbx' = [mbx EXCEPT ![e.to] = Append(@, Msg(e.type, buffer[e.from]))]
  /\ UNCHANGED <<state, running, preparing, buffer, flag, timer, listener,
                 inputs, segments, asked, shown, halted>>

SetNewMessage(t) ==
  /\ At(t, "SetNewMessage")
  /\ Performed(t)
  /\ preparing' = {}
  /\ UNCHANGED <<mbx, state, running, buffer, flag, timer, listener, inputs,
                 segments, asked, shown, halted>>

WriteState(t) ==
  /\ At(t, "state")
  /\ Performed(t)
  /\ state' = [state EXCEPT ![Self(t)] = Effect(t).val]
  /\ UNCHANGED <<mbx, running, preparing, buffer, flag, timer, listener,
                 inputs, segments, asked, shown, halted>>

CopyData ==
  /\ At("system", "store")
  /\ Performed("system")
  /\ LET e == Effect("system") IN buffer' = [buffer EXCEPT ![e.buf] = e.val]
  /\ UNCHANGED <<mbx, state, running, preparing, flag, timer, listener,
                 inputs, segments, asked, shown, halted>>

(* scanf blocks the system thread until the user types a name.             *)
ReadConsole(n) ==
  /\ At("system", "scanf")
  /\ inputs < MaxInputs
  /\ Performed("system")
  /\ inputs' = inputs + 1
  /\ buffer' = [buffer EXCEPT !["user"] = n]
  /\ asked' = n
  /\ UNCHANGED <<mbx, state, running, preparing, flag, timer, listener,
                 segments, shown, halted>>

PrintAnswer ==
  /\ At("system", "print")
  /\ Performed("system")
  /\ shown' = [name |-> asked, answer |-> buffer["user"]]
  /\ asked' = NoData
  /\ UNCHANGED <<mbx, state, running, preparing, buffer, flag, timer,
                 listener, inputs, segments, halted>>

(* FiniteStateMachine::StartTimer asserts TimerBuffer == 0.                *)
StartTimer ==
  /\ At("system", "StartTimer")
  /\ Performed("system")
  /\ IF timer = "null" THEN timer' = "running" /\ UNCHANGED halted
                       ELSE halted' = TRUE /\ UNCHANGED timer
  /\ UNCHANGED <<mbx, state, running, preparing, buffer, flag, listener,
                 inputs, segments, asked, shown>>

(* A stopped timer's message is marked DISCARDED and TMailBox::Get drops   *)
(* it: one that is already queued will not reach the automate.             *)
WithoutExpiry(q) ==
  LET i == CHOOSE i \in DOMAIN q : q[i].type = "Timer_Expired"
  IN SubSeq(q, 1, i - 1) \o SubSeq(q, i + 1, Len(q))
StopTimer ==
  /\ At("system", "StopTimer")
  /\ Performed("system")
  /\ timer' = "null"
  /\ mbx' = IF timer = "queued"
              THEN [mbx EXCEPT ![Client] = WithoutExpiry(@)]
              ELSE mbx
  /\ UNCHANGED <<state, running, preparing, buffer, flag, listener, inputs,
                 segments, asked, shown, halted>>

CountStart ==
  /\ At("system", "FirstStartFlag++")
  /\ Performed("system")
  /\ flag' = IF flag < 2 THEN flag + 1 ELSE flag
  /\ UNCHANGED <<mbx, state, running, preparing, buffer, timer, listener,
                 inputs, segments, asked, shown, halted>>

SendToServer ==
  /\ At("system", "SendToServer")
  /\ Performed("system")
  /\ buffer' = [buffer EXCEPT !["sent"] = buffer["chIn"]]
  /\ UNCHANGED <<mbx, state, running, preparing, flag, timer, listener,
                 inputs, segments, asked, shown, halted>>

CreateListener ==
  /\ At("system", "CreateThread")
  /\ Performed("system")
  /\ listener' = "recv"
  /\ UNCHANGED <<mbx, state, running, preparing, buffer, flag, timer, inputs,
                 segments, asked, shown, halted>>

-----------------------------------------------------------------------------
(* TimerIntHandler: the running timer of Client expires.                   *)
TimerExpires ==
  /\ ~halted
  /\ timer = "running"
  /\ timer' = "queued"
  /\ mbx' = [mbx EXCEPT ![Client] = Append(@, Msg("Timer_Expired", NoData))]
  /\ UNCHANGED <<state, todo, running, preparing, buffer, flag, listener,
                 inputs, segments, asked, shown, halted>>

(* ChAuto::ClientListener: recv returned data, which the listener passes   *)
(* on itself, then sleeps for a second.                                    *)
Receive ==
  /\ ~halted
  /\ listener = "recv"
  /\ segments < MaxSegments
  /\ segments' = segments + 1
  /\ buffer' = [buffer EXCEPT !["recv"] = ServerReply(buffer["sent"])]
  /\ todo' = [todo EXCEPT !["listener"] = Channel_To_Client_DNS_Request_Pass]
  /\ listener' = "sleep"
  /\ UNCHANGED <<mbx, state, running, preparing, flag, timer, inputs, asked,
                 shown, halted>>

SleepOver ==
  /\ ~halted
  /\ listener = "sleep"
  /\ todo["listener"] = <<>>
  /\ listener' = "recv"
  /\ UNCHANGED <<mbx, state, todo, running, preparing, buffer, flag, timer,
                 inputs, segments, asked, shown, halted>>

(* recv returned 0: the server closed the connection.                      *)
ServerCloses ==
  /\ ~halted
  /\ listener = "recv"
  /\ todo' = [todo EXCEPT !["listener"] = Channel_Disconnect_State]
  /\ listener' = "done"
  /\ UNCHANGED <<mbx, state, running, preparing, buffer, flag, timer, inputs,
                 segments, asked, shown, halted>>

(* recv failed.                                                            *)
ReceiveFails ==
  /\ ~halted
  /\ listener = "recv"
  /\ listener' = "done"
  /\ UNCHANGED <<mbx, state, todo, running, preparing, buffer, flag, timer,
                 inputs, segments, asked, shown, halted>>

ThreadStep(t) == PrepareNewMessage(t) \/ SendMessage(t) \/ SetNewMessage(t) \/ WriteState(t)
SystemStep    == CopyData \/ PrintAnswer \/ StartTimer \/ StopTimer \/ CountStart
                   \/ SendToServer \/ CreateListener

Next ==
  \/ \E f \in Fsm : Dispatch(f)
  \/ \E t \in Thread : ThreadStep(t)
  \/ SystemStep
  \/ \E n \in Name : ReadConsole(n)
  \/ TimerExpires
  \/ Receive \/ SleepOver \/ ServerCloses \/ ReceiveFails

Spec == Init /\ [][Next]_vars

(* Threads that can run do run, and the periodic timer ticks.  Nothing is  *)
(* assumed of the user and of the server.                                  *)
Fairness ==
  /\ WF_vars(\E f \in Fsm : Dispatch(f))
  /\ WF_vars(ThreadStep("system") \/ SystemStep)
  /\ WF_vars(ThreadStep("listener"))
  /\ WF_vars(SleepOver)
  /\ WF_vars(TimerExpires)

FairSpec == Spec /\ Fairness

-----------------------------------------------------------------------------
StateOf ==
  [f \in Fsm |->
     CASE f = Channel -> {"Channel_Idle", "Channel_DNS_Request", "Channel_Connect",
                          "Channel_Disconnect"}
       [] f = Client  -> {"Client_Idle", "Client_Input_From_User", "Client_Check_Local_Table",
                          "Client_DNS_Request", "Client_DNS_Recived"}
       [] f = User    -> {"User_Idle", "User_Data_Input", "User_To_Client_Data",
                          "Client_To_User_Return_Data"}]

(* Type invariant of the client (ChAuto, ClAuto, UserAuto).                *)
TypeOK ==
  /\ \A f \in Fsm : state[f] \in StateOf[f]
  /\ \A f \in Fsm : \A i \in DOMAIN mbx[f] : DOMAIN mbx[f][i] = {"type", "val"}
  /\ running \in Fsm
  /\ preparing \in SUBSET Thread
  /\ flag \in 0 .. 2
  /\ timer \in {"null", "running", "queued", "stale"}
  /\ listener \in {"none", "recv", "sleep", "done"}
  /\ inputs \in 0 .. MaxInputs /\ segments \in 0 .. MaxSegments
  /\ asked \in Name \cup {NoData}
  /\ halted \in BOOLEAN

Running(f) == running = f /\ todo["system"] # <<>>

(* What User handles in each of its states (UserAuto::Initialize).         *)
UserExpects ==
  [User_Idle                  |-> "User_Idle",
   User_Data_Input            |-> "User_Data_Input",
   User_To_Client_Data        |-> "User_To_Client_Data_Sent",
   Client_To_User_Return_Data |-> "Client_To_User_Return_Data_Recived"]

(* User never loses a message to DoNothing and is never driven twice: its  *)
(* mailbox holds at most one message, the one its state handles, however   *)
(* many segments, timeouts and table hits produce answers in Client.       *)
UserInStep ==
  ~Running(User) =>
    /\ Len(mbx[User]) <= 1
    /\ \A i \in DOMAIN mbx[User] : mbx[User][i].type = UserExpects[state[User]]

(* Client leaves FSM_Client_DNS_Recived only with TimerBuffer reset, even  *)
(* when the timer expired unhandled: so StartTimer's assertion of the next *)
(* request (fsm.cpp:215) cannot fail.                                      *)
TimerOnlyWhileWaiting ==
  (timer # "null" /\ ~Running(Client)) => state[Client] = "Client_DNS_Recived"

(* At most one connection is made in the life of the process, and what is  *)
(* sent on it is the name the user is waiting for ("Create socket only on  *)
(* first start", ChAuto.cpp:83): a later request, a repeated Channel_Idle  *)
(* or a return from a failed connect never starts a second listener on the *)
(* shared m_Socket.                                                        *)
OneConnection ==
  At("system", "CreateThread") => listener = "none" /\ buffer["sent"] = asked

(* What is printed for a name answers that name: it comes from the server, *)
(* asked for this name, or from table.txt.  It holds while the server has   *)
(* sent a single segment: a second one may be taken for the answer to the  *)
(* next request.                                                           *)
AnswerIsForTheName ==
  (shown.name # NoData /\ segments <= 1) =>
    shown.answer \in {ServerReply(shown.name)}
                       \cup {LocalAnswer(f) : f \in {g \in Files : Found(g)}}

(* An answer that waits in Client's mailbox, from the server or from       *)
(* table.txt, is printed and the user is asked for the next name, also     *)
(* when the timer expires meanwhile (or an assertion stops the process).   *)
AnswerWaits ==
  /\ state[Client] = "Client_DNS_Recived"
  /\ \E i \in DOMAIN mbx[Client] :
        mbx[Client][i].type \in {"Channel_To_Client_DNS_Request_Recived",
                                "Client_To_User_Return_Data_Recived"}
AnswerReachesUser ==
  AnswerWaits ~> ((asked = NoData /\ At("system", "scanf")) \/ halted)

-----------------------------------------------------------------------------
(* "If timer expires send request again" (ClAuto.cpp:193): an expiry that  *)
(* reaches Client leads to another request in Channel's mailbox, unless    *)
(* the reply comes after all.  The code registers the handler for          *)
(* FSM_Client_DNS_Request, but waits in FSM_Client_DNS_Recived.            *)
TimeoutRepeatsRequest ==
  (timer = "queued") ~>
     (timer = "null" \/ \E i \in DOMAIN mbx[Channel] :
                           mbx[Channel][i].type = "Client_To_Channel_DNS_Request_Sent")

(* "Posle slanja disconnectuj se" (after sending, disconnect;              *)
(* ChAuto.cpp:187): once the listener passed the reply on, Channel handles *)
(* the disconnect and leaves FSM_Channel_Disconnect.                       *)
DisconnectAfterReply ==
  (state[Channel] = "Channel_Disconnect") ~> (state[Channel] # "Channel_Disconnect" \/ halted)

(* assert(!NewMessage) (messages.cpp:62) holds whenever a handler starts a *)
(* new message: the automate has no other message under construction.      *)
NewMessageIsFree ==
  \A t \in Thread : At(t, "PrepareNewMessage") => preparing = {}
=============================================================================
