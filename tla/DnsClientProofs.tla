---------------------------- MODULE DnsClientProofs ----------------------------
(***************************************************************************)
(* Proofs about the DNS client for any names, table files, name server,    *)
(* and numbers of inputs and segments.                                     *)
(*                                                                         *)
(* A handler of the system thread is a list of effects, performed one by   *)
(* one between steps of the listener and of the timer.  The invariant      *)
(* speaks of what will be when the running handler has ended: of messages  *)
(* that are posted or are still to be posted, and of the state, the timer, *)
(* the flag and the buffers as the effects ahead will leave them.  So a    *)
(* step of a handler changes almost nothing, and taking a message from a   *)
(* mailbox is where the argument about the three automates is made.        *)
(***************************************************************************)
EXTENDS DnsClient, Functions, SequenceTheorems, TLAPS

-----------------------------------------------------------------------------
(* Sets of effects, and what they leave behind.                            *)
Sends(e, f, K)  == e.op = "send" /\ e.to = f /\ e.type \in K
Stores(e, b)    == e.op = "store" /\ e.buf = b
DoesIn(A, op)   == \E e \in A : e.op = op
OnlyOnce(A)     == \A d, e \in A : d.op = e.op /\ d.op # "send" => d = e

StateAfter(A, s) ==
  IF DoesIn(A, "state") THEN (CHOOSE e \in A : e.op = "state").val ELSE s
BufferAfter(A, b, v) ==
  IF \E e \in A : Stores(e, b) THEN (CHOOSE e \in A : Stores(e, b)).val ELSE v
TimerAfter(A, t) ==
  IF DoesIn(A, "StartTimer") THEN "running" ELSE IF DoesIn(A, "StopTimer") THEN "null" ELSE t
FlagAfter(A, n) == IF DoesIn(A, "FirstStartFlag++") /\ n < 2 THEN n + 1 ELSE n

(* Messages of some types that are in a mailbox or will be posted to it.   *)
InBox(q, K)       == \E m \in Range(q) : m.type \in K
ToSend(A, f, K)   == \E e \in A : Sends(e, f, K)
HasIn(q, A, f, K) == InBox(q, K) \/ ToSend(A, f, K)
OneIn(q, K)       == \A i, j \in DOMAIN q : q[i].type \in K /\ q[j].type \in K => i = j
Single(q, A, f, K) ==
  /\ OneIn(q, K)
  /\ \A d, e \in A : Sends(d, f, K) /\ Sends(e, f, K) => d = e
  /\ ~(InBox(q, K) /\ ToSend(A, f, K))

(* The order of effects in a handler: the reply's timer is stopped and     *)
(* parameters are copied first, and input and output precede what is sent. *)
Rank(op) == CASE op = "StopTimer"                             -> 0
              [] op = "store"                                 -> 1
              [] op \in {"print", "scanf", "SendToServer"}  -> 2
              [] OTHER                                        -> 3
Sorted(s) == \A i, j \in DOMAIN s : i < j => Rank(s[i].op) <= Rank(s[j].op)
IsSeq(s)  == s \in Seq(Range(s))
Handler(s) == IsSeq(s) /\ IsInjective(s) /\ Sorted(s) /\ OnlyOnce(Range(s))

-----------------------------------------------------------------------------
(* When the running handler has ended.                                     *)
Ahead    == Range(todo["system"])
Does(op) == DoesIn(Ahead, op)
Has(f, K) == HasIn(mbx[f], Ahead, f, K)
FinalState(f)  == IF running = f THEN StateAfter(Ahead, state[f]) ELSE state[f]
FinalBuffer(b) == BufferAfter(Ahead, b, buffer[b])
FinalTimer     == TimerAfter(Ahead, timer)
FinalFlag      == FlagAfter(Ahead, flag)

UserTypes == {"User_Idle", "User_Data_Input", "User_To_Client_Data_Sent",
              "Client_To_User_Return_Data_Recived"}
Request == {"User_To_Client_Data_Sent"}      \* to Client
Answer  == {"Client_To_User_Return_Data_Recived"}
Reply   == {"Channel_To_Client_DNS_Request_Recived"}
Expiry  == {"Timer_Expired"}
Driving == {"Client_Idle", "User_To_Client_Data_Sent", "Client_Check_Local_Table",
            "Client_To_Channel_DNS_Request_Sent"}
ToServer == {"Client_To_Channel_DNS_Request_Sent"}      \* to Channel
Create   == {"Channel_Create_Socket"}
Noise    == Reply \cup Expiry \cup {"Channel_Idle", "Channel_Disconnect"}

Busy == FinalState(Client) \in {"Client_Check_Local_Table", "Client_DNS_Request",
                                "Client_DNS_Recived"}
Received == FinalState(Client) = "Client_DNS_Recived"
Waiting  == "Client_To_User_Return_Data"

-----------------------------------------------------------------------------
(* The inductive invariant.                                                *)
Variables ==
  /\ state = [f \in Fsm |-> state[f]] /\ \A f \in Fsm : state[f] \in StateOf[f]
  /\ mbx = [f \in Fsm |-> mbx[f]]
  /\ \A f \in Fsm : IsSeq(mbx[f]) /\ \A m \in Range(mbx[f]) : m = Msg(m.type, m.val)
  /\ todo = [t \in Thread |-> todo[t]]
  /\ buffer = [b \in BufferId |-> buffer[b]]
  /\ running \in Fsm /\ preparing \in SUBSET Thread /\ flag \in 0 .. 2
  /\ timer \in {"null", "running", "queued", "stale"}
  /\ listener \in {"none", "recv", "sleep", "done"}
  /\ inputs \in 0 .. MaxInputs /\ segments \in 0 .. MaxSegments
  /\ asked \in Name \cup {NoData} /\ halted \in BOOLEAN

Legal(e) ==
  /\ e.op = "send" => /\ e.to \in Fsm
                      /\ e.to = User => e.type \in UserTypes
                      /\ Sends(e, Client, Request) => e.from = "user"
                      /\ Sends(e, Channel, ToServer) => e.from = "clIn"
                      /\ Sends(e, User, Answer) => e.from = "clOut"
                      /\ ~Sends(e, Client, Reply) /\ ~Sends(e, Client, Expiry)
                      /\ ~Sends(e, Channel, Expiry)
  /\ e.op = "store" => e.buf \in {"user", "clIn", "clOut", "chIn"}

SystemEffects(A, f) ==
  /\ \A e \in A : Legal(e) /\ (e.op = "state" => e.val \in StateOf[f])
  /\ ~(DoesIn(A, "StartTimer") /\ DoesIn(A, "StopTimer"))
  /\ DoesIn(A, "StopTimer") => f = Client
  /\ DoesIn(A, "CreateThread") => ~DoesIn(A, "state")
  /\ DoesIn(A, "print") => ToSend(A, User, {"User_Data_Input"})
  /\ DoesIn(A, "scanf") => ToSend(A, User, {"User_To_Client_Data_Sent"})

ToReply(e) == e.op = "send" /\ e.to = Client
OneReply(s) == \A i, j \in DOMAIN s : ToReply(s[i]) /\ ToReply(s[j]) => i = j
ListenerEffects(s) ==
  /\ IsSeq(s) /\ OneReply(s)
  /\ \A e \in Range(s) :
       /\ e.op \in {"PrepareNewMessage", "send", "SetNewMessage", "state"}
       /\ e.op = "state" => e.val \in {"Channel_Idle", "Channel_Disconnect"}
       /\ e.op = "send" => \/ Sends(e, Client, Reply) /\ e.from = "recv"
                           \/ Sends(e, Channel, {"Channel_Idle", "Channel_Disconnect"})

Effects ==
  /\ Handler(todo["system"]) /\ SystemEffects(Ahead, running)
  /\ ListenerEffects(todo["listener"])

(* User has one message, which its state handles, or none, while Client is *)
(* busy for it; and Client has one request at a time.                      *)
Turn ==
  /\ \A m \in Range(mbx[User]) : m.type = UserExpects[FinalState(User)]
  /\ \A e \in Ahead : Sends(e, User, UserTypes) => e.type = UserExpects[FinalState(User)]
  /\ Single(mbx[User], Ahead, User, UserTypes)
  /\ Busy \/ Has(Client, Request) => ~Has(User, UserTypes) /\ FinalState(User) = Waiting
  /\ Has(Client, Request) => ~Busy

(* What drives Client comes one at a time and never beside an answer, so   *)
(* its timer is off when it leaves FSM_Client_DNS_Recived.                 *)
Drive ==
  /\ Single(mbx[Client], Ahead, Client, Driving)
  /\ Has(Client, Answer) => ~Has(Client, Driving) /\ FinalTimer = "null"
  /\ Received => ~Has(Client, Driving)
  /\ FinalTimer # "null" => Received
  /\ Does("StartTimer") => timer = "null"
  /\ Does("scanf") \/ Does("print") => ~Has(Client, Answer)

(* The message of an expired timer is in the mailbox, once, or gone.       *)
Expiries ==
  /\ timer = "queued" <=> InBox(mbx[Client], Expiry)
  /\ OneIn(mbx[Client], Expiry) /\ ~InBox(mbx[Channel], Expiry)

(* The socket is created once: until there is a listener FirstStartFlag    *)
(* and the state of Channel say how far it is, afterwards the flag or the  *)
(* state forbids it.                                                       *)
Connecting == Does("SendToServer") \/ Does("CreateThread")
Creation   == Has(Channel, Create) \/ Connecting
Socket ==
  /\ listener = "none" =>
       /\ todo["listener"] = <<>> /\ segments = 0
       /\ \/ FinalFlag = 0 /\ FinalState(Channel) = "Channel_Idle" /\ ~Creation
          \/ FinalFlag = 1 /\ FinalState(Channel) = "Channel_DNS_Request" /\ ~Creation
          \/ /\ FinalFlag = 1 /\ FinalState(Channel) = "Channel_Connect"
             /\ Single(mbx[Channel], Ahead, Channel, Create)
             /\ ~(Has(Channel, Create) /\ Connecting)
  /\ listener # "none" =>
       /\ ~Creation /\ FinalFlag >= 1
       /\ FinalFlag = 1 => /\ state[Channel] # "Channel_DNS_Request"
                           /\ running = Channel =>
                                \A e \in Ahead : e.op = "state" => e.val # "Channel_DNS_Request"

(* The name the user waits for, on its way to the server.                  *)
Asked ==
  /\ Has(User, Request) /\ ~Does("scanf") => FinalBuffer("user") = asked
  /\ ToSend(Ahead, Client, Request) => FinalBuffer("user") = asked
  /\ \A m \in Range(mbx[Client]) : m.type \in Request => m.val = asked
  /\ Busy => FinalBuffer("clIn") = asked
  /\ \A m \in Range(mbx[Channel]) : m.type \in ToServer => m.val = asked
  /\ Has(Channel, ToServer) \/ Creation => Received /\ ~Has(Client, Answer)
  /\ Has(Channel, Create) \/ Does("SendToServer") => FinalBuffer("chIn") = asked
  /\ Does("CreateThread") /\ ~Does("SendToServer") => buffer["sent"] = asked

(* The reply to it, and the answer on its way to the user.                 *)
Replying == \E e \in Range(todo["listener"]) : ToReply(e)
Good(v, n) == v = ServerReply(n) \/ \E f \in Files : Found(f) /\ v = LocalAnswer(f)

Replies ==
  /\ segments = 0 => ~Replying /\ ~InBox(mbx[Client], Reply)
  /\ segments = 1 =>
       /\ ~(Replying /\ InBox(mbx[Client], Reply))
       /\ OneIn(mbx[Client], Reply)
       /\ Replying => buffer["recv"] = ServerReply(buffer["sent"])
       /\ \A m \in Range(mbx[Client]) : m.type \in Reply => m.val = ServerReply(buffer["sent"])
  /\ listener # "none" /\ (segments = 0 \/ (segments = 1 /\ (Replying \/ InBox(mbx[Client], Reply)))) =>
       Received /\ ~Has(Client, Answer) /\ buffer["sent"] = asked

Answers ==
  segments <= 1 =>
    /\ Has(Client, Answer) => Good(FinalBuffer("clOut"), asked)
    /\ \A m \in Range(mbx[User]) : m.type \in Answer => Good(m.val, asked)
    /\ ToSend(Ahead, User, Answer) => Good(FinalBuffer("clOut"), asked)
    /\ Does("print") => Good(FinalBuffer("user"), asked)

IInv ==
  Variables /\ Effects /\ Turn /\ Drive /\ Expiries /\ Socket /\ Asked /\ Replies 
    /\ Answers /\ AnswerIsForTheName

-----------------------------------------------------------------------------
(* Facts about mailboxes and lists of effects.                             *)

(* Taking the first element off a list.                                    *)
LEMMA HeadAndTail ==
  ASSUME NEW s, IsSeq(s), s # <<>>
  PROVE  /\ IsSeq(Tail(s)) /\ Head(s) \in Range(s) /\ Head(s) = s[1]
         /\ Range(s) = {Head(s)} \cup Range(Tail(s))
         /\ Len(s) \in Nat \ {0} /\ DOMAIN s = 1 .. Len(s)
         /\ DOMAIN Tail(s) = 1 .. (Len(s) - 1)
         /\ \A i \in DOMAIN Tail(s) : i + 1 \in DOMAIN s /\ Tail(s)[i] = s[i + 1]
<1>1. s \in Seq(Range(s)) BY DEF IsSeq
<1>2. /\ Len(s) \in Nat \ {0} /\ DOMAIN s = 1 .. Len(s) /\ Head(s) = s[1]
      /\ Tail(s) \in Seq(Range(s)) /\ Len(Tail(s)) = Len(s) - 1
      /\ \A i \in 1 .. Len(s) - 1 : Tail(s)[i] = s[i + 1]
  BY <1>1
<1>3. /\ DOMAIN Tail(s) = 1 .. (Len(s) - 1)
      /\ \A i \in DOMAIN Tail(s) : i + 1 \in DOMAIN s /\ Tail(s)[i] = s[i + 1]
  BY <1>2
<1>4. Head(s) \in Range(s) BY <1>2 DEF Range
<1>5. Range(s) = {Head(s)} \cup Range(Tail(s))
  <2>1. ASSUME NEW i \in DOMAIN s PROVE s[i] \in {Head(s)} \cup Range(Tail(s))
    <3>1. CASE i = 1 BY <3>1, <1>2
    <3>2. CASE i # 1
      <4>1. i - 1 \in DOMAIN Tail(s) /\ (i - 1) + 1 = i BY <3>2, <1>2, <1>3
      <4> QED BY <4>1, <1>3 DEF Range
    <3> QED BY <3>1, <3>2
  <2>2. ASSUME NEW i \in DOMAIN Tail(s) PROVE Tail(s)[i] \in Range(s)
    BY <1>3 DEF Range
  <2> QED BY <2>1, <2>2, <1>4 DEF Range
<1>6. IsSeq(Tail(s)) BY <1>2, SeqOfRange DEF IsSeq
<1> QED BY <1>2, <1>3, <1>4, <1>5, <1>6

(* Taking a message from a mailbox (TMailBox::Get).                        *)
LEMMA BoxTake ==
  ASSUME NEW q, IsSeq(q), q # <<>>, NEW K
  PROVE  /\ InBox(q, K) <=> InBox(Tail(q), K) \/ Head(q).type \in K
         /\ OneIn(q, K) => /\ OneIn(Tail(q), K)
                           /\ Head(q).type \in K => ~InBox(Tail(q), K)
<1>1. /\ Head(q) = q[1] /\ Range(q) = {Head(q)} \cup Range(Tail(q))
      /\ Len(q) \in Nat \ {0} /\ DOMAIN q = 1 .. Len(q)
      /\ DOMAIN Tail(q) = 1 .. (Len(q) - 1)
      /\ \A i \in DOMAIN Tail(q) : i + 1 \in DOMAIN q /\ Tail(q)[i] = q[i + 1]
  BY HeadAndTail
<1>2. InBox(q, K) <=> InBox(Tail(q), K) \/ Head(q).type \in K BY <1>1 DEF InBox
<1>3. ASSUME OneIn(q, K) PROVE OneIn(Tail(q), K)
  <2> SUFFICES ASSUME NEW i \in DOMAIN Tail(q), NEW j \in DOMAIN Tail(q),
                      Tail(q)[i].type \in K, Tail(q)[j].type \in K
               PROVE  i = j
    BY DEF OneIn
  <2>1. i + 1 = j + 1 BY <1>1, <1>3 DEF OneIn
  <2> QED BY <2>1, <1>1
<1>4. ASSUME OneIn(q, K), Head(q).type \in K, InBox(Tail(q), K) PROVE FALSE
  <2>1. PICK i \in DOMAIN Tail(q) : Tail(q)[i].type \in K BY <1>4 DEF InBox, Range
  <2>2. i + 1 = 1 BY <2>1, <1>1, <1>4 DEF OneIn
  <2> QED BY <2>2, <1>1
<1> QED BY <1>2, <1>3, <1>4

(* Putting a message into a mailbox (TMailBox::Put).                       *)
LEMMA BoxPut ==
  ASSUME NEW q, IsSeq(q), NEW m
  PROVE  /\ IsSeq(Append(q, m)) /\ Range(Append(q, m)) = Range(q) \cup {m}
         /\ \A K : InBox(Append(q, m), K) <=> InBox(q, K) \/ m.type \in K
         /\ \A K : OneIn(q, K) /\ ~(m.type \in K /\ InBox(q, K)) => OneIn(Append(q, m), K)
<1>1. /\ Len(q) \in Nat /\ DOMAIN q = 1 .. Len(q)
      /\ q \in Seq(Range(q) \cup {m})
  BY DEF IsSeq
<1>2. /\ DOMAIN Append(q, m) = 1 .. (Len(q) + 1)
      /\ \A i \in 1 .. Len(q) : Append(q, m)[i] = q[i]
      /\ Append(q, m)[Len(q) + 1] = m
      /\ Append(q, m) \in Seq(Range(q) \cup {m})
  BY <1>1
<1>3. Range(Append(q, m)) = Range(q) \cup {m}
  <2>1. ASSUME NEW i \in DOMAIN Append(q, m) PROVE Append(q, m)[i] \in Range(q) \cup {m}
    BY <1>1, <1>2 DEF Range
  <2>2. ASSUME NEW i \in DOMAIN q PROVE q[i] \in Range(Append(q, m))
    <3>1. i \in DOMAIN Append(q, m) /\ Append(q, m)[i] = q[i] BY <1>1, <1>2
    <3> QED BY <3>1 DEF Range
  <2>3. m \in Range(Append(q, m))
    <3>1. Len(q) + 1 \in DOMAIN Append(q, m) BY <1>1, <1>2
    <3> QED BY <3>1, <1>2 DEF Range
  <2> QED BY <2>1, <2>2, <2>3 DEF Range
<1>4. IsSeq(Append(q, m)) BY <1>2, <1>3 DEF IsSeq
<1>5. ASSUME NEW K PROVE InBox(Append(q, m), K) <=> InBox(q, K) \/ m.type \in K
  BY <1>3 DEF InBox
<1>6. ASSUME NEW K, OneIn(q, K), ~(m.type \in K /\ InBox(q, K)),
             NEW i \in DOMAIN Append(q, m), NEW j \in DOMAIN Append(q, m),
             Append(q, m)[i].type \in K, Append(q, m)[j].type \in K
      PROVE  i = j
  <2>1. ASSUME NEW k \in DOMAIN q PROVE q[k] \in Range(q) BY DEF Range
  <2>2. ASSUME NEW k \in DOMAIN q, q[k].type \in K PROVE InBox(q, K)
    BY <2>1, <2>2 DEF InBox
  <2>3. (i \in DOMAIN q \/ i = Len(q) + 1) /\ (j \in DOMAIN q \/ j = Len(q) + 1)
    BY <1>1, <1>2
  <2>4. CASE i \in DOMAIN q /\ j \in DOMAIN q
    <3>1. q[i].type \in K /\ q[j].type \in K BY <2>4, <1>1, <1>2, <1>6
    <3> QED BY <3>1, <2>4, <1>6 DEF OneIn
  <2>5. CASE i \in DOMAIN q /\ j = Len(q) + 1
    <3>1. q[i].type \in K /\ m.type \in K BY <2>5, <1>1, <1>2, <1>6
    <3> QED BY <3>1, <2>2, <2>5, <1>6
  <2>6. CASE i = Len(q) + 1 /\ j \in DOMAIN q
    <3>1. q[j].type \in K /\ m.type \in K BY <2>6, <1>1, <1>2, <1>6
    <3> QED BY <3>1, <2>2, <2>6, <1>6
  <2> QED BY <2>3, <2>4, <2>5, <2>6
<1>7. \A K : OneIn(q, K) /\ ~(m.type \in K /\ InBox(q, K)) => OneIn(Append(q, m), K)
  BY <1>6 DEF OneIn
<1> QED BY <1>3, <1>4, <1>5, <1>7

(* The rest of a handler's effects.                                        *)
LEMMA HandlerTail ==
  ASSUME NEW s, Handler(s), s # <<>>
  PROVE  /\ Handler(Tail(s)) /\ Head(s) \in Range(s)
         /\ Range(Tail(s)) = Range(s) \ {Head(s)}
         /\ \A e \in Range(s) : Rank(Head(s).op) <= Rank(e.op)
<1>1. /\ IsSeq(Tail(s)) /\ Head(s) \in Range(s) /\ Head(s) = s[1]
      /\ Range(s) = {Head(s)} \cup Range(Tail(s))
      /\ Len(s) \in Nat \ {0} /\ DOMAIN s = 1 .. Len(s)
      /\ DOMAIN Tail(s) = 1 .. (Len(s) - 1)
      /\ \A i \in DOMAIN Tail(s) : i + 1 \in DOMAIN s /\ Tail(s)[i] = s[i + 1]
  BY HeadAndTail DEF Handler
<1>2. Head(s) \notin Range(Tail(s))
  <2> SUFFICES ASSUME NEW i \in DOMAIN Tail(s), Tail(s)[i] = Head(s) PROVE FALSE
    BY DEF Range
  <2>1. i + 1 \in DOMAIN s /\ 1 \in DOMAIN s /\ s[i + 1] = s[1] BY <1>1
  <2>2. i + 1 = 1 BY <2>1 DEF Handler, IsInjective
  <2> QED BY <2>2, <1>1
<1>3. IsInjective(Tail(s))
  <2> SUFFICES ASSUME NEW i \in DOMAIN Tail(s), NEW j \in DOMAIN Tail(s), Tail(s)[i] = Tail(s)[j]
               PROVE  i = j
    BY DEF IsInjective
  <2>1. i + 1 = j + 1 BY <1>1 DEF Handler, IsInjective
  <2> QED BY <2>1, <1>1
<1>4. Sorted(Tail(s))
  <2> SUFFICES ASSUME NEW i \in DOMAIN Tail(s), NEW j \in DOMAIN Tail(s), i < j
               PROVE  Rank(Tail(s)[i].op) <= Rank(Tail(s)[j].op)
    BY DEF Sorted
  <2>1. i + 1 < j + 1 BY <1>1
  <2> QED BY <2>1, <1>1 DEF Handler, Sorted
<1>5. OnlyOnce(Range(Tail(s))) BY <1>1 DEF Handler, OnlyOnce
<1>6. ASSUME NEW e \in Range(s) PROVE Rank(Head(s).op) <= Rank(e.op)
  <2>1. PICK i \in DOMAIN s : e = s[i] BY DEF Range
  <2>2. 1 \in DOMAIN s BY <1>1
  <2>3. CASE i = 1 BY <2>1, <2>3, <1>1 DEF Rank
  <2>4. CASE i # 1
    <3>1. 1 < i BY <2>4, <1>1
    <3> QED BY <3>1, <2>1, <2>2, <1>1 DEF Handler, Sorted
  <2> QED BY <2>3, <2>4
<1> QED BY <1>1, <1>2, <1>3, <1>4, <1>5, <1>6 DEF Handler

(* The rest of the listener's effects: it posts one reply at most.         *)
LEMMA ListenerTail ==
  ASSUME NEW s, ListenerEffects(s), s # <<>>
  PROVE  /\ ListenerEffects(Tail(s)) /\ Head(s) \in Range(s)
         /\ Range(Tail(s)) \subseteq Range(s)
         /\ ToReply(Head(s)) => \A e \in Range(Tail(s)) : ~ToReply(e)
<1>1. /\ IsSeq(Tail(s)) /\ Head(s) \in Range(s) /\ Head(s) = s[1]
      /\ Range(s) = {Head(s)} \cup Range(Tail(s))
      /\ Len(s) \in Nat \ {0} /\ DOMAIN s = 1 .. Len(s)
      /\ DOMAIN Tail(s) = 1 .. (Len(s) - 1)
      /\ \A i \in DOMAIN Tail(s) : i + 1 \in DOMAIN s /\ Tail(s)[i] = s[i + 1]
  BY HeadAndTail DEF ListenerEffects
<1>2. OneReply(Tail(s))
  <2> SUFFICES ASSUME NEW i \in DOMAIN Tail(s), NEW j \in DOMAIN Tail(s),
                      ToReply(Tail(s)[i]), ToReply(Tail(s)[j])
               PROVE  i = j
    BY DEF OneReply
  <2>1. i + 1 = j + 1 BY <1>1 DEF ListenerEffects, OneReply
  <2> QED BY <2>1, <1>1
<1>3. ASSUME ToReply(Head(s)), NEW e \in Range(Tail(s)), ToReply(e) PROVE FALSE
  <2>1. PICK i \in DOMAIN Tail(s) : e = Tail(s)[i] BY DEF Range
  <2>2. 1 \in DOMAIN s BY <1>1
  <2>3. i + 1 = 1 BY <2>1, <2>2, <1>1, <1>3 DEF ListenerEffects, OneReply
  <2> QED BY <2>1, <2>3, <1>1
<1>4. ListenerEffects(Tail(s)) BY <1>1, <1>2 DEF ListenerEffects
<1> QED BY <1>1, <1>3, <1>4

(* TMailBox::Get drops the message of a stopped timer.                     *)
LEMMA ExpiryGone ==
  ASSUME NEW q, IsSeq(q), OneIn(q, Expiry), InBox(q, Expiry)
  PROVE  /\ IsSeq(WithoutExpiry(q)) /\ Range(WithoutExpiry(q)) \subseteq Range(q)
         /\ ~InBox(WithoutExpiry(q), Expiry)
         /\ \A K : K \cap Expiry = {} => (InBox(WithoutExpiry(q), K) <=> InBox(q, K))
         /\ \A K : OneIn(q, K) => OneIn(WithoutExpiry(q), K)
<1> DEFINE c == CHOOSE j \in DOMAIN q : q[j].type = "Timer_Expired"
<1>1. \E j \in DOMAIN q : q[j].type = "Timer_Expired" BY DEF InBox, Range, Expiry
<1>2. c \in DOMAIN q /\ q[c].type = "Timer_Expired" BY <1>1
<1>3. WithoutExpiry(q) = SubSeq(q, 1, c - 1) \o SubSeq(q, c + 1, Len(q))
  BY Zenon DEF WithoutExpiry
<1> HIDE DEF c
<1>4. PICK n \in DOMAIN q :
        /\ q[n].type = "Timer_Expired"
        /\ WithoutExpiry(q) = SubSeq(q, 1, n - 1) \o SubSeq(q, n + 1, Len(q))
  BY <1>2, <1>3
<1>5. q \in Seq(Range(q)) /\ Len(q) \in Nat /\ DOMAIN q = 1 .. Len(q) /\ n \in 1 .. Len(q)
  BY DEF IsSeq
<1>6. PICK a : a = SubSeq(q, 1, n - 1) OBVIOUS
<1>7. PICK b : b = SubSeq(q, n + 1, Len(q)) OBVIOUS
<1>8. /\ a \in Seq(Range(q)) /\ Len(a) = n - 1
      /\ \A i \in 1 .. n - 1 : a[i] = q[i]
  BY <1>5, <1>6
<1>9. /\ b \in Seq(Range(q)) /\ Len(b) = Len(q) - n
      /\ \A i \in 1 .. Len(q) - n : b[i] = q[n + i]
  <2>1. b \in Seq(Range(q)) BY <1>5, <1>7
  <2>2. Len(b) = Len(q) - n BY <1>5, <1>7
  <2>3. ASSUME NEW i \in 1 .. Len(q) - n PROVE b[i] = q[n + i]
    <3>1. b[i] = q[(n + 1) + i - 1] BY <1>5, <1>7, <2>2
    <3>2. (n + 1) + i - 1 = n + i BY <1>5
    <3> QED BY <3>1, <3>2
  <2> QED BY <2>1, <2>2, <2>3
<1>10. PICK w : w = WithoutExpiry(q) OBVIOUS
<1>11. w = a \o b BY <1>4, <1>6, <1>7, <1>10
<1>12. /\ w \in Seq(Range(q)) /\ Len(w) = Len(q) - 1 /\ DOMAIN w = 1 .. Len(q) - 1
       /\ \A i \in 1 .. n - 1 : w[i] = a[i]
       /\ \A i \in n .. Len(q) - 1 : w[i] = b[i - (n - 1)]
  <2>1. w \in Seq(Range(q)) BY <1>8, <1>9, <1>11
  <2>2. /\ Len(w) = Len(a) + Len(b)
        /\ \A i \in 1 .. Len(a) + Len(b) : w[i] = IF i <= Len(a) THEN a[i] ELSE b[i - Len(a)]
    BY <1>8, <1>9, <1>11, ConcatProperties
  <2>3. Len(w) = Len(q) - 1 BY <2>2, <1>5, <1>8, <1>9
  <2>4. DOMAIN w = 1 .. Len(q) - 1 BY <2>1, <2>3
  <2>5. ASSUME NEW i \in 1 .. Len(q) - 1 PROVE w[i] = IF i <= n - 1 THEN a[i] ELSE b[i - (n - 1)]
    <3>1. i \in 1 .. Len(a) + Len(b) BY <1>5, <1>8, <1>9
    <3> QED BY <3>1, <2>2, <1>8
  <2>6. ASSUME NEW i \in 1 .. n - 1 PROVE w[i] = a[i]
    <3>1. i \in 1 .. Len(q) - 1 /\ i <= n - 1 BY <1>5
    <3> QED BY <3>1, <2>5
  <2>7. ASSUME NEW i \in n .. Len(q) - 1 PROVE w[i] = b[i - (n - 1)]
    <3>1. i \in 1 .. Len(q) - 1 /\ ~(i <= n - 1) BY <1>5
    <3> QED BY <3>1, <2>5
  <2> QED BY <2>1, <2>3, <2>4, <2>6, <2>7
<1>13. ASSUME NEW i \in DOMAIN w
       PROVE  \E j \in DOMAIN q : j = (IF i < n THEN i ELSE i + 1) /\ w[i] = q[j] /\ j # n
  <2>1. CASE i < n
    <3>1. w[i] = a[i] BY <2>1, <1>5, <1>12
    <3> QED BY <2>1, <3>1, <1>5, <1>8, <1>12
  <2>2. CASE ~(i < n)
    <3>0. i \in n .. Len(q) - 1 BY <2>2, <1>5, <1>12
    <3>1. w[i] = b[i - (n - 1)] BY <3>0, <1>12
    <3>2. i - (n - 1) \in 1 .. Len(q) - n /\ n + (i - (n - 1)) = i + 1 BY <2>2, <1>5, <1>12
    <3>3. w[i] = q[i + 1] BY <3>1, <3>2, <1>9
    <3> QED BY <2>2, <3>3, <1>5, <1>12
  <2> QED BY <2>1, <2>2
<1>14. ASSUME NEW j \in DOMAIN q, j # n PROVE \E i \in DOMAIN w : w[i] = q[j]
  <2>1. CASE j < n
    <3>1. j \in DOMAIN w BY <2>1, <1>5, <1>12
    <3> QED BY <2>1, <3>1, <1>13
  <2>2. CASE j > n
    <3>1. j - 1 \in DOMAIN w /\ ~(j - 1 < n) /\ (j - 1) + 1 = j BY <2>2, <1>5, <1>12
    <3> QED BY <3>1, <1>13
  <2> QED BY <2>1, <2>2, <1>5, <1>14
<1>15. Range(w) \subseteq Range(q) BY <1>13 DEF Range
<1>16. IsSeq(w) BY <1>12, SeqOfRange DEF IsSeq
<1>17. ASSUME NEW i \in DOMAIN w, w[i].type = "Timer_Expired" PROVE FALSE
  BY <1>4, <1>13, <1>17 DEF OneIn, Expiry
<1>18. ~InBox(w, Expiry) BY <1>17 DEF InBox, Range, Expiry
<1>19. ASSUME NEW K, K \cap Expiry = {}, InBox(q, K) PROVE InBox(w, K)
  <2>1. PICK j \in DOMAIN q : q[j].type \in K BY <1>19 DEF InBox, Range
  <2>2. j # n BY <2>1, <1>4, <1>19 DEF Expiry
  <2> QED BY <2>1, <2>2, <1>14 DEF InBox, Range
<1>20. ASSUME NEW K, InBox(w, K) PROVE InBox(q, K)
  BY <1>15, <1>20 DEF InBox
<1>21. ASSUME NEW K, OneIn(q, K), NEW i \in DOMAIN w, NEW j \in DOMAIN w,
              w[i].type \in K, w[j].type \in K
       PROVE  i = j
  <2>1. (IF i < n THEN i ELSE i + 1) = (IF j < n THEN j ELSE j + 1)
    BY <1>13, <1>21 DEF OneIn
  <2> QED BY <2>1, <1>5, <1>12
<1>22. \A K : OneIn(q, K) => OneIn(w, K) BY <1>21 DEF OneIn
<1> QED BY <1>10, <1>15, <1>16, <1>18, <1>19, <1>20, <1>22

-----------------------------------------------------------------------------
(* An effect less ahead.                                                   *)

(* The state an automate will have.                                        *)
LEMMA StateRemoved ==
  ASSUME NEW A, OnlyOnce(A), NEW e \in A, NEW s
  PROVE  /\ e.op = "state" => StateAfter(A, s) = e.val /\ ~DoesIn(A \ {e}, "state")
         /\ e.op # "state" => StateAfter(A \ {e}, s) = StateAfter(A, s)
<1>1. ASSUME e.op = "state" PROVE StateAfter(A, s) = e.val /\ ~DoesIn(A \ {e}, "state")
  <2>1. DoesIn(A, "state") BY <1>1 DEF DoesIn
  <2>2. (CHOOSE d \in A : d.op = "state") = e BY <1>1 DEF OnlyOnce
  <2> QED BY <1>1, <2>1, <2>2 DEF StateAfter, DoesIn, OnlyOnce
<1>2. ASSUME e.op # "state" PROVE StateAfter(A \ {e}, s) = StateAfter(A, s)
  <2>1. CASE DoesIn(A, "state")
    <3>1. PICK d \in A : d.op = "state" BY <2>1 DEF DoesIn
    <3>2. d \in A \ {e} BY <1>2, <3>1
    <3>3. (CHOOSE c \in A : c.op = "state") = d BY <3>1 DEF OnlyOnce
    <3>4. (CHOOSE c \in A \ {e} : c.op = "state") = d BY <3>1, <3>2 DEF OnlyOnce
    <3>5. DoesIn(A \ {e}, "state") BY <3>1, <3>2 DEF DoesIn
    <3>6. StateAfter(A, s) = d.val BY <2>1, <3>3, Zenon DEF StateAfter
    <3>7. StateAfter(A \ {e}, s) = d.val BY <3>4, <3>5, Zenon DEF StateAfter
    <3> QED BY <3>6, <3>7
  <2>2. CASE ~DoesIn(A, "state")
    BY <2>2 DEF StateAfter, DoesIn
  <2> QED BY <2>1, <2>2
<1> QED BY <1>1, <1>2

(* The contents a buffer will have.                                        *)
LEMMA StoreRemoved ==
  ASSUME NEW A, OnlyOnce(A), NEW e \in A, NEW b, NEW v
  PROVE  /\ Stores(e, b) => BufferAfter(A, b, v) = e.val /\ BufferAfter(A \ {e}, b, e.val) = e.val
         /\ ~Stores(e, b) => BufferAfter(A \ {e}, b, v) = BufferAfter(A, b, v)
         /\ (\A d \in A : d.op # "store") => BufferAfter(A, b, v) = v
<1>1. ASSUME Stores(e, b)
      PROVE  BufferAfter(A, b, v) = e.val /\ BufferAfter(A \ {e}, b, e.val) = e.val
  <2>1. (CHOOSE d \in A : Stores(d, b)) = e BY <1>1 DEF OnlyOnce, Stores
  <2>2. \E d \in A : Stores(d, b) BY <1>1
  <2>3. BufferAfter(A, b, v) = e.val BY <2>1, <2>2 DEF BufferAfter
  <2>4. ~\E d \in A \ {e} : Stores(d, b) BY <1>1 DEF OnlyOnce, Stores
  <2>5. BufferAfter(A \ {e}, b, e.val) = e.val BY <2>4 DEF BufferAfter
  <2> QED BY <2>3, <2>5
<1>2. ASSUME ~Stores(e, b) PROVE BufferAfter(A \ {e}, b, v) = BufferAfter(A, b, v)
  <2>1. CASE \E d \in A : Stores(d, b)
    <3>1. PICK d \in A : Stores(d, b) BY <2>1
    <3>2. d \in A \ {e} BY <1>2, <3>1
    <3>3. (CHOOSE c \in A : Stores(c, b)) = d BY <3>1 DEF OnlyOnce, Stores
    <3>4. (CHOOSE c \in A \ {e} : Stores(c, b)) = d BY <3>1, <3>2 DEF OnlyOnce, Stores
    <3>5. \E c \in A \ {e} : Stores(c, b) BY <3>1, <3>2
    <3> QED BY <2>1, <3>3, <3>4, <3>5 DEF BufferAfter
  <2>2. CASE ~\E d \in A : Stores(d, b) BY <2>2 DEF BufferAfter
  <2> QED BY <2>1, <2>2
<1>3. ASSUME \A d \in A : d.op # "store" PROVE BufferAfter(A, b, v) = v
  BY <1>3 DEF BufferAfter, Stores
<1> QED BY <1>1, <1>2, <1>3

(* Which other effects are still ahead.                                    *)
LEMMA DoesRemoved ==
  ASSUME NEW A, OnlyOnce(A), NEW e \in A
  PROVE  /\ DoesIn(A, e.op)
         /\ e.op # "send" => ~DoesIn(A \ {e}, e.op)
         /\ \A op : op # e.op => (DoesIn(A \ {e}, op) <=> DoesIn(A, op))
         /\ \A op : DoesIn(A \ {e}, op) => DoesIn(A, op)
         /\ \A f, K : ~Sends(e, f, K) => (ToSend(A \ {e}, f, K) <=> ToSend(A, f, K))
         /\ \A f, K : ToSend(A \ {e}, f, K) => ToSend(A, f, K)
BY DEF OnlyOnce, DoesIn, ToSend, Sends

(* Posting a message that was to be sent.                                  *)
LEMMA Posted ==
  ASSUME NEW q, IsSeq(q), NEW A, NEW e \in A, e.op = "send",
         NEW f, NEW K, NEW m, m.type = e.type,
         NEW r, r = IF e.to = f THEN Append(q, m) ELSE q
  PROVE  /\ HasIn(r, A \ {e}, f, K) <=> HasIn(q, A, f, K)
         /\ Single(q, A, f, K) => Single(r, A \ {e}, f, K)
<1>1. CASE e.to = f
  <2>2. m.type = e.type OBVIOUS
  <2>3. r = Append(q, m) BY <1>1
  <2>4. /\ InBox(r, K) <=> InBox(q, K) \/ m.type \in K
        /\ OneIn(q, K) /\ ~(m.type \in K /\ InBox(q, K)) => OneIn(r, K)
    BY BoxPut, <2>3
  <2>5. HasIn(r, A \ {e}, f, K) <=> HasIn(q, A, f, K)
    BY <2>2, <2>4, <1>1 DEF HasIn, ToSend, Sends
  <2>6. ASSUME Single(q, A, f, K) PROVE Single(r, A \ {e}, f, K)
    <3>1. CASE e.type \in K
      <4>1. Sends(e, f, K) /\ ToSend(A, f, K) BY <3>1, <1>1 DEF ToSend, Sends
      <4>2. ~InBox(q, K) /\ ~ToSend(A \ {e}, f, K) BY <4>1, <2>6 DEF Single, ToSend
      <4> QED BY <4>2, <2>4, <2>6 DEF Single
    <3>2. CASE e.type \notin K
      <4>1. ToSend(A \ {e}, f, K) => ToSend(A, f, K) BY DEF ToSend
      <4> QED BY <3>2, <4>1, <2>2, <2>4, <2>6 DEF Single
    <3> QED BY <3>1, <3>2
  <2> QED BY <2>5, <2>6
<1>2. CASE e.to # f
  <2>1. ToSend(A \ {e}, f, K) <=> ToSend(A, f, K) BY <1>2 DEF ToSend, Sends
  <2> QED BY <1>2, <2>1 DEF HasIn, Single
<1> QED BY <1>1, <1>2

(* Performing an effect that posts nothing.                                *)
LEMMA NotPosted ==
  ASSUME NEW q, NEW A, NEW e \in A, e.op # "send", NEW f, NEW K
  PROVE  /\ HasIn(q, A \ {e}, f, K) <=> HasIn(q, A, f, K)
         /\ Single(q, A, f, K) => Single(q, A \ {e}, f, K)
BY DEF HasIn, Single, ToSend, Sends

-----------------------------------------------------------------------------
(* The steps of the system thread within a handler.                        *)
SystemMoves == ThreadStep("system") \/ SystemStep \/ \E n \in Name : ReadConsole(n)
First == Head(todo["system"])

(* What each of them may change, by the effect that is performed.          *)
LEMMA Frame ==
  ASSUME SystemMoves
  PROVE  /\ todo["system"] # <<>> /\ Performed("system")
         /\ running' = running /\ segments' = segments
         /\ \/ First.op = "send"
               /\ mbx' = [mbx EXCEPT ![First.to] = Append(@, Msg(First.type, buffer[First.from]))]
            \/ First.op = "StopTimer"
               /\ mbx' = IF timer = "queued" THEN [mbx EXCEPT ![Client] = WithoutExpiry(@)]
                                             ELSE mbx
            \/ First.op \notin {"send", "StopTimer"} /\ mbx' = mbx
         /\ \/ First.op = "state" /\ state' = [state EXCEPT ![running] = First.val]
            \/ First.op # "state" /\ state' = state
         /\ \/ First.op = "StartTimer" /\ timer = "null" /\ timer' = "running"
            \/ First.op = "StartTimer" /\ timer # "null" /\ timer' = timer
            \/ First.op = "StopTimer" /\ timer' = "null"
            \/ First.op \notin {"StartTimer", "StopTimer"} /\ timer' = timer
         /\ \/ First.op = "FirstStartFlag++" /\ flag' = IF flag < 2 THEN flag + 1 ELSE flag
            \/ First.op # "FirstStartFlag++" /\ flag' = flag
         /\ \/ First.op = "store" /\ buffer' = [buffer EXCEPT ![First.buf] = First.val]
            \/ First.op = "scanf" /\ \E n \in Name : buffer' = [buffer EXCEPT !["user"] = n] /\ asked' = n
            \/ First.op = "SendToServer" /\ buffer' = [buffer EXCEPT !["sent"] = buffer["chIn"]]
            \/ First.op \notin {"store", "scanf", "SendToServer"} /\ buffer' = buffer
         /\ \/ First.op = "scanf" /\ inputs < MaxInputs /\ inputs' = inputs + 1
            \/ First.op # "scanf" /\ inputs' = inputs
         /\ \/ First.op = "print" /\ asked' = NoData
               /\ shown' = [name |-> asked, answer |-> buffer["user"]]
            \/ First.op = "scanf" /\ asked' \in Name /\ shown' = shown
            \/ First.op \notin {"print", "scanf"} /\ asked' = asked /\ shown' = shown
         /\ \/ First.op = "CreateThread" /\ listener' = "recv"
            \/ First.op # "CreateThread" /\ listener' = listener
         /\ (preparing' = preparing \/ preparing' = {} \/ preparing' = {"system"})
         /\ (halted' = halted \/ halted' = TRUE)
<1>1. CASE PrepareNewMessage("system")
  BY <1>1 DEF PrepareNewMessage, At, Effect, First
<1>2. CASE SendMessage("system")
  BY <1>2 DEF SendMessage, At, Effect, First
<1>3. CASE SetNewMessage("system")
  BY <1>3 DEF SetNewMessage, At, Effect, First
<1>4. CASE WriteState("system")
  BY <1>4 DEF WriteState, At, Effect, First, Self
<1>5. CASE CopyData
  BY <1>5 DEF CopyData, At, Effect, First
<1>6. CASE PrintAnswer
  BY <1>6 DEF PrintAnswer, At, Effect, First
<1>7. CASE StartTimer
  BY <1>7 DEF StartTimer, At, Effect, First
<1>8. CASE StopTimer
  BY <1>8 DEF StopTimer, At, Effect, First
<1>9. CASE CountStart
  BY <1>9 DEF CountStart, At, Effect, First
<1>10. CASE SendToServer
  BY <1>10 DEF SendToServer, At, Effect, First
<1>11. CASE CreateListener
  BY <1>11 DEF CreateListener, At, Effect, First
<1>12. ASSUME NEW n \in Name, ReadConsole(n) PROVE
          /\ At("system", "scanf") /\ Performed("system") /\ inputs < MaxInputs
          /\ inputs' = inputs + 1 /\ buffer' = [buffer EXCEPT !["user"] = n] /\ asked' = n
          /\ UNCHANGED <<mbx, state, running, preparing, flag, timer, listener, segments, shown, halted>>
  BY <1>12 DEF ReadConsole
<1>13. CASE \E n \in Name : ReadConsole(n)
  <2>1. PICK n \in Name : ReadConsole(n) BY <1>13
  <2> QED BY <2>1, <1>12 DEF At, Effect, First
<1> QED BY <1>1, <1>2, <1>3, <1>4, <1>5, <1>6, <1>7, <1>8, <1>9, <1>10, <1>11, <1>13
        DEF SystemMoves, ThreadStep, SystemStep

(* The effects that are still ahead after a step of the handler.           *)
LEMMA StepAhead ==
  ASSUME IInv, SystemMoves
  PROVE  /\ First \in Ahead /\ Ahead' = Ahead \ {First} /\ OnlyOnce(Ahead)
         /\ todo' = [t \in Thread |-> todo'[t]]
         /\ Handler(todo'["system"]) /\ todo'["listener"] = todo["listener"]
         /\ \A e \in Ahead : Rank(First.op) <= Rank(e.op)
         /\ Legal(First)
<1>1. todo["system"] # <<>> /\ Performed("system") BY Frame
<1>2. Handler(todo["system"]) BY DEF IInv, Effects
<1>3. todo = [t \in Thread |-> todo[t]] BY DEF IInv, Variables
<1>4. todo' = [todo EXCEPT !["system"] = Tail(@)] BY <1>1 DEF Performed
<1>5. /\ todo'["system"] = Tail(todo["system"]) /\ todo'["listener"] = todo["listener"]
      /\ todo' = [t \in Thread |-> todo'[t]]
  BY <1>3, <1>4 DEF Thread
<1>6. /\ Handler(Tail(todo["system"])) /\ Head(todo["system"]) \in Range(todo["system"])
      /\ Range(Tail(todo["system"])) = Range(todo["system"]) \ {Head(todo["system"])}
      /\ \A e \in Range(todo["system"]) : Rank(Head(todo["system"]).op) <= Rank(e.op)
  BY <1>1, <1>2, HandlerTail
<1>7. First \in Ahead BY <1>6 DEF First, Ahead
<1>8. OnlyOnce(Ahead) BY <1>2 DEF Handler, Ahead
<1>9. Ahead' = Ahead \ {First} BY <1>5, <1>6 DEF Ahead, First
<1>10. \A e \in Ahead : Rank(First.op) <= Rank(e.op) BY <1>6 DEF Ahead, First
<1>11. Legal(First) BY <1>7 DEF IInv, Effects, SystemEffects
<1> QED BY <1>5, <1>6, <1>7, <1>8, <1>9, <1>10, <1>11

(* The effects ahead stay legal.                                           *)
LEMMA EffectsStep ==
  ASSUME IInv, SystemMoves
  PROVE  Effects'
<1>1. /\ First \in Ahead /\ Ahead' = Ahead \ {First} /\ OnlyOnce(Ahead)
      /\ Handler(todo'["system"]) /\ todo'["listener"] = todo["listener"]
      /\ \A e \in Ahead : Rank(First.op) <= Rank(e.op)
  BY StepAhead
<1>2. running' = running BY Frame
<1>3. SystemEffects(Ahead, running) BY DEF IInv, Effects
<1>5. Rank("print") = 2 /\ Rank("scanf") = 2 /\ Rank("send") = 3 BY DEF Rank
<1>4. ASSUME NEW op, DoesIn(Ahead \ {First}, op), Rank(op) = 2, NEW f, NEW K, ToSend(Ahead, f, K)
      PROVE  ToSend(Ahead \ {First}, f, K)
  <2>1. PICK d \in Ahead : d.op = op BY <1>4 DEF DoesIn
  <2>2. Rank(First.op) <= 2 BY <2>1, <1>1, <1>4
  <2>3. First.op # "send" BY <2>2, <1>5
  <2> QED BY <2>3, <1>1, <1>4, DoesRemoved DEF Sends
<1>6. \A op : DoesIn(Ahead \ {First}, op) => DoesIn(Ahead, op) BY DEF DoesIn
<1>7. SystemEffects(Ahead \ {First}, running)
  <2>1. DoesIn(Ahead \ {First}, "print") => ToSend(Ahead \ {First}, User, {"User_Data_Input"})
    BY <1>3, <1>4, <1>5, <1>6 DEF SystemEffects
  <2>2. DoesIn(Ahead \ {First}, "scanf") => ToSend(Ahead \ {First}, User, {"User_To_Client_Data_Sent"})
    BY <1>3, <1>4, <1>5, <1>6 DEF SystemEffects
  <2>3. DoesIn(Ahead \ {First}, "CreateThread") => ~DoesIn(Ahead \ {First}, "state")
    BY <1>3, <1>6 DEF SystemEffects
  <2> QED BY <2>1, <2>2, <2>3, <1>3, <1>6 DEF SystemEffects
<1>8. SystemEffects(Ahead', running') BY <1>1, <1>2, <1>7
<1>9. ListenerEffects(todo["listener"]) BY DEF IInv, Effects
<1> QED BY <1>1, <1>8, <1>9 DEF Effects

(* What a step leaves as it was: messages, apart from those that announce  *)
(* a reply, an expiry or the state of the connection; the states User and  *)
(* Client will be in; and whether the timer will be off.                   *)
SameBox(f, K) ==
  /\ HasIn(mbx'[f], Ahead', f, K) <=> HasIn(mbx[f], Ahead, f, K)
  /\ Single(mbx[f], Ahead, f, K) => Single(mbx'[f], Ahead', f, K)
WasToSend(f, m) ==
  \E e \in Ahead : e.op = "send" /\ e.to = f /\ m = Msg(e.type, FinalBuffer(e.from))
Kept ==
  /\ \A f \in Fsm : \A K : K \cap Noise = {} => SameBox(f, K)
  /\ \A f \in Fsm : \A m \in Range(mbx'[f]) :
        m \in Range(mbx[f]) \/ (f # User /\ m.type \in Noise) \/ WasToSend(f, m)
  /\ FinalState(User)' = FinalState(User) /\ FinalState(Client)' = FinalState(Client)
  /\ FinalTimer' = "null" <=> FinalTimer = "null"
  /\ Ahead' \subseteq Ahead

(* Mailboxes: what was to be sent is posted.                               *)
LEMMA StepBoxes ==
  ASSUME IInv, SystemMoves
  PROVE  /\ \A f \in Fsm : \A K : K \cap Noise = {} => SameBox(f, K)
         /\ \A f \in Fsm : \A m \in Range(mbx'[f]) : m \in Range(mbx[f]) \/ WasToSend(f, m)
         /\ mbx' = [f \in Fsm |-> mbx'[f]] /\ \A f \in Fsm : IsSeq(mbx'[f])
         /\ Expiries'
         /\ OneIn(mbx[Client], Reply) => OneIn(mbx'[Client], Reply)
<1>1. /\ First \in Ahead /\ Ahead' = Ahead \ {First} /\ OnlyOnce(Ahead) /\ Legal(First)
      /\ \A e \in Ahead : Rank(First.op) <= Rank(e.op)
  BY StepAhead
<1>2. /\ mbx = [f \in Fsm |-> mbx[f]] /\ \A f \in Fsm : IsSeq(mbx[f])
      /\ buffer = [b \in BufferId |-> buffer[b]]
  BY DEF IInv, Variables
<1>3. Expiries /\ Client \in Fsm BY DEF IInv, Fsm
<1>4. CASE First.op = "send"
  <2>1. PICK m : m = Msg(First.type, buffer[First.from]) OBVIOUS
  <2>0. m.type = First.type BY <2>1 DEF Msg
  <2>2. First.to \in Fsm BY <1>1, <1>4 DEF Legal
  <2>3. mbx' = [mbx EXCEPT ![First.to] = Append(@, m)] /\ timer' = timer
    BY <1>4, <2>1, Frame
  <2>4. /\ mbx' = [f \in Fsm |-> mbx'[f]]
        /\ \A f \in Fsm : mbx'[f] = IF First.to = f THEN Append(mbx[f], m) ELSE mbx[f]
    BY <1>2, <2>2, <2>3
  <2>5. ASSUME NEW f \in Fsm, NEW K PROVE SameBox(f, K)
    <3>1. PICK r : r = IF First.to = f THEN Append(mbx[f], m) ELSE mbx[f] OBVIOUS
    <3>2. /\ HasIn(r, Ahead \ {First}, f, K) <=> HasIn(mbx[f], Ahead, f, K)
          /\ Single(mbx[f], Ahead, f, K) => Single(r, Ahead \ {First}, f, K)
      <4>1. PICK q, A, e : q = mbx[f] /\ A = Ahead /\ e = First OBVIOUS
      <4>2. IsSeq(q) /\ e \in A /\ e.op = "send" /\ m.type = e.type BY <1>1, <1>2, <1>4, <2>0, <4>1
      <4>3. r = IF e.to = f THEN Append(q, m) ELSE q BY <3>1, <4>1
      <4>4. /\ HasIn(r, A \ {e}, f, K) <=> HasIn(q, A, f, K)
            /\ Single(q, A, f, K) => Single(r, A \ {e}, f, K)
        BY <4>2, <4>3, Posted
      <4> QED BY <4>1, <4>4
    <3> QED BY <1>1, <2>4, <3>1, <3>2 DEF SameBox
  <2>6. \A e \in Ahead : e.op # "store"
    <3>1. Rank("send") = 3 /\ Rank("store") = 1 BY DEF Rank
    <3> QED BY <3>1, <1>1, <1>4
  <2>7. m = Msg(First.type, FinalBuffer(First.from))
    BY <1>1, <2>1, <2>6, StoreRemoved DEF FinalBuffer
  <2>8. ASSUME NEW f \in Fsm, NEW d \in Range(mbx'[f]) PROVE d \in Range(mbx[f]) \/ WasToSend(f, d)
    <3>1. CASE First.to = f
      <4>1. Range(mbx'[f]) = Range(mbx[f]) \cup {m} BY <3>1, <2>4, <1>2, BoxPut
      <4> QED BY <4>1, <3>1, <2>7, <2>8, <1>1, <1>4 DEF WasToSend
    <3>2. CASE First.to # f BY <3>2, <2>4, <2>8
    <3> QED BY <3>1, <3>2
  <2>9. ASSUME NEW f \in Fsm PROVE IsSeq(mbx'[f])
    <3>1. IsSeq(mbx[f]) /\ IsSeq(Append(mbx[f], m)) BY <1>2, BoxPut
    <3> QED BY <2>4, <3>1
  <2>10. First.to = Client => m.type \notin Expiry /\ m.type \notin Reply
    BY <1>1, <1>4, <2>1 DEF Legal, Sends, Msg
  <2>11. ASSUME NEW K \in {Expiry, Reply}
         PROVE  /\ InBox(mbx'[Client], K) <=> InBox(mbx[Client], K)
                /\ OneIn(mbx[Client], K) => OneIn(mbx'[Client], K)
    <3>1. CASE First.to = Client
      <4>1. mbx'[Client] = Append(mbx[Client], m) /\ m.type \notin K
        BY <3>1, <2>4, <2>10, <1>3
      <4> QED BY <4>1, <1>2, <1>3, BoxPut
    <3>2. CASE First.to # Client BY <3>2, <2>4, <1>3
    <3> QED BY <3>1, <3>2
  <2>12. ~InBox(mbx'[Channel], Expiry)
    <3>1. Channel \in Fsm /\ ~InBox(mbx[Channel], Expiry) BY <1>3 DEF Fsm, Expiries
    <3>2. CASE First.to = Channel
      <4>1. m.type \notin Expiry BY <1>1, <1>4, <2>0, <3>2 DEF Legal, Sends
      <4>2. IsSeq(mbx[Channel]) BY <1>2, <3>1
      <4>3. InBox(Append(mbx[Channel], m), Expiry) <=> InBox(mbx[Channel], Expiry) \/ m.type \in Expiry
        BY <4>2, BoxPut
      <4> QED BY <4>1, <4>3, <2>4, <3>1, <3>2
    <3>3. CASE First.to # Channel BY <3>1, <3>3, <2>4
    <3> QED BY <3>2, <3>3
  <2>13. Expiries' BY <2>3, <2>11, <2>12, <1>3 DEF Expiries
  <2> QED BY <2>4, <2>5, <2>8, <2>9, <2>11, <2>13
<1>5. CASE First.op = "StopTimer" /\ timer = "queued"
  <2>1. mbx' = [mbx EXCEPT ![Client] = WithoutExpiry(@)] /\ timer' = "null"
    BY <1>5, Frame
  <2>2. PICK q : q = WithoutExpiry(mbx[Client]) OBVIOUS
  <2>3. /\ mbx' = [f \in Fsm |-> mbx'[f]]
        /\ mbx'[Client] = q /\ \A f \in Fsm : f # Client => mbx'[f] = mbx[f]
    BY <1>2, <1>3, <2>1, <2>2
  <2>4. OneIn(mbx[Client], Expiry) /\ InBox(mbx[Client], Expiry) BY <1>3, <1>5 DEF Expiries
  <2>5. /\ IsSeq(q) /\ Range(q) \subseteq Range(mbx[Client])
        /\ ~InBox(q, Expiry)
        /\ \A K : K \cap Expiry = {} => (InBox(q, K) <=> InBox(mbx[Client], K))
        /\ \A K : OneIn(mbx[Client], K) => OneIn(q, K)
    BY <1>2, <1>3, <2>2, <2>4, ExpiryGone
  <2>6. ASSUME NEW f \in Fsm, NEW K, K \cap Noise = {} PROVE SameBox(f, K)
    <3>1. K \cap Expiry = {} BY <2>6 DEF Noise
    <3>2. /\ HasIn(mbx'[f], Ahead \ {First}, f, K) <=> HasIn(mbx'[f], Ahead, f, K)
          /\ Single(mbx'[f], Ahead, f, K) => Single(mbx'[f], Ahead \ {First}, f, K)
      BY <1>1, <1>5, NotPosted
    <3>3. /\ InBox(mbx'[f], K) <=> InBox(mbx[f], K)
          /\ OneIn(mbx[f], K) => OneIn(mbx'[f], K)
      BY <2>3, <2>5, <3>1
    <3>4. /\ HasIn(mbx'[f], Ahead, f, K) <=> HasIn(mbx[f], Ahead, f, K)
          /\ Single(mbx[f], Ahead, f, K) => Single(mbx'[f], Ahead, f, K)
      BY <3>3 DEF HasIn, Single
    <3> QED BY <3>2, <3>4, <1>1 DEF SameBox
  <2>7. \A f \in Fsm : Range(mbx'[f]) \subseteq Range(mbx[f]) /\ IsSeq(mbx'[f])
    BY <1>2, <2>3, <2>5
  <2>8. Expiries'
    <3>1. Channel \in Fsm /\ Channel # Client BY DEF Fsm, Channel, Client
    <3> QED BY <1>3, <2>1, <2>3, <2>4, <2>5, <3>1 DEF Expiries
  <2> QED BY <2>3, <2>5, <2>6, <2>7, <2>8
<1>6. CASE First.op # "send" /\ ~(First.op = "StopTimer" /\ timer = "queued")
  <2>1. mbx' = mbx BY <1>6, Frame
  <2>2. timer' = "queued" <=> timer = "queued" BY <1>6, Frame, Zenon
  <2>3. \A f \in Fsm : \A K : SameBox(f, K) BY <1>1, <1>6, <2>1, NotPosted DEF SameBox
  <2>4. Expiries' BY <1>3, <2>1, <2>2 DEF Expiries
  <2> QED BY <1>2, <2>1, <2>3, <2>4
<1> QED BY <1>4, <1>5, <1>6

(* States: what was to be written is written.                              *)
LEMMA StepStates ==
  ASSUME IInv, SystemMoves
  PROVE  /\ \A f \in Fsm : FinalState(f)' = FinalState(f)
         /\ state' = [f \in Fsm |-> state'[f]] /\ \A f \in Fsm : state'[f] \in StateOf[f]
         /\ \A f \in Fsm : \/ state'[f] = state[f]
                           \/ running = f /\ \E e \in Ahead : e.op = "state" /\ state'[f] = e.val
<1>1. First \in Ahead /\ Ahead' = Ahead \ {First} /\ OnlyOnce(Ahead)
  BY StepAhead
<1>2. /\ state = [f \in Fsm |-> state[f]] /\ running \in Fsm
      /\ \A f \in Fsm : state[f] \in StateOf[f]
  BY DEF IInv, Variables
<1>3. running' = running BY Frame
<1>4. CASE First.op = "state"
  <2>1. state' = [state EXCEPT ![running] = First.val] BY <1>4, Frame, Zenon
  <2>2. First.val \in StateOf[running] BY <1>1, <1>4 DEF IInv, Effects, SystemEffects
  <2>3. /\ state' = [f \in Fsm |-> state'[f]]
        /\ state'[running] = First.val /\ \A f \in Fsm : f # running => state'[f] = state[f]
    BY <1>2, <2>1
  <2>4. StateAfter(Ahead, state[running]) = First.val /\ ~DoesIn(Ahead', "state")
    BY <1>1, <1>4, StateRemoved
  <2>5. StateAfter(Ahead', state'[running]) = First.val
    BY <2>3, <2>4 DEF StateAfter
  <2>6. \A f \in Fsm : FinalState(f)' = FinalState(f)
    BY <1>3, <2>3, <2>4, <2>5 DEF FinalState
  <2> QED BY <1>1, <1>2, <1>4, <2>2, <2>3, <2>6
<1>5. CASE First.op # "state"
  <2>1. state' = state BY <1>5, Frame, Zenon
  <2>2. \A s : StateAfter(Ahead', s) = StateAfter(Ahead, s) BY <1>1, <1>5, StateRemoved
  <2>3. \A f \in Fsm : FinalState(f)' = FinalState(f) BY <1>3, <2>1, <2>2 DEF FinalState
  <2> QED BY <1>2, <2>1, <2>3
<1> QED BY <1>4, <1>5

(* The timer and FirstStartFlag.                                           *)
LEMMA StepTimerAndFlag ==
  ASSUME IInv, SystemMoves
  PROVE  /\ FinalTimer' = FinalTimer /\ (Does("StartTimer")' => timer' = "null")
         /\ timer' \in {"null", "running", "queued", "stale"}
         /\ FinalFlag' = FinalFlag /\ flag' \in 0 .. 2
<1>1. First \in Ahead /\ Ahead' = Ahead \ {First} /\ OnlyOnce(Ahead)
  BY StepAhead
<1>2. /\ DoesIn(Ahead, First.op) /\ (First.op # "send" => ~DoesIn(Ahead', First.op))
      /\ \A op : op # First.op => (DoesIn(Ahead', op) <=> DoesIn(Ahead, op))
  BY <1>1, DoesRemoved
<1>3. ~(DoesIn(Ahead, "StartTimer") /\ DoesIn(Ahead, "StopTimer"))
  BY DEF IInv, Effects, SystemEffects
<1>4. DoesIn(Ahead, "StartTimer") => timer = "null" BY DEF IInv, Drive, Does
<1>5. flag \in 0 .. 2 /\ timer \in {"null", "running", "queued", "stale"}
  BY DEF IInv, Variables
<1>6. /\ TimerAfter(Ahead', timer') = TimerAfter(Ahead, timer)
      /\ DoesIn(Ahead', "StartTimer") => timer' = "null"
      /\ timer' \in {"null", "running", "queued", "stale"}
  <2>1. CASE First.op = "StartTimer"
    <3>1. timer' = "running" BY <2>1, <1>2, <1>4, Frame
    <3> QED BY <3>1, <2>1, <1>2, <1>3 DEF TimerAfter
  <2>2. CASE First.op = "StopTimer"
    <3>1. timer' = "null" BY <2>2, Frame
    <3> QED BY <3>1, <2>2, <1>2, <1>3 DEF TimerAfter
  <2>3. CASE First.op \notin {"StartTimer", "StopTimer"}
    <3>1. timer' = timer BY <2>3, Frame, Zenon
    <3> QED BY <3>1, <2>3, <1>2, <1>4, <1>5 DEF TimerAfter
  <2> QED BY <2>1, <2>2, <2>3
<1>7. FlagAfter(Ahead', flag') = FlagAfter(Ahead, flag) /\ flag' \in 0 .. 2
  <2>1. CASE First.op = "FirstStartFlag++"
    <3>1. flag' = IF flag < 2 THEN flag + 1 ELSE flag BY <2>1, Frame, Zenon
    <3> QED BY <3>1, <2>1, <1>2, <1>5 DEF FlagAfter
  <2>2. CASE First.op # "FirstStartFlag++"
    <3>1. flag' = flag BY <2>2, Frame, Zenon
    <3> QED BY <3>1, <2>2, <1>2, <1>5 DEF FlagAfter
  <2> QED BY <2>1, <2>2
<1> QED BY <1>6, <1>7 DEF FinalTimer, FinalFlag, Does

(* The buffers: what was to be copied is copied.                           *)
LEMMA StepBuffers ==
  ASSUME IInv, SystemMoves
  PROVE  /\ buffer' = [b \in BufferId |-> buffer'[b]]
         /\ \A b \in {"clIn", "clOut", "chIn"} : FinalBuffer(b)' = FinalBuffer(b)
         /\ First.op # "scanf" => FinalBuffer("user")' = FinalBuffer("user")
         /\ First.op = "scanf" => FinalBuffer("user")' = asked'
         /\ First.op # "SendToServer" => buffer'["sent"] = buffer["sent"]
         /\ First.op = "SendToServer" => buffer'["sent"] = buffer["chIn"]
         /\ buffer'["recv"] = buffer["recv"]
<1> DEFINE B == {"user", "clIn", "clOut", "chIn"}
<1>1. /\ First \in Ahead /\ Ahead' = Ahead \ {First} /\ OnlyOnce(Ahead) /\ Legal(First)
      /\ \A e \in Ahead : Rank(First.op) <= Rank(e.op)
  BY StepAhead
<1>2. /\ buffer = [b \in BufferId |-> buffer[b]] /\ B \subseteq BufferId
      /\ "sent" \in BufferId /\ "recv" \in BufferId
  BY DEF IInv, Variables, BufferId
<1>3. CASE First.op = "store"
  <2>1. buffer' = [buffer EXCEPT ![First.buf] = First.val] /\ First.buf \in B
    BY <1>1, <1>3, Frame DEF Legal
  <2>2. /\ buffer' = [b \in BufferId |-> buffer'[b]] /\ buffer'[First.buf] = First.val
        /\ \A b \in BufferId : b # First.buf => buffer'[b] = buffer[b]
    BY <1>2, <2>1
  <2>3. ASSUME NEW b \in B PROVE BufferAfter(Ahead', b, buffer'[b]) = BufferAfter(Ahead, b, buffer[b])
    <3>1. CASE Stores(First, b)
      <4>1. buffer'[b] = First.val BY <2>2, <3>1 DEF Stores
      <4> QED BY <4>1, <3>1, <1>1, StoreRemoved
    <3>2. CASE ~Stores(First, b)
      <4>1. buffer'[b] = buffer[b] BY <2>2, <3>2, <1>2, <1>3 DEF Stores
      <4> QED BY <4>1, <3>2, <1>1, StoreRemoved
    <3> QED BY <3>1, <3>2
  <2> QED BY <1>2, <1>3, <2>1, <2>2, <2>3 DEF FinalBuffer
<1>4. CASE First.op # "store"
  <2>1. \A b, v : BufferAfter(Ahead', b, v) = BufferAfter(Ahead, b, v)
    BY <1>1, <1>4, StoreRemoved DEF Stores
  <2>2. CASE First.op = "scanf"
    <3>1. PICK n \in Name : buffer' = [buffer EXCEPT !["user"] = n] /\ asked' = n
      BY <2>2, Frame
    <3>2. /\ buffer' = [b \in BufferId |-> buffer'[b]] /\ buffer'["user"] = asked'
          /\ \A b \in BufferId : b # "user" => buffer'[b] = buffer[b]
      BY <3>1, <1>2
    <3>3. \A e \in Ahead : e.op # "store"
      <4>1. Rank("scanf") = 2 /\ Rank("store") = 1 BY DEF Rank
      <4> QED BY <4>1, <1>1, <2>2
    <3>4. BufferAfter(Ahead, "user", buffer'["user"]) = buffer'["user"]
      BY <1>1, <3>3, StoreRemoved
    <3> QED BY <1>2, <2>1, <2>2, <3>2, <3>4 DEF FinalBuffer
  <2>3. CASE First.op = "SendToServer"
    <3>1. buffer' = [buffer EXCEPT !["sent"] = buffer["chIn"]] BY <2>3, Frame
    <3>2. /\ buffer' = [b \in BufferId |-> buffer'[b]] /\ buffer'["sent"] = buffer["chIn"]
          /\ \A b \in BufferId : b # "sent" => buffer'[b] = buffer[b]
      BY <3>1, <1>2
    <3> QED BY <1>2, <2>1, <2>3, <3>2 DEF FinalBuffer
  <2>4. CASE First.op \notin {"scanf", "SendToServer"}
    <3>1. buffer' = buffer BY <1>4, <2>4, Frame, Zenon
    <3> QED BY <1>2, <2>1, <2>4, <3>1 DEF FinalBuffer
  <2> QED BY <2>2, <2>3, <2>4
<1> QED BY <1>3, <1>4

-----------------------------------------------------------------------------
(* What a step that keeps the messages preserves.                          *)
LEMMA KeptHas ==
  ASSUME Kept
  PROVE  /\ Has(User, UserTypes)' <=> Has(User, UserTypes)
         /\ Has(User, Request)' <=> Has(User, Request)
         /\ Has(Client, Request)' <=> Has(Client, Request)
         /\ Has(Client, Answer)' <=> Has(Client, Answer)
         /\ Has(Client, Driving)' <=> Has(Client, Driving)
         /\ Has(Channel, ToServer)' <=> Has(Channel, ToServer)
         /\ Has(Channel, Create)' <=> Has(Channel, Create)
         /\ Single(mbx[User], Ahead, User, UserTypes) => Single(mbx[User], Ahead, User, UserTypes)'
         /\ Single(mbx[Client], Ahead, Client, Driving)
              => Single(mbx[Client], Ahead, Client, Driving)'
         /\ Single(mbx[Channel], Ahead, Channel, Create)
              => Single(mbx[Channel], Ahead, Channel, Create)'
<1>1. /\ UserTypes \cap Noise = {} /\ Request \cap Noise = {} /\ Answer \cap Noise = {}
      /\ Driving \cap Noise = {} /\ ToServer \cap Noise = {} /\ Create \cap Noise = {}
  BY DEF UserTypes, Request, Answer, Driving, ToServer, Create, Noise, Reply, Expiry
<1>2. User \in Fsm /\ Client \in Fsm /\ Channel \in Fsm BY DEF Fsm
<1>3. \A f \in Fsm : \A K : K \cap Noise = {} => SameBox(f, K) BY DEF Kept
<1>4. /\ SameBox(User, UserTypes) /\ SameBox(User, Request) /\ SameBox(Client, Request)
      /\ SameBox(Client, Answer) /\ SameBox(Client, Driving)
      /\ SameBox(Channel, ToServer) /\ SameBox(Channel, Create)
  BY <1>1, <1>2, <1>3
<1> QED BY <1>4 DEF SameBox, Has

LEMMA KeptAhead ==
  ASSUME Kept
  PROVE  /\ \A op : DoesIn(Ahead', op) => DoesIn(Ahead, op)
         /\ \A f, K : ToSend(Ahead', f, K) => ToSend(Ahead, f, K)
BY DEF Kept, DoesIn, ToSend

LEMMA TurnKept ==
  ASSUME IInv, Kept
  PROVE  Turn'
<1>1. Turn BY DEF IInv
<1>2. FinalState(User)' = FinalState(User) /\ FinalState(Client)' = FinalState(Client)
  BY DEF Kept
<1>3. User \in Fsm BY DEF Fsm
<1>4. ASSUME NEW m \in Range(mbx'[User]) PROVE m.type = UserExpects[FinalState(User)]
  <2>1. CASE m \in Range(mbx[User]) BY <2>1, <1>1 DEF Turn
  <2>2. CASE WasToSend(User, m)
    <3>1. PICK e \in Ahead : e.op = "send" /\ e.to = User /\ m = Msg(e.type, FinalBuffer(e.from))
      BY <2>2 DEF WasToSend
    <3>2. Legal(e) BY <3>1 DEF IInv, Effects, SystemEffects
    <3>3. Sends(e, User, UserTypes) BY <3>1, <3>2 DEF Legal, Sends
    <3>4. m.type = e.type BY <3>1 DEF Msg
    <3> QED BY <3>3, <3>4, <1>1 DEF Turn
  <2> QED BY <2>1, <2>2, <1>3 DEF Kept
<1>5. \A e \in Ahead' : Sends(e, User, UserTypes) => e.type = UserExpects[FinalState(User)]
  BY <1>1 DEF Kept, Turn
<1>6. /\ Single(mbx[User], Ahead, User, UserTypes)'
      /\ Has(User, UserTypes)' <=> Has(User, UserTypes)
      /\ Has(Client, Request)' <=> Has(Client, Request)
  BY <1>1, KeptHas DEF Turn
<1>7. Busy' <=> Busy BY <1>2 DEF Busy
<1>8. Busy' \/ Has(Client, Request)' => ~Has(User, UserTypes)' /\ FinalState(User)' = Waiting
  BY <1>1, <1>2, <1>6, <1>7 DEF Turn
<1>9. Has(Client, Request)' => ~Busy'
  BY <1>1, <1>6, <1>7 DEF Turn
<1>10. \A m \in Range(mbx[User])' : m.type = UserExpects[FinalState(User)']
  BY <1>2, <1>4
<1>11. \A e \in Ahead' : Sends(e, User, UserTypes) => e.type = UserExpects[FinalState(User)']
  BY <1>2, <1>5
<1> QED BY <1>6, <1>8, <1>9, <1>10, <1>11 DEF Turn

LEMMA DriveKept ==
  ASSUME IInv, Kept, Does("StartTimer")' => timer' = "null"
  PROVE  Drive'
<1>1. Drive BY DEF IInv
<1>2. FinalState(Client)' = FinalState(Client) /\ (FinalTimer' = "null" <=> FinalTimer = "null")
  BY DEF Kept
<1>3. /\ Has(Client, Answer)' <=> Has(Client, Answer)
      /\ Has(Client, Driving)' <=> Has(Client, Driving)
      /\ Single(mbx[Client], Ahead, Client, Driving)'
  BY <1>1, KeptHas DEF Drive
<1>4. Received' <=> Received BY <1>2 DEF Received
<1>5. Does("scanf")' \/ Does("print")' => Does("scanf") \/ Does("print")
  BY KeptAhead DEF Does
<1>6. Has(Client, Answer)' => ~Has(Client, Driving)' /\ FinalTimer' = "null"
  BY <1>1, <1>2, <1>3 DEF Drive
<1>7. Received' => ~Has(Client, Driving)' BY <1>1, <1>3, <1>4 DEF Drive
<1>8. FinalTimer' # "null" => Received' BY <1>1, <1>2, <1>4 DEF Drive
<1>9. Does("scanf")' \/ Does("print")' => ~Has(Client, Answer)'
  BY <1>1, <1>3, <1>5 DEF Drive
<1> QED BY <1>3, <1>6, <1>7, <1>8, <1>9 DEF Drive

-----------------------------------------------------------------------------
(* A step of the system thread within a handler.                           *)
LEMMA SystemKept ==
  ASSUME IInv, SystemMoves
  PROVE  Kept
<1>1. Ahead' \subseteq Ahead BY StepAhead
<1>2. User \in Fsm /\ Client \in Fsm BY DEF Fsm
<1> QED BY <1>1, <1>2, StepBoxes, StepStates, StepTimerAndFlag DEF Kept

LEMMA SystemVariables ==
  ASSUME IInv, SystemMoves
  PROVE  Variables'
<1>1. Variables /\ DnsClientAssumption BY DnsClientAssumption DEF IInv
<1>2. /\ state' = [f \in Fsm |-> state'[f]] /\ \A f \in Fsm : state'[f] \in StateOf[f]
  BY StepStates
<1>3. /\ mbx' = [f \in Fsm |-> mbx'[f]] /\ \A f \in Fsm : IsSeq(mbx'[f]) BY StepBoxes
<1>4. ASSUME NEW f \in Fsm, NEW m \in Range(mbx'[f]) PROVE m = Msg(m.type, m.val)
  <2>1. CASE m \in Range(mbx[f]) BY <2>1, <1>1 DEF Variables
  <2>2. CASE WasToSend(f, m)
    <3>1. PICK t, v : m = Msg(t, v) BY <2>2 DEF WasToSend
    <3> QED BY <3>1 DEF Msg
  <2> QED BY <2>1, <2>2, StepBoxes
<1>5. todo' = [t \in Thread |-> todo'[t]] BY StepAhead
<1>6. buffer' = [b \in BufferId |-> buffer'[b]] BY StepBuffers
<1>7. running' \in Fsm /\ segments' \in 0 .. MaxSegments BY <1>1, Frame DEF Variables
<1>8. preparing' \in SUBSET Thread
  <2>1. preparing' = preparing \/ preparing' = {} \/ preparing' = {"system"} BY Frame
  <2> QED BY <2>1, <1>1 DEF Variables, Thread
<1>9. flag' \in 0 .. 2 /\ timer' \in {"null", "running", "queued", "stale"}
  BY StepTimerAndFlag
<1>10. listener' \in {"none", "recv", "sleep", "done"}
  <2>1. listener' = "recv" \/ listener' = listener BY Frame, Zenon
  <2> QED BY <2>1, <1>1 DEF Variables
<1>11. inputs' \in 0 .. MaxInputs
  <2>1. (inputs < MaxInputs /\ inputs' = inputs + 1) \/ inputs' = inputs BY Frame, Zenon
  <2> QED BY <2>1, <1>1 DEF Variables, DnsClientAssumption
<1>12. asked' \in Name \cup {NoData}
  <2>1. asked' = NoData \/ asked' \in Name \/ asked' = asked BY Frame, Zenon
  <2> QED BY <2>1, <1>1 DEF Variables
<1>13. halted' \in BOOLEAN
  <2>1. halted' = halted \/ halted' = TRUE BY Frame
  <2> QED BY <2>1, <1>1 DEF Variables
<1> QED BY <1>2, <1>3, <1>4, <1>5, <1>6, <1>7, <1>8, <1>9, <1>10, <1>11, <1>12, <1>13 DEF Variables

(* Connecting: the socket.                                                 *)
LEMMA SystemSocket ==
  ASSUME IInv, SystemMoves
  PROVE  Socket'
<1>1. Socket BY DEF IInv
<1>2. /\ First \in Ahead /\ Ahead' = Ahead \ {First} /\ OnlyOnce(Ahead)
      /\ todo'["listener"] = todo["listener"]
      /\ \A e \in Ahead : Rank(First.op) <= Rank(e.op)
  BY StepAhead
<1>3. running' = running /\ segments' = segments BY Frame
<1>4. FinalFlag' = FinalFlag /\ FinalState(Channel)' = FinalState(Channel)
  BY StepTimerAndFlag, StepStates DEF Fsm
<1>5. Kept BY SystemKept
<1>6. /\ Has(Channel, Create)' <=> Has(Channel, Create)
      /\ Single(mbx[Channel], Ahead, Channel, Create) => Single(mbx[Channel], Ahead, Channel, Create)'
  BY <1>5, KeptHas
<1>7. Connecting' => Connecting BY <1>5, KeptAhead DEF Connecting, Does
<1>8. Creation' => Creation BY <1>6, <1>7 DEF Creation
<1>9. state'[Channel] = state[Channel]
        \/ (running = Channel /\ \E e \in Ahead : e.op = "state" /\ state'[Channel] = e.val)
  BY StepStates DEF Fsm
<1>10. CASE First.op # "CreateThread"
  <2>1. listener' = listener BY <1>10, Frame, Zenon
  <2>2. CASE listener = "none"
    <3>1. /\ todo'["listener"] = <<>> /\ segments' = 0 BY <2>2, <1>1, <1>2, <1>3 DEF Socket
    <3>2. \/ FinalFlag' = 0 /\ FinalState(Channel)' = "Channel_Idle" /\ ~Creation'
          \/ FinalFlag' = 1 /\ FinalState(Channel)' = "Channel_DNS_Request" /\ ~Creation'
          \/ /\ FinalFlag' = 1 /\ FinalState(Channel)' = "Channel_Connect"
             /\ Single(mbx[Channel], Ahead, Channel, Create)'
             /\ ~(Has(Channel, Create)' /\ Connecting')
      BY <2>2, <1>1, <1>4, <1>6, <1>7, <1>8 DEF Socket
    <3> QED BY <2>1, <2>2, <3>1, <3>2 DEF Socket
  <2>3. CASE listener # "none"
    <3>1. ~Creation' /\ FinalFlag' >= 1 BY <2>3, <1>1, <1>4, <1>8 DEF Socket
    <3>2. ASSUME FinalFlag' = 1
          PROVE  /\ state'[Channel] # "Channel_DNS_Request"
                 /\ running' = Channel =>
                      \A e \in Ahead' : e.op = "state" => e.val # "Channel_DNS_Request"
      BY <2>3, <3>2, <1>1, <1>2, <1>3, <1>4, <1>9 DEF Socket
    <3> QED BY <2>1, <2>3, <3>1, <3>2 DEF Socket
  <2> QED BY <2>2, <2>3
<1>11. CASE First.op = "CreateThread"
  <2>1. listener' = "recv" BY <1>11, Frame, Zenon
  <2>2. Does("CreateThread") /\ ~DoesIn(Ahead', "CreateThread")
    <3>1. PICK A, e : A = Ahead /\ e = First OBVIOUS
    <3>2. DoesIn(A, e.op) /\ (e.op # "send" => ~DoesIn(A \ {e}, e.op))
      BY <1>2, <3>1, DoesRemoved
    <3> QED BY <1>2, <1>11, <3>1, <3>2 DEF Does
  <2>3. Connecting /\ Creation BY <2>2 DEF Connecting, Creation
  <2>4. FinalFlag = 1 /\ FinalState(Channel) = "Channel_Connect" /\ ~Has(Channel, Create)
    BY <2>3, <1>1 DEF Socket
  <2>5. ~DoesIn(Ahead, "SendToServer")
    <3>1. Rank("CreateThread") = 3 /\ Rank("SendToServer") = 2 BY DEF Rank
    <3>2. ASSUME NEW e \in Ahead, e.op = "SendToServer" PROVE FALSE
      <4>1. 3 <= Rank(e.op) BY <1>2, <1>11, <3>1, <3>2
      <4>2. Rank(e.op) = 2 BY <3>1, <3>2
      <4> QED BY <4>1, <4>2
    <3> QED BY <3>2 DEF DoesIn
  <2>6. ~Creation'
    BY <1>5, <1>6, <2>2, <2>4, <2>5, KeptAhead DEF Creation, Connecting, Does
  <2>7. ~DoesIn(Ahead, "state") BY <2>2 DEF IInv, Effects, SystemEffects, Does
  <2>8. state[Channel] = "Channel_Connect" BY <2>4, <2>7 DEF FinalState, StateAfter
  <2>9. state'[Channel] = "Channel_Connect" BY <1>9, <2>7, <2>8 DEF DoesIn
  <2>10. \A e \in Ahead' : e.op # "state" BY <1>2, <2>7 DEF DoesIn
  <2> QED BY <1>4, <2>1, <2>4, <2>6, <2>9, <2>10 DEF Socket
<1> QED BY <1>10, <1>11

(* While a name is read or an answer printed, nothing is under way.        *)
LEMMA NothingAsked ==
  ASSUME IInv, Does("scanf") \/ Does("print")
  PROVE  /\ ~Busy /\ ~Has(Client, Request) /\ ~Has(Client, Answer)
         /\ ~Has(Channel, ToServer) /\ ~Creation
         /\ \A m \in Range(mbx[User]) : m.type \notin Answer
         /\ ~ToSend(Ahead, User, Answer)
         /\ Does("print") => ~Has(User, Request)
<1>1. Turn /\ Drive /\ Asked /\ SystemEffects(Ahead, running) BY DEF IInv, Effects
<1>2. /\ Does("print") => ToSend(Ahead, User, {"User_Data_Input"})
      /\ Does("scanf") => ToSend(Ahead, User, {"User_To_Client_Data_Sent"})
  BY <1>1 DEF SystemEffects, Does
<1>3. PICK e \in Ahead : /\ e.op = "send" /\ e.to = User
                         /\ Does("print") => e.type = "User_Data_Input"
                         /\ Does("print") \/ e.type = "User_To_Client_Data_Sent"
  BY <1>2 DEF ToSend, Sends
<1>4. Sends(e, User, UserTypes) BY <1>3 DEF Sends, UserTypes
<1>5. PICK u : u = UserExpects[FinalState(User)] OBVIOUS
<1>6. e.type = u /\ u \notin Answer BY <1>1, <1>3, <1>4, <1>5 DEF Turn, Answer
<1>7. \A m \in Range(mbx[User]) : m.type = u BY <1>1, <1>5 DEF Turn
<1>8. \A d \in Ahead : Sends(d, User, UserTypes) => d.type = u BY <1>1, <1>5 DEF Turn
<1>9. Has(User, UserTypes) BY <1>4 DEF Has, HasIn, ToSend
<1>10. ~Busy /\ ~Has(Client, Request) BY <1>1, <1>9 DEF Turn
<1>11. ~Received BY <1>10 DEF Busy, Received
<1>12. ~Has(Channel, ToServer) /\ ~Creation BY <1>1, <1>11 DEF Asked
<1>13. ~Has(Client, Answer) BY <1>1 DEF Drive
<1>14. \A m \in Range(mbx[User]) : m.type \notin Answer BY <1>6, <1>7
<1>15. ~ToSend(Ahead, User, Answer)
  BY <1>6, <1>8 DEF ToSend, Sends, Answer, UserTypes
<1>16. ASSUME Does("print") PROVE ~Has(User, Request)
  <2>1. u = "User_Data_Input" BY <1>3, <1>6, <1>16
  <2>2. ~InBox(mbx[User], Request) BY <1>7, <2>1 DEF InBox, Request
  <2>3. ~ToSend(Ahead, User, Request) BY <1>8, <2>1 DEF ToSend, Sends, Request, UserTypes
  <2> QED BY <2>2, <2>3 DEF Has, HasIn
<1> QED BY <1>10, <1>12, <1>13, <1>14, <1>15, <1>16

(* The name asked for goes from effect to effect and buffer to buffer.     *)
LEMMA SystemAsked ==
  ASSUME IInv, SystemMoves
  PROVE  Asked'
<1>1. Asked BY DEF IInv
<1>2. /\ First \in Ahead /\ Ahead' = Ahead \ {First} /\ OnlyOnce(Ahead)
      /\ \A e \in Ahead : Rank(First.op) <= Rank(e.op)
  BY StepAhead
<1>3. Kept BY SystemKept
<1>4. /\ DoesIn(Ahead, First.op)
      /\ \A op : op # First.op => (DoesIn(Ahead', op) <=> DoesIn(Ahead, op))
      /\ \A op : DoesIn(Ahead', op) => DoesIn(Ahead, op)
      /\ \A f, K : ToSend(Ahead', f, K) => ToSend(Ahead, f, K)
  BY <1>2, DoesRemoved
<1>5. /\ Has(User, Request)' <=> Has(User, Request)
      /\ Has(Client, Request)' <=> Has(Client, Request)
      /\ Has(Client, Answer)' <=> Has(Client, Answer)
      /\ Has(Channel, ToServer)' <=> Has(Channel, ToServer)
      /\ Has(Channel, Create)' <=> Has(Channel, Create)
  BY <1>3, KeptHas
<1>6. (Busy' <=> Busy) /\ (Received' <=> Received) BY <1>3 DEF Kept, Busy, Received
<1>7. Creation' => Creation BY <1>4, <1>5 DEF Creation, Connecting, Does
<1>8. Has(Channel, ToServer)' \/ Creation' => Received' /\ ~Has(Client, Answer)'
  BY <1>1, <1>5, <1>6, <1>7 DEF Asked
<1>9. CASE First.op = "scanf" \/ First.op = "print"
  <2>1. /\ ~Busy /\ ~Has(Client, Request)
        /\ ~Has(Channel, ToServer) /\ ~Creation
        /\ Does("print") => ~Has(User, Request)
    BY <1>4, <1>9, NothingAsked DEF Does
  <2>2. First.op = "scanf" => FinalBuffer("user")' = asked' BY StepBuffers
  <2>3. First.op = "print" => ~Has(User, Request)' BY <1>4, <1>5, <2>1 DEF Does
  <2>4. ~Busy' /\ ~Has(Client, Request)' /\ ~Has(Channel, ToServer)' /\ ~Creation'
    BY <1>5, <1>6, <1>7, <2>1
  <2>5. \A m \in Range(mbx'[Client]) : m.type \notin Request BY <2>4 DEF Has, HasIn, InBox
  <2>6. \A m \in Range(mbx'[Channel]) : m.type \notin ToServer BY <2>4 DEF Has, HasIn, InBox
  <2>7. ~ToSend(Ahead', Client, Request) BY <2>4 DEF Has, HasIn
  <2>8. ~Has(Channel, Create)' /\ ~Does("SendToServer")' /\ ~Does("CreateThread")'
    BY <2>4 DEF Creation, Connecting
  <2> QED BY <1>8, <1>9, <2>2, <2>3, <2>4, <2>5, <2>6, <2>7, <2>8 DEF Asked
<1>10. CASE First.op # "scanf" /\ First.op # "print"
  <2>1. asked' = asked BY <1>10, Frame, Zenon
  <2>2. /\ FinalBuffer("clIn")' = FinalBuffer("clIn") /\ FinalBuffer("chIn")' = FinalBuffer("chIn")
        /\ FinalBuffer("user")' = FinalBuffer("user")
    BY <1>10, StepBuffers
  <2>3. Has(User, Request)' /\ ~Does("scanf")' => FinalBuffer("user")' = asked'
    BY <1>1, <1>4, <1>5, <1>10, <2>1, <2>2 DEF Asked, Does
  <2>4. ToSend(Ahead', Client, Request) => FinalBuffer("user")' = asked'
    BY <1>1, <1>4, <2>1, <2>2 DEF Asked
  <2>5. Busy' => FinalBuffer("clIn")' = asked'
    BY <1>1, <1>6, <2>1, <2>2 DEF Asked
  <2>6. Has(Channel, Create)' \/ Does("SendToServer")' => FinalBuffer("chIn")' = asked'
    BY <1>1, <1>4, <1>5, <2>1, <2>2 DEF Asked, Does
  <2>7. ASSUME NEW m \in Range(mbx'[Client]), m.type \in Request PROVE m.val = asked'
    <3>1. CASE m \in Range(mbx[Client]) BY <3>1, <2>7, <1>1, <2>1 DEF Asked
    <3>2. CASE WasToSend(Client, m)
      <4>1. PICK e \in Ahead : e.op = "send" /\ e.to = Client /\ m = Msg(e.type, FinalBuffer(e.from))
        BY <3>2 DEF WasToSend
      <4>2. m.type = e.type /\ m.val = FinalBuffer(e.from) BY <4>1 DEF Msg
      <4>3. Sends(e, Client, Request) BY <4>1, <4>2, <2>7 DEF Sends
      <4>4. e.from = "user" BY <4>1, <4>3 DEF IInv, Effects, SystemEffects, Legal
      <4>5. FinalBuffer("user") = asked BY <4>3, <1>1 DEF Asked, ToSend
      <4> QED BY <4>2, <4>4, <4>5, <2>1
    <3> QED BY <3>1, <3>2, StepBoxes DEF Fsm
  <2>8. ASSUME NEW m \in Range(mbx'[Channel]), m.type \in ToServer PROVE m.val = asked'
    <3>1. CASE m \in Range(mbx[Channel]) BY <3>1, <2>8, <1>1, <2>1 DEF Asked
    <3>2. CASE WasToSend(Channel, m)
      <4>1. PICK e \in Ahead : e.op = "send" /\ e.to = Channel /\ m = Msg(e.type, FinalBuffer(e.from))
        BY <3>2 DEF WasToSend
      <4>2. m.type = e.type /\ m.val = FinalBuffer(e.from) BY <4>1 DEF Msg
      <4>3. Sends(e, Channel, ToServer) BY <4>1, <4>2, <2>8 DEF Sends
      <4>4. e.from = "clIn" BY <4>1, <4>3 DEF IInv, Effects, SystemEffects, Legal
      <4>5. Has(Channel, ToServer) BY <4>3 DEF Has, HasIn, ToSend
      <4>6. Busy BY <4>5, <1>1 DEF Asked, Busy, Received
      <4>7. FinalBuffer("clIn") = asked BY <4>6, <1>1 DEF Asked
      <4> QED BY <4>2, <4>4, <4>7, <2>1
    <3> QED BY <3>1, <3>2, StepBoxes DEF Fsm
  <2>9. Does("CreateThread")' /\ ~Does("SendToServer")' => buffer'["sent"] = asked'
    <3>1. CASE First.op = "SendToServer"
      <4>1. buffer'["sent"] = buffer["chIn"] BY <3>1, StepBuffers
      <4>2. \A e \in Ahead : e.op # "store"
        <5>1. Rank("SendToServer") = 2 /\ Rank("store") = 1 BY DEF Rank
        <5>2. ASSUME NEW e \in Ahead, e.op = "store" PROVE FALSE
          <6>1. 2 <= Rank(e.op) BY <1>2, <3>1, <5>1, <5>2
          <6>2. Rank(e.op) = 1 BY <5>1, <5>2
          <6> QED BY <6>1, <6>2
        <5> QED BY <5>2
      <4>3. FinalBuffer("chIn") = buffer["chIn"] BY <1>2, <4>2, StoreRemoved DEF FinalBuffer
      <4>4. Does("SendToServer") BY <1>4, <3>1 DEF Does
      <4> QED BY <4>1, <4>3, <4>4, <1>1, <2>1 DEF Asked
    <3>2. CASE First.op # "SendToServer"
      <4>1. buffer'["sent"] = buffer["sent"] BY <3>2, StepBuffers
      <4> QED BY <4>1, <3>2, <1>1, <1>4, <2>1 DEF Asked, Does
    <3> QED BY <3>1, <3>2
  <2> QED BY <1>8, <2>3, <2>4, <2>5, <2>6, <2>7, <2>8, <2>9 DEF Asked
<1> QED BY <1>9, <1>10

(* The reply: only sending the request and making the listener concern it. *)
LEMMA SystemReplies ==
  ASSUME IInv, SystemMoves
  PROVE  Replies'
<1>1. Replies BY DEF IInv
<1>2. First \in Ahead /\ todo'["listener"] = todo["listener"] BY StepAhead
<1>3. Kept BY SystemKept
<1>4. segments' = segments BY Frame
<1>5. Received' <=> Received BY <1>3 DEF Kept, Received
<1>6. Has(Client, Answer)' <=> Has(Client, Answer) BY <1>3, KeptHas
<1>7. Replying' <=> Replying BY <1>2 DEF Replying
<1>8. ASSUME NEW m \in Range(mbx'[Client]), m.type \in Reply PROVE m \in Range(mbx[Client])
  <2>1. ASSUME WasToSend(Client, m) PROVE FALSE
    <3>1. PICK e \in Ahead : e.op = "send" /\ e.to = Client /\ m = Msg(e.type, FinalBuffer(e.from))
      BY <2>1 DEF WasToSend
    <3>2. m.type = e.type BY <3>1 DEF Msg
    <3>3. Sends(e, Client, Reply) BY <3>1, <3>2, <1>8 DEF Sends
    <3> QED BY <3>1, <3>3 DEF IInv, Effects, SystemEffects, Legal
  <2> QED BY <2>1, StepBoxes DEF Fsm
<1>9. InBox(mbx'[Client], Reply) => InBox(mbx[Client], Reply) BY <1>8 DEF InBox
<1>10. OneIn(mbx[Client], Reply) => OneIn(mbx'[Client], Reply) BY StepBoxes
<1>11. buffer'["recv"] = buffer["recv"] BY StepBuffers
<1>12. First.op = "SendToServer" \/ First.op = "CreateThread" => listener = "none" /\ segments = 0
  <2>1. First.op = "SendToServer" \/ First.op = "CreateThread" => Creation
    BY <1>2 DEF Creation, Connecting, Does, DoesIn
  <2> QED BY <2>1 DEF IInv, Socket
<1>13. segments' = 0 => ~Replying' /\ ~InBox(mbx'[Client], Reply)
  BY <1>1, <1>4, <1>7, <1>9 DEF Replies
<1>14. ASSUME segments' = 1
       PROVE  /\ ~(Replying' /\ InBox(mbx'[Client], Reply))
              /\ OneIn(mbx'[Client], Reply)
              /\ Replying' => buffer'["recv"] = ServerReply(buffer'["sent"])
              /\ \A m \in Range(mbx'[Client]) : m.type \in Reply => m.val = ServerReply(buffer'["sent"])
  <2>1. segments = 1 BY <1>4, <1>14
  <2>2. segments # 0 BY <2>1
  <2>4. First.op # "SendToServer" BY <1>12, <2>2
  <2>3. buffer'["sent"] = buffer["sent"] BY <2>4, StepBuffers
  <2> QED BY <2>1, <2>3, <1>1, <1>7, <1>8, <1>9, <1>10, <1>11 DEF Replies
<1>15. ASSUME listener' # "none",
              segments' = 0 \/ (segments' = 1 /\ (Replying' \/ InBox(mbx'[Client], Reply)))
       PROVE  Received' /\ ~Has(Client, Answer)' /\ buffer'["sent"] = asked'
  <2>1. segments = 0 \/ (segments = 1 /\ (Replying \/ InBox(mbx[Client], Reply)))
    BY <1>4, <1>7, <1>9, <1>15
  <2>2. CASE First.op = "CreateThread"
    <3>1. Creation /\ Does("CreateThread") BY <1>2, <2>2 DEF Creation, Connecting, Does, DoesIn
    <3>2. Received /\ ~Has(Client, Answer) BY <3>1 DEF IInv, Asked
    <3>3. Asked' BY SystemAsked
    <3>4. buffer'["sent"] = buffer["sent"] /\ asked' = asked BY <2>2, StepBuffers, Frame
    <3>5. ~Does("SendToServer")
      <4>1. Rank("CreateThread") = 3 /\ Rank("SendToServer") = 2 BY DEF Rank
      <4>2. ASSUME NEW e \in Ahead, e.op = "SendToServer" PROVE FALSE
        <5>1. Rank(First.op) <= Rank(e.op) BY StepAhead
        <5>2. 3 <= Rank(e.op) BY <5>1, <2>2, <4>1
        <5>3. Rank(e.op) = 2 BY <4>1, <4>2
        <5> QED BY <5>2, <5>3
      <4> QED BY <4>2 DEF Does, DoesIn
    <3>6. buffer["sent"] = asked BY <3>1, <3>5 DEF IInv, Asked
    <3> QED BY <3>2, <3>4, <3>6, <1>5, <1>6
  <2>3. CASE First.op # "CreateThread"
    <3>1. listener' = listener BY <2>3, Frame, Zenon
    <3>2. Received /\ ~Has(Client, Answer) /\ buffer["sent"] = asked
      BY <3>1, <2>1, <1>1, <1>15 DEF Replies
    <3>3. First.op # "SendToServer" BY <3>1, <1>12, <1>15
    <3>4. ~(Does("scanf") \/ Does("print")) BY <3>2, NothingAsked DEF Busy, Received
    <3>5. First.op # "scanf" /\ First.op # "print" BY <3>4, <1>2 DEF Does, DoesIn
    <3>6. asked' = asked BY <3>5, Frame, Zenon
    <3>7. buffer'["sent"] = buffer["sent"] BY <3>3, StepBuffers
    <3> QED BY <3>2, <3>6, <3>7, <1>5, <1>6
  <2> QED BY <2>2, <2>3
<1> QED BY <1>13, <1>14, <1>15 DEF Replies

(* The answer, to what is printed.                                         *)
LEMMA SystemAnswers ==
  ASSUME IInv, SystemMoves
  PROVE  Answers' /\ AnswerIsForTheName'
<1>1. Answers BY DEF IInv
<1>2. First \in Ahead /\ \A e \in Ahead : Rank(First.op) <= Rank(e.op) BY StepAhead
<1>3. Kept BY SystemKept
<1>4. segments' = segments BY Frame
<1>5. Has(Client, Answer)' <=> Has(Client, Answer) BY <1>3, KeptHas
<1>6. /\ \A op : DoesIn(Ahead', op) => DoesIn(Ahead, op)
      /\ \A f, K : ToSend(Ahead', f, K) => ToSend(Ahead, f, K)
  BY <1>3, KeptAhead
<1>7. FinalBuffer("clOut")' = FinalBuffer("clOut") BY StepBuffers
<1>8. DoesIn(Ahead, First.op) BY <1>2 DEF DoesIn
<1>9. ASSUME NEW m \in Range(mbx'[User]), m.type \in Answer
      PROVE  m \in Range(mbx[User]) \/ (ToSend(Ahead, User, Answer) /\ m.val = FinalBuffer("clOut"))
  <2>1. ASSUME WasToSend(User, m) PROVE ToSend(Ahead, User, Answer) /\ m.val = FinalBuffer("clOut")
    <3>1. PICK e \in Ahead : e.op = "send" /\ e.to = User /\ m = Msg(e.type, FinalBuffer(e.from))
      BY <2>1 DEF WasToSend
    <3>2. m.type = e.type /\ m.val = FinalBuffer(e.from) BY <3>1 DEF Msg
    <3>3. Sends(e, User, Answer) BY <3>1, <3>2, <1>9 DEF Sends
    <3>4. e.from = "clOut" BY <3>1, <3>3 DEF IInv, Effects, SystemEffects, Legal
    <3> QED BY <3>2, <3>3, <3>4 DEF ToSend
  <2> QED BY <2>1, StepBoxes DEF Fsm
<1>10. CASE First.op = "scanf" \/ First.op = "print"
  <2>1. /\ ~Has(Client, Answer) /\ ~ToSend(Ahead, User, Answer)
        /\ \A m \in Range(mbx[User]) : m.type \notin Answer
    BY <1>8, <1>10, NothingAsked DEF Does
  <2>2. ~Does("print")'
    <3>1. CASE First.op = "print" BY <3>1, StepAhead, DoesRemoved DEF Does
    <3>2. CASE First.op = "scanf"
      <4>1. ToSend(Ahead, User, {"User_To_Client_Data_Sent"})
        BY <1>8, <3>2 DEF IInv, Effects, SystemEffects
      <4>2. Has(User, Request) BY <4>1 DEF Has, HasIn, Request
      <4>3. ~Does("print") BY <4>2, NothingAsked
      <4> QED BY <4>3, <1>6 DEF Does
    <3> QED BY <3>1, <3>2, <1>10
  <2>3. Answers' BY <1>5, <1>6, <1>9, <2>1, <2>2 DEF Answers
  <2>4. AnswerIsForTheName'
    <3>1. CASE First.op = "print"
      <4>1. shown' = [name |-> asked, answer |-> buffer["user"]] BY <3>1, Frame, Zenon
      <4>2. \A e \in Ahead : e.op # "store"
        <5>1. Rank("print") = 2 /\ Rank("store") = 1 BY DEF Rank
        <5>2. ASSUME NEW e \in Ahead, e.op = "store" PROVE FALSE
          <6>1. 2 <= Rank(e.op) BY <1>2, <3>1, <5>1, <5>2
          <6>2. Rank(e.op) = 1 BY <5>1, <5>2
          <6> QED BY <6>1, <6>2
        <5> QED BY <5>2
      <4>3. FinalBuffer("user") = buffer["user"]
        BY <4>2, <1>2, StepAhead, StoreRemoved DEF FinalBuffer
      <4>4. segments <= 1 => Good(buffer["user"], asked)
        BY <4>3, <1>1, <1>8, <3>1 DEF Answers, Does
      <4>5. shown'.name = asked /\ shown'.answer = buffer["user"] BY <4>1
      <4> QED BY <4>4, <4>5, <1>4, Zenon DEF AnswerIsForTheName, Good
    <3>2. CASE First.op = "scanf"
      <4>1. shown' = shown BY <3>2, Frame
      <4> QED BY <4>1, <1>4 DEF IInv, AnswerIsForTheName
    <3> QED BY <3>1, <3>2, <1>10
  <2> QED BY <2>3, <2>4
<1>11. CASE First.op # "scanf" /\ First.op # "print"
  <2>1. asked' = asked /\ shown' = shown BY <1>11, Frame, Zenon
  <2>2. FinalBuffer("user")' = FinalBuffer("user") BY <1>11, StepBuffers
  <2>3. ASSUME segments <= 1
        PROVE  /\ Has(Client, Answer)' => Good(FinalBuffer("clOut")', asked')
               /\ \A m \in Range(mbx'[User]) : m.type \in Answer => Good(m.val, asked')
               /\ ToSend(Ahead', User, Answer) => Good(FinalBuffer("clOut")', asked')
               /\ Does("print")' => Good(FinalBuffer("user")', asked')
    <3>1. Has(Client, Answer)' => Good(FinalBuffer("clOut")', asked')
      BY <2>1, <2>3, <1>1, <1>5, <1>7 DEF Answers
    <3>2. \A m \in Range(mbx'[User]) : m.type \in Answer => Good(m.val, asked')
      BY <2>1, <2>3, <1>1, <1>9 DEF Answers
    <3>3. ToSend(Ahead', User, Answer) => Good(FinalBuffer("clOut")', asked')
      BY <2>1, <2>3, <1>1, <1>6, <1>7 DEF Answers
    <3>4. Does("print")' => Good(FinalBuffer("user")', asked')
      BY <2>1, <2>2, <2>3, <1>1, <1>6 DEF Answers, Does
    <3> QED BY <3>1, <3>2, <3>3, <3>4
  <2>4. Answers' BY <2>3, <1>4 DEF Answers, Good
  <2>5. AnswerIsForTheName' BY <2>1, <1>4 DEF IInv, AnswerIsForTheName
  <2> QED BY <2>4, <2>5
<1> QED BY <1>10, <1>11

LEMMA SystemPreserves ==
  ASSUME IInv, SystemMoves
  PROVE  IInv'
<1>1. Does("StartTimer")' => timer' = "null" BY StepTimerAndFlag
<1>2. Kept BY SystemKept
<1>3. Turn' /\ Drive' BY <1>1, <1>2, TurnKept, DriveKept
<1>4. Expiries' BY StepBoxes
<1> QED BY <1>3, <1>4, SystemVariables, EffectsStep, SystemSocket, SystemAsked, SystemReplies,
           SystemAnswers DEF IInv

-----------------------------------------------------------------------------
(* Steps of the listener, and the expiry of the timer.                     *)
OutsideMoves ==
  ThreadStep("listener") \/ Receive \/ SleepOver \/ ServerCloses \/ ReceiveFails \/ TimerExpires
Next1 == Head(todo["listener"])

(* What they have in common: at most a message that User does not get.     *)
Outside ==
  /\ Ahead' = Ahead /\ todo'["system"] = todo["system"]
  /\ todo' = [t \in Thread |-> todo'[t]]
  /\ running' = running /\ flag' = flag /\ asked' = asked /\ shown' = shown /\ inputs' = inputs
  /\ mbx' = [f \in Fsm |-> mbx'[f]]
  /\ \A f \in Fsm : \/ mbx'[f] = mbx[f]
                    \/ /\ f # User
                       /\ \E t \in Noise : \E v : mbx'[f] = Append(mbx[f], Msg(t, v))
  /\ state' = [f \in Fsm |-> state'[f]]
  /\ state'[User] = state[User] /\ state'[Client] = state[Client]
  /\ \/ state'[Channel] = state[Channel]
     \/ state'[Channel] \in {"Channel_Idle", "Channel_Disconnect"} /\ listener # "none"
  /\ buffer' = [b \in BufferId |-> buffer'[b]]
  /\ \A b \in BufferId : b # "recv" => buffer'[b] = buffer[b]
  /\ timer' = timer \/ (timer = "running" /\ timer' = "queued")
  /\ listener' \in {"none", "recv", "sleep", "done"}
  /\ \/ listener' = listener /\ todo'["listener"] = todo["listener"] /\ segments' = segments
     \/ listener # "none" /\ listener' # "none" /\ segments' \in Nat /\ segments <= segments'

LEMMA NoisePut ==
  ASSUME NEW q, IsSeq(q), NEW t \in Noise, NEW v, NEW A, NEW f, NEW K, K \cap Noise = {}
  PROVE  /\ HasIn(Append(q, Msg(t, v)), A, f, K) <=> HasIn(q, A, f, K)
         /\ Single(q, A, f, K) => Single(Append(q, Msg(t, v)), A, f, K)
<1>1. PICK m : m = Msg(t, v) OBVIOUS
<1>2. m.type \notin K BY <1>1 DEF Msg
<1>3. PICK r : r = Append(q, m) OBVIOUS
<1>4. /\ InBox(r, K) <=> InBox(q, K)
      /\ OneIn(q, K) => OneIn(r, K)
  BY <1>2, <1>3, BoxPut
<1> QED BY <1>1, <1>3, <1>4 DEF HasIn, Single

LEMMA OutsideKept ==
  ASSUME IInv, Outside
  PROVE  /\ Kept
         /\ \A f \in Fsm : \A m \in Range(mbx'[f]) :
               m \in Range(mbx[f]) \/ (f # User /\ m.type \in Noise)
         /\ \A f \in Fsm : IsSeq(mbx'[f]) /\ \A m \in Range(mbx'[f]) : m = Msg(m.type, m.val)
<1>1. /\ \A f \in Fsm : IsSeq(mbx[f]) /\ \A m \in Range(mbx[f]) : m = Msg(m.type, m.val)
      /\ timer \in {"null", "running", "queued", "stale"}
  BY DEF IInv, Variables
<1>2. Ahead' = Ahead /\ running' = running BY DEF Outside
<1>3. ASSUME NEW f \in Fsm, NEW K, K \cap Noise = {} PROVE SameBox(f, K)
  <2>1. CASE mbx'[f] = mbx[f] BY <2>1, <1>2 DEF SameBox
  <2>2. CASE \E t \in Noise : \E v : mbx'[f] = Append(mbx[f], Msg(t, v))
    <3>0. PICK t \in Noise : \E v : mbx'[f] = Append(mbx[f], Msg(t, v)) BY <2>2
    <3>1. PICK v : mbx'[f] = Append(mbx[f], Msg(t, v)) BY <3>0
    <3>2. /\ HasIn(Append(mbx[f], Msg(t, v)), Ahead, f, K) <=> HasIn(mbx[f], Ahead, f, K)
          /\ Single(mbx[f], Ahead, f, K) => Single(Append(mbx[f], Msg(t, v)), Ahead, f, K)
      BY <1>1, <1>3, NoisePut
    <3> QED BY <1>2, <3>1, <3>2 DEF SameBox
  <2> QED BY <2>1, <2>2 DEF Outside
<1>4. ASSUME NEW f \in Fsm
      PROVE  /\ \A m \in Range(mbx'[f]) : m \in Range(mbx[f]) \/ (f # User /\ m.type \in Noise)
             /\ IsSeq(mbx'[f]) /\ \A m \in Range(mbx'[f]) : m = Msg(m.type, m.val)
  <2>1. CASE mbx'[f] = mbx[f] BY <2>1, <1>1
  <2>2. CASE f # User /\ \E t \in Noise : \E v : mbx'[f] = Append(mbx[f], Msg(t, v))
    <3>0. PICK t \in Noise : \E v : mbx'[f] = Append(mbx[f], Msg(t, v)) BY <2>2
    <3>1. PICK v : mbx'[f] = Append(mbx[f], Msg(t, v)) BY <3>0
    <3>2. PICK m : m = Msg(t, v) OBVIOUS
    <3>3. m.type = t /\ m = Msg(m.type, m.val) BY <3>2 DEF Msg
    <3>4. PICK r : r = Append(mbx[f], m) OBVIOUS
    <3>5. IsSeq(r) /\ Range(r) = Range(mbx[f]) \cup {m} BY <1>1, <3>4, BoxPut
    <3>6. mbx'[f] = r BY <3>1, <3>2, <3>4
    <3> QED BY <1>1, <2>2, <3>3, <3>5, <3>6
  <2> QED BY <2>1, <2>2 DEF Outside
<1>5. FinalState(User)' = FinalState(User) /\ FinalState(Client)' = FinalState(Client)
  BY DEF FinalState, Outside
<1>6. TimerAfter(Ahead, timer') = "null" <=> TimerAfter(Ahead, timer) = "null"
  BY DEF TimerAfter, Outside
<1>7. FinalTimer' = "null" <=> FinalTimer = "null" BY <1>2, <1>6 DEF FinalTimer
<1> QED BY <1>2, <1>3, <1>4, <1>5, <1>7 DEF Kept

(* They keep what concerns the system thread.                              *)
LEMMA OutsidePreserves ==
  ASSUME IInv, Outside
  PROVE  Turn' /\ Drive' /\ Socket' /\ Asked' /\ Answers' /\ AnswerIsForTheName'
         /\ Handler(todo'["system"]) /\ SystemEffects(Ahead', running')
<1>1. Kept BY OutsideKept
<1>2. /\ Ahead' = Ahead /\ running' = running /\ asked' = asked /\ shown' = shown /\ flag' = flag
      /\ todo'["system"] = todo["system"]
  BY DEF Outside
<1>3. \A op : Does(op)' <=> Does(op) BY <1>2 DEF Does
<1>4. Turn' BY <1>1, TurnKept
<1>5. Does("StartTimer")' => timer' = "null"
  <2>1. Does("StartTimer") => timer = "null" BY DEF IInv, Drive
  <2> QED BY <1>3, <2>1 DEF Outside
<1>6. Drive' BY <1>1, <1>5, DriveKept
<1>7. /\ Has(User, Request)' <=> Has(User, Request)
      /\ Has(Client, Answer)' <=> Has(Client, Answer)
      /\ Has(Channel, ToServer)' <=> Has(Channel, ToServer)
      /\ Has(Channel, Create)' <=> Has(Channel, Create)
      /\ Single(mbx[Channel], Ahead, Channel, Create)
           => Single(mbx[Channel], Ahead, Channel, Create)'
  BY <1>1, KeptHas
<1>8. FinalFlag' = FinalFlag BY <1>2 DEF FinalFlag
<1>9. (Connecting' <=> Connecting) /\ (Creation' <=> Creation)
  BY <1>3, <1>7 DEF Connecting, Creation
<1>10. (Busy' <=> Busy) /\ (Received' <=> Received) BY <1>1 DEF Kept, Busy, Received
<1>11. /\ FinalBuffer("user")' = FinalBuffer("user") /\ FinalBuffer("clIn")' = FinalBuffer("clIn")
       /\ FinalBuffer("chIn")' = FinalBuffer("chIn") /\ FinalBuffer("clOut")' = FinalBuffer("clOut")
       /\ buffer'["sent"] = buffer["sent"]
  BY <1>2 DEF FinalBuffer, Outside, BufferId
<1>12. Socket'
  <2>1. Socket BY DEF IInv
  <2>2. CASE listener = "none"
    <3>1. /\ listener' = listener /\ todo'["listener"] = todo["listener"] /\ segments' = segments
          /\ state'[Channel] = state[Channel]
      BY <2>2 DEF Outside
    <3>2. FinalState(Channel)' = FinalState(Channel) BY <1>2, <3>1 DEF FinalState
    <3>3. \/ FinalFlag' = 0 /\ FinalState(Channel)' = "Channel_Idle" /\ ~Creation'
          \/ FinalFlag' = 1 /\ FinalState(Channel)' = "Channel_DNS_Request" /\ ~Creation'
          \/ /\ FinalFlag' = 1 /\ FinalState(Channel)' = "Channel_Connect"
             /\ Single(mbx[Channel], Ahead, Channel, Create)'
             /\ ~(Has(Channel, Create)' /\ Connecting')
      BY <2>1, <2>2, <3>2, <1>7, <1>8, <1>9 DEF Socket
    <3>4. todo'["listener"] = <<>> /\ segments' = 0 BY <2>1, <2>2, <3>1 DEF Socket
    <3> QED BY <2>2, <3>1, <3>3, <3>4 DEF Socket
  <2>3. CASE listener # "none"
    <3>1. listener' # "none" BY <2>3 DEF Outside
    <3>2. ~Creation' /\ FinalFlag' >= 1 BY <2>1, <2>3, <1>8, <1>9 DEF Socket
    <3>3. ASSUME FinalFlag' = 1
          PROVE  /\ state'[Channel] # "Channel_DNS_Request"
                 /\ running' = Channel =>
                      \A e \in Ahead' : e.op = "state" => e.val # "Channel_DNS_Request"
      <4>1. /\ state[Channel] # "Channel_DNS_Request"
            /\ running = Channel =>
                 \A e \in Ahead : e.op = "state" => e.val # "Channel_DNS_Request"
        BY <2>1, <2>3, <3>3, <1>8 DEF Socket
      <4> QED BY <4>1, <1>2 DEF Outside
    <3> QED BY <3>1, <3>2, <3>3 DEF Socket
  <2> QED BY <2>2, <2>3
<1>13. Asked'
  <2>1. Asked BY DEF IInv
  <2>2. ASSUME NEW m \in Range(mbx'[Client]), m.type \in Request PROVE m.val = asked'
    <3>1. m.type \notin Noise BY <2>2 DEF Request, Noise, Reply, Expiry
    <3>2. m \in Range(mbx[Client]) BY <3>1, OutsideKept DEF Fsm
    <3> QED BY <2>1, <2>2, <3>2, <1>2 DEF Asked
  <2>3. ASSUME NEW m \in Range(mbx'[Channel]), m.type \in ToServer PROVE m.val = asked'
    <3>1. m.type \notin Noise BY <2>3 DEF ToServer, Noise, Reply, Expiry
    <3>2. m \in Range(mbx[Channel]) BY <3>1, OutsideKept DEF Fsm
    <3> QED BY <2>1, <2>3, <3>2, <1>2 DEF Asked
  <2>4. /\ Has(User, Request)' /\ ~Does("scanf")' => FinalBuffer("user")' = asked'
        /\ ToSend(Ahead', Client, Request) => FinalBuffer("user")' = asked'
        /\ Busy' => FinalBuffer("clIn")' = asked'
    BY <2>1, <1>2, <1>3, <1>7, <1>10, <1>11 DEF Asked
  <2>5. Has(Channel, ToServer)' \/ Creation' => Received' /\ ~Has(Client, Answer)'
    BY <2>1, <1>7, <1>9, <1>10 DEF Asked
  <2>6. /\ Has(Channel, Create)' \/ Does("SendToServer")' => FinalBuffer("chIn")' = asked'
        /\ Does("CreateThread")' /\ ~Does("SendToServer")' => buffer'["sent"] = asked'
    BY <2>1, <1>2, <1>3, <1>7, <1>11 DEF Asked
  <2> QED BY <2>2, <2>3, <2>4, <2>5, <2>6 DEF Asked
<1>14. segments' <= 1 => segments <= 1
  <2>1. segments \in Nat BY DnsClientAssumption DEF IInv, Variables, DnsClientAssumption
  <2> QED BY <2>1 DEF Outside
<1>15. ASSUME segments' <= 1
       PROVE  /\ Has(Client, Answer)' => Good(FinalBuffer("clOut")', asked')
              /\ \A m \in Range(mbx'[User]) : m.type \in Answer => Good(m.val, asked')
              /\ ToSend(Ahead', User, Answer) => Good(FinalBuffer("clOut")', asked')
              /\ Does("print")' => Good(FinalBuffer("user")', asked')
  <2>1. /\ Has(Client, Answer) => Good(FinalBuffer("clOut"), asked)
        /\ \A m \in Range(mbx[User]) : m.type \in Answer => Good(m.val, asked)
        /\ ToSend(Ahead, User, Answer) => Good(FinalBuffer("clOut"), asked)
        /\ Does("print") => Good(FinalBuffer("user"), asked)
    BY <1>14, <1>15 DEF IInv, Answers
  <2>2. \A m \in Range(mbx'[User]) : m \in Range(mbx[User]) BY OutsideKept DEF Fsm
  <2> QED BY <2>1, <2>2, <1>2, <1>3, <1>7, <1>11
<1>16. Answers' BY <1>15 DEF Answers, Good
<1>17. AnswerIsForTheName' BY <1>2, <1>14 DEF IInv, AnswerIsForTheName
<1> QED BY <1>2, <1>4, <1>6, <1>12, <1>13, <1>16, <1>17 DEF IInv, Effects

(* The replies, when no segment arrives and none is passed to Client.      *)
LEMMA RepliesKept ==
  ASSUME IInv, Outside, segments' = segments, listener' # "none" => listener # "none",
         buffer' = buffer, Replying' => Replying,
         \A m \in Range(mbx'[Client]) : m.type \in Reply => m \in Range(mbx[Client]),
         OneIn(mbx[Client], Reply) => OneIn(mbx'[Client], Reply)
  PROVE  Replies'
<1>1. Replies BY DEF IInv
<1>2. InBox(mbx'[Client], Reply) => InBox(mbx[Client], Reply) BY DEF InBox
<1>3. Kept /\ asked' = asked BY OutsideKept DEF Outside
<1>4. (Received' <=> Received) /\ (Has(Client, Answer)' <=> Has(Client, Answer))
  BY <1>3, KeptHas DEF Kept, Received
<1>5. segments' = 0 => ~Replying' /\ ~InBox(mbx'[Client], Reply)
  BY <1>1, <1>2 DEF Replies
<1>6. segments' = 1 =>
         /\ ~(Replying' /\ InBox(mbx'[Client], Reply))
         /\ OneIn(mbx'[Client], Reply)
         /\ Replying' => buffer'["recv"] = ServerReply(buffer'["sent"])
         /\ \A m \in Range(mbx'[Client]) : m.type \in Reply => m.val = ServerReply(buffer'["sent"])
  BY <1>1, <1>2 DEF Replies
<1>7. listener' # "none"
        /\ (segments' = 0 \/ (segments' = 1 /\ (Replying' \/ InBox(mbx'[Client], Reply))))
      => Received' /\ ~Has(Client, Answer)' /\ buffer'["sent"] = asked'
  BY <1>1, <1>2, <1>3, <1>4 DEF Replies
<1> QED BY <1>5, <1>6, <1>7 DEF Replies

(* The next effect of the listener.                                        *)
LEMMA ListenerStep ==
  ASSUME IInv, todo["listener"] # <<>>, Performed("listener")
  PROVE  /\ todo'["system"] = todo["system"] /\ Ahead' = Ahead
         /\ todo' = [t \in Thread |-> todo'[t]]
         /\ ListenerEffects(todo'["listener"]) /\ listener # "none"
         /\ Next1 \in Range(todo["listener"])
         /\ Replying' => Replying
         /\ ToReply(Next1) => Replying /\ ~Replying'
<1>1. todo = [t \in Thread |-> todo[t]] BY DEF IInv, Variables
<1>2. todo' = [todo EXCEPT !["listener"] = Tail(@)] BY DEF Performed
<1>3. /\ todo'["system"] = todo["system"] /\ todo'["listener"] = Tail(todo["listener"])
      /\ todo' = [t \in Thread |-> todo'[t]]
  BY <1>1, <1>2 DEF Thread
<1>4. ListenerEffects(todo["listener"]) BY DEF IInv, Effects
<1>5. /\ ListenerEffects(Tail(todo["listener"])) /\ Head(todo["listener"]) \in Range(todo["listener"])
      /\ Range(Tail(todo["listener"])) \subseteq Range(todo["listener"])
      /\ ToReply(Head(todo["listener"])) => \A e \in Range(Tail(todo["listener"])) : ~ToReply(e)
  BY <1>4, ListenerTail
<1>6. listener # "none" BY DEF IInv, Socket
<1>7. Ahead' = Ahead BY <1>3 DEF Ahead
<1> QED BY <1>3, <1>5, <1>6, <1>7 DEF Next1, Replying

(* What the conjuncts that remain to be shown need.                        *)
LEMMA OutsideIInv ==
  ASSUME IInv, Outside, ListenerEffects(todo'["listener"]), Expiries', Replies',
         preparing' \in SUBSET Thread, halted' \in BOOLEAN, segments' \in 0 .. MaxSegments
  PROVE  IInv'
<1>1. Variables'
  <2>1. Variables BY DEF IInv
  <2>2. \A f \in Fsm : IsSeq(mbx'[f]) /\ \A m \in Range(mbx'[f]) : m = Msg(m.type, m.val)
    BY OutsideKept
  <2>3. \A f \in Fsm : state'[f] \in StateOf[f]
    <3>1. /\ "Channel_Idle" \in StateOf[Channel] /\ "Channel_Disconnect" \in StateOf[Channel]
      BY DEF StateOf, Fsm, Channel, Client, User
    <3>2. \A f \in Fsm : f = User \/ f = Client \/ f = Channel BY DEF Fsm
    <3> QED BY <3>1, <3>2, <2>1 DEF Outside, Variables
  <2>4. /\ running' \in Fsm /\ flag' \in 0 .. 2 /\ asked' \in Name \cup {NoData}
        /\ inputs' \in 0 .. MaxInputs /\ timer' \in {"null", "running", "queued", "stale"}
    BY <2>1 DEF Outside, Variables
  <2> QED BY <2>2, <2>3, <2>4 DEF Outside, Variables
<1>2. Effects' BY OutsidePreserves DEF Effects
<1> QED BY <1>1, <1>2, OutsidePreserves DEF IInv

(* PrepareNewMessage, SetNewMessage and the state of Channel.              *)
LEMMA ListenerQuiet ==
  ASSUME IInv, todo["listener"] # <<>>, Performed("listener"),
         state' = state \/ (state' = [state EXCEPT ![Channel] = Next1.val] /\ Next1.op = "state"),
         preparing' \in {preparing, {}, {"listener"}}, halted' \in {halted, TRUE},
         UNCHANGED <<mbx, running, buffer, flag, timer, listener, inputs, segments, asked, shown>>
  PROVE  IInv'
<1>1. /\ todo'["system"] = todo["system"] /\ Ahead' = Ahead
      /\ todo' = [t \in Thread |-> todo'[t]]
      /\ ListenerEffects(todo'["listener"]) /\ listener # "none"
      /\ Next1 \in Range(todo["listener"])
      /\ Replying' => Replying
  BY ListenerStep
<1>2. Variables BY DEF IInv
<1>3. /\ state' = [f \in Fsm |-> state'[f]]
      /\ state'[User] = state[User] /\ state'[Client] = state[Client]
      /\ state'[Channel] = state[Channel] \/ state'[Channel] \in {"Channel_Idle", "Channel_Disconnect"}
  <2>1. Next1.op = "state" => Next1.val \in {"Channel_Idle", "Channel_Disconnect"}
    BY <1>1 DEF IInv, Effects, ListenerEffects
  <2>2. state = [f \in Fsm |-> state[f]] BY <1>2 DEF Variables
  <2>3. CASE state' = state BY <2>2, <2>3
  <2>4. CASE state' = [state EXCEPT ![Channel] = Next1.val] /\ Next1.op = "state"
    BY <2>1, <2>2, <2>4 DEF Fsm, Channel, Client, User
  <2> QED BY <2>3, <2>4
<1>4. segments \in Nat BY <1>2, DnsClientAssumption DEF Variables, DnsClientAssumption
<1>5. Outside BY <1>1, <1>2, <1>3, <1>4 DEF Outside, Variables
<1>6. Replies' BY <1>1, <1>5, RepliesKept
<1>7. Expiries' BY DEF IInv, Expiries
<1>8. preparing' \in SUBSET Thread /\ halted' \in BOOLEAN /\ segments' \in 0 .. MaxSegments
  BY <1>2 DEF Variables, Thread
<1> QED BY <1>1, <1>5, <1>6, <1>7, <1>8, OutsideIInv

(* The listener posts a message: the reply to Client, or one to Channel.   *)
LEMMA ListenerSend ==
  ASSUME IInv, SendMessage("listener")
  PROVE  IInv'
<1>1. /\ todo["listener"] # <<>> /\ Performed("listener") /\ Next1.op = "send"
      /\ mbx' = [mbx EXCEPT ![Next1.to] = Append(@, Msg(Next1.type, buffer[Next1.from]))]
      /\ UNCHANGED <<state, running, preparing, buffer, flag, timer, listener,
                     inputs, segments, asked, shown, halted>>
  BY DEF SendMessage, At, Effect, Next1
<1>2. /\ todo'["system"] = todo["system"] /\ Ahead' = Ahead
      /\ todo' = [t \in Thread |-> todo'[t]]
      /\ ListenerEffects(todo'["listener"]) /\ listener # "none"
      /\ Next1 \in Range(todo["listener"])
      /\ Replying' => Replying
      /\ ToReply(Next1) => Replying /\ ~Replying'
  BY <1>1, ListenerStep
<1>3. /\ Variables /\ mbx = [f \in Fsm |-> mbx[f]] /\ \A f \in Fsm : IsSeq(mbx[f])
  BY DEF IInv, Variables
<1>4. \/ Next1.to = Client /\ Next1.type \in Reply /\ Next1.from = "recv"
      \/ Next1.to = Channel /\ Next1.type \in {"Channel_Idle", "Channel_Disconnect"}
  BY <1>1, <1>2 DEF IInv, Effects, ListenerEffects, Sends
<1>5. PICK m : m = Msg(Next1.type, buffer[Next1.from]) OBVIOUS
<1>6. m.type = Next1.type /\ m.val = buffer[Next1.from] BY <1>5 DEF Msg
<1>7. Next1.type \in Noise /\ m.type \notin Expiry
  BY <1>4, <1>6 DEF Noise, Reply, Expiry
<1>8. /\ mbx' = [f \in Fsm |-> mbx'[f]]
      /\ \A f \in Fsm : mbx'[f] = IF f = Next1.to THEN Append(mbx[f], m) ELSE mbx[f]
  BY <1>1, <1>3, <1>4, <1>5 DEF Fsm
<1>9. User \notin {Client, Channel} BY DEF User, Client, Channel
<1>10. \A f \in Fsm : mbx'[f] = mbx[f]
         \/ (f # User /\ \E t \in Noise : \E v : mbx'[f] = Append(mbx[f], Msg(t, v)))
  BY <1>4, <1>5, <1>7, <1>8, <1>9
<1>11. segments \in Nat BY <1>3, DnsClientAssumption DEF Variables, DnsClientAssumption
<1>12. Outside
  <2>1. /\ state = [f \in Fsm |-> state[f]] /\ buffer = [b \in BufferId |-> buffer[b]]
        /\ listener \in {"none", "recv", "sleep", "done"}
    BY <1>3 DEF Variables
  <2>2. state' = state /\ buffer' = buffer /\ segments <= segments BY <1>1, <1>11
  <2> QED BY <2>1, <2>2, <1>1, <1>2, <1>8, <1>10, <1>11 DEF Outside
<1>13. Expiries'
  <2>1. /\ InBox(mbx'[Client], Expiry) <=> InBox(mbx[Client], Expiry)
        /\ OneIn(mbx[Client], Expiry) => OneIn(mbx'[Client], Expiry)
    <3>1. CASE mbx'[Client] = mbx[Client] BY <3>1
    <3>2. CASE mbx'[Client] = Append(mbx[Client], m)
      <4>1. IsSeq(mbx[Client]) BY <1>3 DEF Fsm
      <4>2. /\ \A K : InBox(Append(mbx[Client], m), K) <=> InBox(mbx[Client], K) \/ m.type \in K
            /\ \A K : OneIn(mbx[Client], K) /\ ~(m.type \in K /\ InBox(mbx[Client], K))
                    => OneIn(Append(mbx[Client], m), K)
        BY <4>1, BoxPut
      <4> QED BY <3>2, <4>2, <1>7
    <3> QED BY <3>1, <3>2, <1>8 DEF Fsm
  <2>2. ~InBox(mbx'[Channel], Expiry)
    <3>1. ~InBox(mbx[Channel], Expiry) /\ IsSeq(mbx[Channel]) BY <1>3 DEF IInv, Expiries, Fsm
    <3>2. CASE mbx'[Channel] = mbx[Channel] BY <3>1, <3>2
    <3>3. CASE mbx'[Channel] = Append(mbx[Channel], m)
      <4>1. InBox(Append(mbx[Channel], m), Expiry) <=> InBox(mbx[Channel], Expiry) \/ m.type \in Expiry
        BY <3>1, BoxPut
      <4> QED BY <3>1, <3>3, <4>1, <1>7
    <3> QED BY <3>2, <3>3, <1>8 DEF Fsm
  <2> QED BY <2>1, <2>2, <1>1 DEF IInv, Expiries
<1>14. CASE Next1.to = Channel
  <2>1. mbx'[Client] = mbx[Client] BY <1>8, <1>14 DEF Fsm, Channel, Client
  <2>2. Replies' BY <1>1, <1>2, <1>12, <2>1, RepliesKept
  <2> QED BY <1>1, <1>2, <1>3, <1>12, <1>13, <2>2, OutsideIInv DEF Variables
<1>15. CASE Next1.to = Client /\ Next1.type \in Reply /\ Next1.from = "recv"
  <2>1. mbx'[Client] = Append(mbx[Client], m) BY <1>8, <1>15 DEF Fsm
  <2>2. Replying /\ ~Replying' BY <1>1, <1>2, <1>15 DEF ToReply
  <2>3. Replies BY DEF IInv
  <2>4. segments # 0 BY <2>2, <2>3 DEF Replies
  <2>5. /\ Range(mbx'[Client]) = Range(mbx[Client]) \cup {m}
        /\ OneIn(mbx[Client], Reply) /\ ~InBox(mbx[Client], Reply) => OneIn(mbx'[Client], Reply)
    BY <2>1, <1>3, BoxPut DEF Fsm
  <2>6. Kept /\ asked' = asked BY <1>12, OutsideKept DEF Outside
  <2>7. (Received' <=> Received) /\ (Has(Client, Answer)' <=> Has(Client, Answer))
    BY <2>6, KeptHas DEF Kept, Received
  <2>8. ASSUME segments = 1
        PROVE  /\ OneIn(mbx'[Client], Reply)
               /\ \A d \in Range(mbx'[Client]) : d.type \in Reply => d.val = ServerReply(buffer["sent"])
               /\ Received /\ ~Has(Client, Answer) /\ buffer["sent"] = asked
    <3>1. /\ ~InBox(mbx[Client], Reply) /\ OneIn(mbx[Client], Reply)
          /\ buffer["recv"] = ServerReply(buffer["sent"])
      BY <2>2, <2>3, <2>8 DEF Replies
    <3>2. \A d \in Range(mbx[Client]) : d.type \notin Reply BY <3>1 DEF InBox
    <3>3. m.val = ServerReply(buffer["sent"]) BY <1>6, <1>15, <3>1
    <3>4. Received /\ ~Has(Client, Answer) /\ buffer["sent"] = asked
      BY <2>2, <2>3, <2>8, <1>2 DEF Replies
    <3> QED BY <2>5, <3>1, <3>2, <3>3, <3>4
  <2>9. Replies' BY <2>2, <2>4, <2>6, <2>7, <2>8, <1>1 DEF Replies
  <2> QED BY <1>1, <1>2, <1>3, <1>12, <1>13, <2>9, OutsideIInv DEF Variables
<1> QED BY <1>4, <1>14, <1>15

(* The lists of effects the listener starts.                               *)
LEMMA ListenerLists ==
  /\ ListenerEffects(Channel_To_Client_DNS_Request_Pass)
  /\ ListenerEffects(Channel_Disconnect_State)
  /\ \A e \in Range(Channel_Disconnect_State) : ~ToReply(e)
<1>1. PICK p : p = Do("PrepareNewMessage") OBVIOUS
<1>2. PICK n : n = Do("SetNewMessage") OBVIOUS
<1>3. PICK r : r = Send(Client, "Channel_To_Client_DNS_Request_Recived", "recv") OBVIOUS
<1>4. PICK d : d = Send(Channel, "Channel_Disconnect", "none") OBVIOUS
<1>5. PICK s : s = SetState("Channel_Disconnect") OBVIOUS
<1>6. PICK i : i = Send(Channel, "Channel_Idle", "none") OBVIOUS
<1>7. PICK t : t = SetState("Channel_Idle") OBVIOUS
<1>8. Channel_To_Client_DNS_Request_Pass = <<p, r, n, p, d, n, s>>
  <2>1. Channel_To_Client_DNS_Request_Pass = <<p, r, n>> \o <<p, d, n>> \o <<s>>
    BY <1>1, <1>2, <1>3, <1>4, <1>5, Zenon DEF Channel_To_Client_DNS_Request_Pass, ChannelSend
  <2>2. <<p, r, n, p, d, n, s>> = <<p, r, n>> \o <<p, d, n>> \o <<s>> OBVIOUS
  <2> QED BY <2>1, <2>2
<1>9. Channel_Disconnect_State = <<p, i, n, t>>
  <2>1. Channel_Disconnect_State = <<p, i, n>> \o <<t>>
    BY <1>1, <1>2, <1>6, <1>7, Zenon DEF Channel_Disconnect_State, ChannelSend
  <2>2. <<p, i, n, t>> = <<p, i, n>> \o <<t>> OBVIOUS
  <2> QED BY <2>1, <2>2
<1>10. /\ p.op = "PrepareNewMessage" /\ n.op = "SetNewMessage"
       /\ s.op = "state" /\ s.val = "Channel_Disconnect" /\ t.op = "state" /\ t.val = "Channel_Idle"
       /\ Sends(r, Client, Reply) /\ r.from = "recv" /\ ToReply(r)
       /\ Sends(d, Channel, {"Channel_Idle", "Channel_Disconnect"}) /\ ~ToReply(d)
       /\ Sends(i, Channel, {"Channel_Idle", "Channel_Disconnect"}) /\ ~ToReply(i)
       /\ r.op = "send" /\ d.op = "send" /\ i.op = "send"
       /\ ~ToReply(p) /\ ~ToReply(n) /\ ~ToReply(s) /\ ~ToReply(t)
  BY <1>1, <1>2, <1>3, <1>4, <1>5, <1>6, <1>7
     DEF Do, Send, SetState, Sends, ToReply, Reply, Channel, Client
<1>11. PICK a : a = <<p, r, n, p, d, n, s>> OBVIOUS
<1>12. Range(a) = {p, r, n, d, s} /\ a \in Seq({p, r, n, d, s}) BY <1>11 DEF Range
<1>13. OneReply(a)
  <2>1. DOMAIN a = 1 .. 7 /\ a[1] = p /\ a[2] = r /\ a[3] = n /\ a[4] = p /\ a[5] = d
        /\ a[6] = n /\ a[7] = s
    BY <1>11
  <2>2. \A k \in DOMAIN a : ToReply(a[k]) => k = 2 BY <2>1, <1>10
  <2> QED BY <2>2 DEF OneReply
<1>14. ListenerEffects(a) BY <1>10, <1>12, <1>13 DEF ListenerEffects, IsSeq
<1>15. PICK b : b = <<p, i, n, t>> OBVIOUS
<1>16. Range(b) = {p, i, n, t} /\ b \in Seq({p, i, n, t}) BY <1>15 DEF Range
<1>17. \A e \in Range(b) : ~ToReply(e) BY <1>16, <1>10
<1>18. OneReply(b) BY <1>17 DEF OneReply, Range
<1>19. ListenerEffects(b) BY <1>10, <1>16, <1>18 DEF ListenerEffects, IsSeq
<1> QED BY <1>8, <1>9, <1>11, <1>14, <1>15, <1>17, <1>19

(* ClientListener: data arrive.                                            *)
LEMMA ReceivePreserves ==
  ASSUME IInv, Receive
  PROVE  IInv'
<1>1. /\ listener = "recv" /\ segments < MaxSegments /\ segments' = segments + 1
      /\ buffer' = [buffer EXCEPT !["recv"] = ServerReply(buffer["sent"])]
      /\ todo' = [todo EXCEPT !["listener"] = Channel_To_Client_DNS_Request_Pass]
      /\ listener' = "sleep"
      /\ UNCHANGED <<mbx, state, running, preparing, flag, timer, inputs, asked, shown, halted>>
  BY DEF Receive
<1>2. Variables /\ Replies /\ DnsClientAssumption BY DnsClientAssumption DEF IInv
<1>3. /\ state = [f \in Fsm |-> state[f]] /\ mbx = [f \in Fsm |-> mbx[f]]
      /\ buffer = [b \in BufferId |-> buffer[b]] /\ todo = [t \in Thread |-> todo[t]]
      /\ segments \in 0 .. MaxSegments /\ MaxSegments \in Nat
  BY <1>2 DEF Variables, DnsClientAssumption
<1>4. /\ todo'["system"] = todo["system"]
      /\ todo'["listener"] = Channel_To_Client_DNS_Request_Pass
      /\ todo' = [t \in Thread |-> todo'[t]]
  BY <1>1, <1>3 DEF Thread
<1>5. /\ buffer' = [b \in BufferId |-> buffer'[b]] /\ buffer'["recv"] = ServerReply(buffer["sent"])
      /\ \A b \in BufferId : b # "recv" => buffer'[b] = buffer[b]
  BY <1>1, <1>3 DEF BufferId
<1>6. segments' \in 0 .. MaxSegments /\ segments <= segments' /\ segments' # 0
      /\ segments' \in Nat /\ (segments' = 1 => segments = 0)
  BY <1>1, <1>3
<1>7. Ahead' = Ahead BY <1>4 DEF Ahead
<1>8. Outside BY <1>1, <1>3, <1>4, <1>5, <1>6, <1>7 DEF Outside
<1>9. buffer'["sent"] = buffer["sent"] BY <1>5 DEF BufferId
<1>10. Kept /\ asked' = asked /\ mbx' = mbx BY <1>1, <1>8, OutsideKept
<1>11. (Received' <=> Received) /\ (Has(Client, Answer)' <=> Has(Client, Answer))
  BY <1>10, KeptHas DEF Kept, Received
<1>12. ASSUME segments = 0
       PROVE  /\ ~InBox(mbx[Client], Reply)
              /\ Received /\ ~Has(Client, Answer) /\ buffer["sent"] = asked
  BY <1>1, <1>2, <1>12 DEF Replies
<1>13. ~InBox(mbx[Client], Reply) =>
         /\ OneIn(mbx[Client], Reply)
         /\ \A m \in Range(mbx[Client]) : m.type \notin Reply
  BY DEF InBox, OneIn, Range
<1>14. Replies' BY <1>5, <1>6, <1>9, <1>10, <1>11, <1>12, <1>13 DEF Replies
<1>15. Expiries' BY <1>1 DEF IInv, Expiries
<1>16. ListenerEffects(todo'["listener"]) BY <1>4, ListenerLists
<1> QED BY <1>1, <1>2, <1>6, <1>8, <1>14, <1>15, <1>16, OutsideIInv DEF Variables

(* ClientListener: it sleeps no more, or receives no more.                 *)
LEMMA ListenerPreserves ==
  ASSUME IInv, SleepOver \/ ServerCloses \/ ReceiveFails
  PROVE  IInv'
<1>1. /\ listener # "none" /\ listener' \in {"recv", "done"}
      /\ UNCHANGED <<mbx, state, running, preparing, buffer, flag, timer, inputs, segments,
                     asked, shown, halted>>
      /\ todo' = todo \/ todo' = [todo EXCEPT !["listener"] = Channel_Disconnect_State]
  BY DEF SleepOver, ServerCloses, ReceiveFails
<1>2. Variables /\ DnsClientAssumption BY DnsClientAssumption DEF IInv
<1>3. /\ state = [f \in Fsm |-> state[f]] /\ mbx = [f \in Fsm |-> mbx[f]]
      /\ buffer = [b \in BufferId |-> buffer[b]] /\ todo = [t \in Thread |-> todo[t]]
      /\ segments \in 0 .. MaxSegments /\ MaxSegments \in Nat
  BY <1>2 DEF Variables, DnsClientAssumption
<1>4. /\ todo'["system"] = todo["system"] /\ todo' = [t \in Thread |-> todo'[t]]
      /\ todo'["listener"] = todo["listener"] \/ todo'["listener"] = Channel_Disconnect_State
  BY <1>1, <1>3 DEF Thread
<1>5. Ahead' = Ahead BY <1>4 DEF Ahead
<1>6. segments' \in Nat /\ segments <= segments' BY <1>1, <1>3
<1>7. Outside BY <1>1, <1>3, <1>4, <1>5, <1>6 DEF Outside
<1>8. ListenerEffects(todo'["listener"]) /\ (Replying' => Replying)
  BY <1>4, ListenerLists DEF IInv, Effects, Replying
<1>9. Replies' BY <1>1, <1>7, <1>8, RepliesKept
<1>10. Expiries' BY <1>1 DEF IInv, Expiries
<1> QED BY <1>1, <1>2, <1>3, <1>7, <1>8, <1>9, <1>10, OutsideIInv DEF Variables

(* TimerIntHandler: the timer of Client expires.                           *)
LEMMA TimerExpiresPreserves ==
  ASSUME IInv, TimerExpires
  PROVE  IInv'
<1>1. /\ timer = "running" /\ timer' = "queued"
      /\ mbx' = [mbx EXCEPT ![Client] = Append(@, Msg("Timer_Expired", NoData))]
      /\ UNCHANGED <<state, todo, running, preparing, buffer, flag, listener,
                     inputs, segments, asked, shown, halted>>
  BY DEF TimerExpires
<1>2. Variables /\ DnsClientAssumption BY DnsClientAssumption DEF IInv
<1>3. /\ state = [f \in Fsm |-> state[f]] /\ mbx = [f \in Fsm |-> mbx[f]]
      /\ buffer = [b \in BufferId |-> buffer[b]] /\ todo = [t \in Thread |-> todo[t]]
      /\ segments \in 0 .. MaxSegments /\ MaxSegments \in Nat /\ IsSeq(mbx[Client])
      /\ listener \in {"none", "recv", "sleep", "done"}
  BY <1>2 DEF Variables, DnsClientAssumption, Fsm
<1>4. PICK m : m = Msg("Timer_Expired", NoData) OBVIOUS
<1>5. m.type = "Timer_Expired" /\ "Timer_Expired" \in Noise
  BY <1>4 DEF Msg, Noise, Expiry
<1>6. /\ mbx' = [f \in Fsm |-> mbx'[f]] /\ mbx'[Client] = Append(mbx[Client], m)
      /\ \A f \in Fsm : f # Client => mbx'[f] = mbx[f]
  BY <1>1, <1>3, <1>4 DEF Fsm
<1>7. Client # User BY DEF Client, User
<1>8. \A f \in Fsm : \/ mbx'[f] = mbx[f]
                     \/ f # User /\ \E t \in Noise : \E v : mbx'[f] = Append(mbx[f], Msg(t, v))
  BY <1>4, <1>5, <1>6, <1>7
<1>9. Ahead' = Ahead BY <1>1 DEF Ahead
<1>10. state' = state /\ todo' = todo /\ buffer' = buffer /\ listener' = listener /\ segments' = segments
  BY <1>1
<1>11. Outside BY <1>1, <1>3, <1>6, <1>8, <1>9, <1>10 DEF Outside
<1>12. /\ Range(mbx'[Client]) = Range(mbx[Client]) \cup {m}
       /\ \A K : InBox(mbx'[Client], K) <=> InBox(mbx[Client], K) \/ m.type \in K
       /\ \A K : OneIn(mbx[Client], K) /\ ~(m.type \in K /\ InBox(mbx[Client], K))
              => OneIn(mbx'[Client], K)
  <2>1. PICK q : q = mbx[Client] OBVIOUS
  <2>2. /\ Range(Append(q, m)) = Range(q) \cup {m}
        /\ \A K : InBox(Append(q, m), K) <=> InBox(q, K) \/ m.type \in K
        /\ \A K : OneIn(q, K) /\ ~(m.type \in K /\ InBox(q, K)) => OneIn(Append(q, m), K)
    BY <1>3, <2>1, BoxPut
  <2> QED BY <2>1, <2>2, <1>6
<1>13. m.type \in Expiry /\ m.type \notin Reply BY <1>5 DEF Expiry, Reply
<1>14. Expiries'
  <2>1. ~InBox(mbx[Client], Expiry) /\ OneIn(mbx[Client], Expiry) /\ ~InBox(mbx[Channel], Expiry)
    BY <1>1 DEF IInv, Expiries
  <2>2. mbx'[Channel] = mbx[Channel] BY <1>6 DEF Fsm, Channel, Client
  <2> QED BY <2>1, <2>2, <1>1, <1>12, <1>13 DEF Expiries
<1>15. Replying' <=> Replying BY <1>10 DEF Replying
<1>16. Replies' BY <1>10, <1>11, <1>12, <1>13, <1>15, RepliesKept
<1>17. ListenerEffects(todo'["listener"]) BY <1>10 DEF IInv, Effects
<1> QED BY <1>1, <1>2, <1>3, <1>11, <1>14, <1>16, <1>17, OutsideIInv DEF Variables

LEMMA OutsideStep ==
  ASSUME IInv, OutsideMoves
  PROVE  IInv'
<1>1. CASE PrepareNewMessage("listener")
  BY <1>1, ListenerQuiet DEF PrepareNewMessage, At
<1>2. CASE SetNewMessage("listener")
  BY <1>2, ListenerQuiet DEF SetNewMessage, At
<1>3. CASE WriteState("listener")
  BY <1>3, ListenerQuiet DEF WriteState, At, Effect, Self, Next1
<1>4. CASE SendMessage("listener") BY <1>4, ListenerSend
<1> QED BY <1>1, <1>2, <1>3, <1>4, ReceivePreserves, ListenerPreserves, TimerExpiresPreserves
        DEF OutsideMoves, ThreadStep

-----------------------------------------------------------------------------
(* The handlers as lists of effects.                                       *)
Chain(e, A) ==
  \A d \in A : \/ d.op # e.op /\ Rank(e.op) <= Rank(d.op)
               \/ d.op = "send" /\ e.op = "send" /\ d.to # e.to

(* One effect more in front.                                               *)
LEMMA HandlerCons ==
  ASSUME NEW s, Handler(s), NEW e, Chain(e, Range(s))
  PROVE  Handler(<<e>> \o s) /\ Range(<<e>> \o s) = {e} \cup Range(s)
<1>1. PICK h : h = <<e>> OBVIOUS
<1>2. PICK S : S = {e} \cup Range(s) OBVIOUS
<1>3. h \in Seq(S) /\ Len(h) = 1 /\ h[1] = e BY <1>1, <1>2
<1>4. s \in Seq(S) /\ Len(s) \in Nat /\ DOMAIN s = 1 .. Len(s) BY <1>2 DEF Handler, IsSeq
<1>5. PICK t : t = h \o s OBVIOUS
<1>6. /\ t \in Seq(S) /\ Len(t) = Len(h) + Len(s)
      /\ \A i \in 1 .. Len(h) + Len(s) : t[i] = IF i <= Len(h) THEN h[i] ELSE s[i - Len(h)]
  BY <1>3, <1>4, <1>5, ConcatProperties
<1>7. DOMAIN t = 1 .. Len(s) + 1 BY <1>3, <1>4, <1>6
<1>8. t[1] = e BY <1>3, <1>4, <1>6
<1>9. \A i \in DOMAIN t : i # 1 => i - 1 \in DOMAIN s /\ t[i] = s[i - 1]
  BY <1>3, <1>4, <1>6, <1>7
<1>10. \A i \in DOMAIN s : i + 1 \in DOMAIN t /\ t[i + 1] = s[i]
  BY <1>3, <1>4, <1>6, <1>7
<1>11. Range(t) = S
  <2>1. \A i \in DOMAIN t : t[i] \in S BY <1>2, <1>8, <1>9 DEF Range
  <2>2. e \in Range(t)
    <3>1. 1 \in DOMAIN t BY <1>4, <1>7
    <3> QED BY <3>1, <1>8 DEF Range
  <2>3. Range(s) \subseteq Range(t) BY <1>10 DEF Range
  <2> QED BY <1>2, <2>1, <2>2, <2>3 DEF Range
<1>12. IsSeq(t) BY <1>6, <1>11 DEF IsSeq
<1>13. \A i \in DOMAIN s : s[i] \in Range(s) /\ s[i] # e
  BY DEF Range, Chain
<1>14. IsInjective(t)
  <2> SUFFICES ASSUME NEW i \in DOMAIN t, NEW j \in DOMAIN t, t[i] = t[j] PROVE i = j
    BY DEF IsInjective
  <2>1. CASE i = 1 /\ j = 1 BY <2>1
  <2>2. CASE i = 1 /\ j # 1 BY <2>2, <1>8, <1>9, <1>13
  <2>3. CASE i # 1 /\ j = 1 BY <2>3, <1>8, <1>9, <1>13
  <2>4. CASE i # 1 /\ j # 1
    <3>1. i - 1 = j - 1 BY <2>4, <1>9 DEF Handler, IsInjective
    <3> QED BY <3>1, <1>7, <1>4
  <2> QED BY <2>1, <2>2, <2>3, <2>4
<1>15. \A op : Rank(op) \in 0 .. 3 BY DEF Rank
<1>16. \A d \in Range(s) : Rank(e.op) <= Rank(d.op)
  <2> SUFFICES ASSUME NEW d \in Range(s), d.op = "send", e.op = "send" PROVE Rank(e.op) <= Rank(d.op)
    BY DEF Chain
  <2> QED BY <1>15
<1>17. Sorted(t)
  <2> SUFFICES ASSUME NEW i \in DOMAIN t, NEW j \in DOMAIN t, i < j
               PROVE Rank(t[i].op) <= Rank(t[j].op)
    BY DEF Sorted
  <2>1. j # 1 /\ j - 1 \in DOMAIN s /\ t[j] = s[j - 1] BY <1>4, <1>7, <1>9
  <2>2. CASE i = 1 BY <2>1, <2>2, <1>8, <1>13, <1>16
  <2>3. CASE i # 1
    <3>1. i - 1 \in DOMAIN s /\ t[i] = s[i - 1] /\ i - 1 < j - 1 BY <2>3, <1>4, <1>7, <1>9
    <3> QED BY <2>1, <3>1 DEF Handler, Sorted
  <2> QED BY <2>2, <2>3
<1>18. OnlyOnce(S) BY <1>2 DEF Handler, OnlyOnce, Chain
<1> QED BY <1>1, <1>2, <1>5, <1>11, <1>12, <1>14, <1>17, <1>18 DEF Handler

(* A list given by its elements, each in its place.                        *)
LEMMA Handler0 == Handler(<<>>) /\ Range(<<>>) = {}
<1>1. Range(<<>>) = {} BY DEF Range
<1>2. IsSeq(<<>>) /\ DOMAIN <<>> = {} BY DEF IsSeq
<1> QED BY <1>1, <1>2 DEF Handler, IsInjective, Sorted, OnlyOnce

LEMMA TwoTuple ==
  ASSUME NEW a, NEW b
  PROVE  <<a, b>> = <<a>> \o <<b>>
<1>1. PICK s : s = <<a>> OBVIOUS
<1>2. PICK t : t = <<b>> OBVIOUS
<1>3. s \in Seq({a, b}) /\ Len(s) = 1 /\ s[1] = a BY <1>1
<1>4. t \in Seq({a, b}) /\ Len(t) = 1 /\ t[1] = b BY <1>2
<1>5. PICK u : u = s \o t OBVIOUS
<1>6. u \in Seq({a, b}) /\ Len(u) = 2 /\ u[1] = a /\ u[2] = b
  <2>0. PICK S : S = {a, b} OBVIOUS
  <2>1. /\ s \o t \in Seq(S) /\ Len(s \o t) = Len(s) + Len(t)
        /\ \A i \in 1 .. Len(s) + Len(t) :
             (s \o t)[i] = IF i <= Len(s) THEN s[i] ELSE t[i - Len(s)]
    BY <1>3, <1>4, <2>0, ConcatProperties
  <2> QED BY <2>0, <2>1, <1>3, <1>4, <1>5
<1>7. u = <<a, b>>
  <2>1. PICK w : w = <<a, b>> OBVIOUS
  <2>2. w \in Seq({a, b}) /\ Len(w) = 2 /\ w[1] = a /\ w[2] = b BY <2>1
  <2>3. u = w BY <2>2, <1>6, SeqEqual
  <2> QED BY <2>1, <2>3
<1> QED BY <1>1, <1>2, <1>5, <1>7

LEMMA Handler1 ==
  ASSUME NEW a
  PROVE  Handler(<<a>>) /\ Range(<<a>>) = {a}
<1>1. PICK s : s = <<>> OBVIOUS
<1>2. Handler(s) /\ Range(s) = {} BY <1>1, Handler0
<1>3. Chain(a, Range(s)) BY <1>2 DEF Chain
<1>4. PICK t : t = <<a>> \o s OBVIOUS
<1>5. Handler(t) /\ Range(t) = {a} \cup Range(s) BY <1>2, <1>3, <1>4, HandlerCons
<1>6. <<a>> = <<a>> \o <<>> OBVIOUS
<1>7. <<a>> = t BY <1>1, <1>4, <1>6
<1> QED BY <1>2, <1>5, <1>7

LEMMA Handler2 ==
  ASSUME NEW a, NEW b,
         Chain(a, {b})
  PROVE  Handler(<<a, b>>) /\ Range(<<a, b>>) = {a, b}
<1>1. PICK s : s = <<b>> OBVIOUS
<1>2. Handler(s) /\ Range(s) = {b} BY <1>1, Handler1
<1>3. Chain(a, Range(s)) BY <1>2
<1>4. PICK t : t = <<a>> \o s OBVIOUS
<1>5. Handler(t) /\ Range(t) = {a} \cup Range(s) BY <1>2, <1>3, <1>4, HandlerCons
<1>6. <<a, b>> = <<a>> \o <<b>> BY TwoTuple
<1>7. <<a, b>> = t BY <1>1, <1>4, <1>6
<1> QED BY <1>2, <1>5, <1>7

LEMMA Handler3 ==
  ASSUME NEW a, NEW b, NEW c,
         Chain(a, {b, c}), Chain(b, {c})
  PROVE  Handler(<<a, b, c>>) /\ Range(<<a, b, c>>) = {a, b, c}
<1>1. PICK s : s = <<b, c>> OBVIOUS
<1>2. Handler(s) /\ Range(s) = {b, c} BY <1>1, Handler2
<1>3. Chain(a, Range(s)) BY <1>2
<1>4. PICK t : t = <<a>> \o s OBVIOUS
<1>5. Handler(t) /\ Range(t) = {a} \cup Range(s) BY <1>2, <1>3, <1>4, HandlerCons
<1>6. <<a, b, c>> = <<a>> \o <<b, c>> OBVIOUS
<1>7. <<a, b, c>> = t BY <1>1, <1>4, <1>6
<1> QED BY <1>2, <1>5, <1>7

LEMMA Handler4 ==
  ASSUME NEW a, NEW b, NEW c, NEW d,
         Chain(a, {b, c, d}), Chain(b, {c, d}), Chain(c, {d})
  PROVE  Handler(<<a, b, c, d>>) /\ Range(<<a, b, c, d>>) = {a, b, c, d}
<1>1. PICK s : s = <<b, c, d>> OBVIOUS
<1>2. Handler(s) /\ Range(s) = {b, c, d} BY <1>1, Handler3
<1>3. Chain(a, Range(s)) BY <1>2
<1>4. PICK t : t = <<a>> \o s OBVIOUS
<1>5. Handler(t) /\ Range(t) = {a} \cup Range(s) BY <1>2, <1>3, <1>4, HandlerCons
<1>6. <<a, b, c, d>> = <<a>> \o <<b, c, d>> OBVIOUS
<1>7. <<a, b, c, d>> = t BY <1>1, <1>4, <1>6
<1> QED BY <1>2, <1>5, <1>7

LEMMA Handler5 ==
  ASSUME NEW a, NEW b, NEW c, NEW d, NEW p,
         Chain(a, {b, c, d, p}), Chain(b, {c, d, p}), Chain(c, {d, p}),
         Chain(d, {p})
  PROVE  Handler(<<a, b, c, d, p>>) /\ Range(<<a, b, c, d, p>>) = {a, b, c, d, p}
<1>1. PICK s : s = <<b, c, d, p>> OBVIOUS
<1>2. Handler(s) /\ Range(s) = {b, c, d, p} BY <1>1, Handler4
<1>3. Chain(a, Range(s)) BY <1>2
<1>4. PICK t : t = <<a>> \o s OBVIOUS
<1>5. Handler(t) /\ Range(t) = {a} \cup Range(s) BY <1>2, <1>3, <1>4, HandlerCons
<1>6. <<a, b, c, d, p>> = <<a>> \o <<b, c, d, p>> OBVIOUS
<1>7. <<a, b, c, d, p>> = t BY <1>1, <1>4, <1>6
<1> QED BY <1>2, <1>5, <1>7

LEMMA Handler6 ==
  ASSUME NEW a, NEW b, NEW c, NEW d, NEW p, NEW q,
         Chain(a, {b, c, d, p, q}), Chain(b, {c, d, p, q}),
         Chain(c, {d, p, q}), Chain(d, {p, q}), Chain(p, {q})
  PROVE  Handler(<<a, b, c, d, p, q>>) /\ Range(<<a, b, c, d, p, q>>) = {a, b, c, d, p, q}
<1>1. PICK s : s = <<b, c, d, p, q>> OBVIOUS
<1>2. Handler(s) /\ Range(s) = {b, c, d, p, q} BY <1>1, Handler5
<1>3. Chain(a, Range(s)) BY <1>2
<1>4. PICK t : t = <<a>> \o s OBVIOUS
<1>5. Handler(t) /\ Range(t) = {a} \cup Range(s) BY <1>2, <1>3, <1>4, HandlerCons
<1>6. <<a, b, c, d, p, q>> = <<a>> \o <<b, c, d, p, q>> OBVIOUS
<1>7. <<a, b, c, d, p, q>> = t BY <1>1, <1>4, <1>6
<1> QED BY <1>2, <1>5, <1>7

(* What the effects of a handler of f amount to: what it does and posts,   *)
(* the state it leads to, and the buffer it writes.                        *)
Leads(s, f, ops, sent, next, buf, val) ==
  /\ Handler(s) /\ SystemEffects(Range(s), f)
  /\ \A op : DoesIn(Range(s), op) <=> op \in ops
  /\ \A g, K : ToSend(Range(s), g, K) <=> \E t \in K : <<g, t>> \in sent
  /\ \A d, e \in Range(s) : d.op = "send" /\ e.op = "send" /\ d.to = e.to => d = e
  /\ \A v : StateAfter(Range(s), v) = IF next = "same" THEN v ELSE next
  /\ \A b, v : b # "" => BufferAfter(Range(s), b, v) = IF b = buf THEN val ELSE v

(* UserAuto.                                                               *)
LEMMA UserIdleLeads ==
  Leads(User_Idle_Set_All, User, {"send", "state"},
        {<<Client, "Client_Idle">>, <<Channel, "Channel_Idle">>, <<User, "User_Data_Input">>},
        "User_Data_Input", "", NoData)
<1>1. PICK a : a = Send(Client, "Client_Idle", "none") OBVIOUS
<1>2. PICK b : b = Send(Channel, "Channel_Idle", "none") OBVIOUS
<1>3. PICK c : c = Send(User, "User_Data_Input", "none") OBVIOUS
<1>4. PICK d : d = SetState("User_Data_Input") OBVIOUS
<1>5. User_Idle_Set_All = <<a, b, c, d>>
  BY <1>1, <1>2, <1>3, <1>4, Zenon DEF User_Idle_Set_All
<1>6. /\ a.op = "send" /\ a.to = Client /\ a.type = "Client_Idle" /\ a.from = "none"
      /\ b.op = "send" /\ b.to = Channel /\ b.type = "Channel_Idle" /\ b.from = "none"
      /\ c.op = "send" /\ c.to = User /\ c.type = "User_Data_Input" /\ c.from = "none"
      /\ d.op = "state" /\ d.val = "User_Data_Input"
  BY <1>1, <1>2, <1>3, <1>4 DEF Send, SetState
<1>7. Rank("send") = 3 /\ Rank("state") = 3 BY DEF Rank
<1>8. Handler(<<a, b, c, d>>) /\ Range(<<a, b, c, d>>) = {a, b, c, d}
  <2>1. /\ Chain(a, {b, c, d})
        /\ Chain(b, {c, d})
        /\ Chain(c, {d})
    BY <1>6, <1>7 DEF Chain, User, Channel, Client
  <2> QED BY <2>1, Handler4
<1>9. PICK A : A = {a, b, c, d} OBVIOUS
<1>10. \A op : DoesIn(A, op) <=> op \in {"send", "state"}
  BY <1>6, <1>9 DEF DoesIn
<1>11. \A g, K : ToSend(A, g, K) <=> \E t \in K : <<g, t>> \in {<<Client, "Client_Idle">>, <<Channel, "Channel_Idle">>, <<User, "User_Data_Input">>}
  BY <1>6, <1>9 DEF ToSend, Sends
<1>12. \A x, y \in A : x.op = "send" /\ y.op = "send" /\ x.to = y.to => x = y
  BY <1>6, <1>9 DEF User, Channel, Client
<1>13. OnlyOnce(A) BY <1>8, <1>9 DEF Handler
<1>14. \A s : StateAfter(A, s) = "User_Data_Input" BY <1>6, <1>9, <1>13, StateRemoved
<1>15. \A x, y : BufferAfter(A, x, y) = y
  BY <1>10 DEF BufferAfter, Stores, DoesIn
<1>16. SystemEffects(A, User)
  BY <1>6, <1>9, <1>10, <1>11
     DEF SystemEffects, Legal, Sends, Request, ToServer, Answer, Reply, Expiry, UserTypes,
         Fsm, StateOf, User, Channel, Client
<1>17. PICK s : s = <<a, b, c, d>> OBVIOUS
<1>18. Handler(s) /\ Range(s) = A BY <1>8, <1>9, <1>17
<1>19. User_Idle_Set_All = s BY <1>5, <1>17
<1> QED BY <1>19, <1>18, <1>10, <1>11, <1>12, <1>14, <1>15, <1>16 DEF Leads

LEMMA UserInputLeads ==
  Leads(User_Data_Input_From_Console, User, {"scanf", "send", "state"},
        {<<User, "User_To_Client_Data_Sent">>},
        "User_To_Client_Data", "", NoData)
<1>1. PICK a : a = Do("scanf") OBVIOUS
<1>2. PICK b : b = Send(User, "User_To_Client_Data_Sent", "none") OBVIOUS
<1>3. PICK c : c = SetState("User_To_Client_Data") OBVIOUS
<1>4. User_Data_Input_From_Console = <<a, b, c>>
  BY <1>1, <1>2, <1>3, Zenon DEF User_Data_Input_From_Console
<1>5. /\ a.op = "scanf"
      /\ b.op = "send" /\ b.to = User /\ b.type = "User_To_Client_Data_Sent" /\ b.from = "none"
      /\ c.op = "state" /\ c.val = "User_To_Client_Data"
  BY <1>1, <1>2, <1>3 DEF Do, Send, SetState
<1>6. Rank("scanf") = 2 /\ Rank("send") = 3 /\ Rank("state") = 3 BY DEF Rank
<1>7. Handler(<<a, b, c>>) /\ Range(<<a, b, c>>) = {a, b, c}
  <2>1. /\ Chain(a, {b, c})
        /\ Chain(b, {c})
    BY <1>5, <1>6 DEF Chain, User, Channel, Client
  <2> QED BY <2>1, Handler3
<1>8. PICK A : A = {a, b, c} OBVIOUS
<1>9. \A op : DoesIn(A, op) <=> op \in {"scanf", "send", "state"}
  BY <1>5, <1>8 DEF DoesIn
<1>10. \A g, K : ToSend(A, g, K) <=> \E t \in K : <<g, t>> \in {<<User, "User_To_Client_Data_Sent">>}
  BY <1>5, <1>8 DEF ToSend, Sends
<1>11. \A x, y \in A : x.op = "send" /\ y.op = "send" /\ x.to = y.to => x = y
  BY <1>5, <1>8 DEF User, Channel, Client
<1>12. OnlyOnce(A) BY <1>7, <1>8 DEF Handler
<1>13. \A s : StateAfter(A, s) = "User_To_Client_Data" BY <1>5, <1>8, <1>12, StateRemoved
<1>14. \A x, y : BufferAfter(A, x, y) = y
  BY <1>9 DEF BufferAfter, Stores, DoesIn
<1>15. SystemEffects(A, User)
  BY <1>5, <1>8, <1>9, <1>10
     DEF SystemEffects, Legal, Sends, Request, ToServer, Answer, Reply, Expiry, UserTypes,
         Fsm, StateOf, User, Channel, Client
<1>16. PICK s : s = <<a, b, c>> OBVIOUS
<1>17. Handler(s) /\ Range(s) = A BY <1>7, <1>8, <1>16
<1>18. User_Data_Input_From_Console = s BY <1>4, <1>16
<1> QED BY <1>18, <1>17, <1>9, <1>10, <1>11, <1>13, <1>14, <1>15 DEF Leads

LEMMA UserPassLeads ==
  Leads(User_Pass_Data_To_Client, User, {"send", "state"},
        {<<Client, "User_To_Client_Data_Sent">>},
        "Client_To_User_Return_Data", "", NoData)
<1>1. PICK a : a = Send(Client, "User_To_Client_Data_Sent", "user") OBVIOUS
<1>2. PICK b : b = SetState("Client_To_User_Return_Data") OBVIOUS
<1>3. User_Pass_Data_To_Client = <<a, b>>
  BY <1>1, <1>2, Zenon DEF User_Pass_Data_To_Client
<1>4. /\ a.op = "send" /\ a.to = Client /\ a.type = "User_To_Client_Data_Sent" /\ a.from = "user"
      /\ b.op = "state" /\ b.val = "Client_To_User_Return_Data"
  BY <1>1, <1>2 DEF Send, SetState
<1>5. Rank("send") = 3 /\ Rank("state") = 3 BY DEF Rank
<1>6. Handler(<<a, b>>) /\ Range(<<a, b>>) = {a, b}
  <2>1. /\ Chain(a, {b})
    BY <1>4, <1>5 DEF Chain, User, Channel, Client
  <2> QED BY <2>1, Handler2
<1>7. PICK A : A = {a, b} OBVIOUS
<1>8. \A op : DoesIn(A, op) <=> op \in {"send", "state"}
  BY <1>4, <1>7 DEF DoesIn
<1>9. \A g, K : ToSend(A, g, K) <=> \E t \in K : <<g, t>> \in {<<Client, "User_To_Client_Data_Sent">>}
  BY <1>4, <1>7 DEF ToSend, Sends
<1>10. \A x, y \in A : x.op = "send" /\ y.op = "send" /\ x.to = y.to => x = y
  BY <1>4, <1>7 DEF User, Channel, Client
<1>11. OnlyOnce(A) BY <1>6, <1>7 DEF Handler
<1>12. \A s : StateAfter(A, s) = "Client_To_User_Return_Data" BY <1>4, <1>7, <1>11, StateRemoved
<1>13. \A x, y : BufferAfter(A, x, y) = y
  BY <1>8 DEF BufferAfter, Stores, DoesIn
<1>14. SystemEffects(A, User)
  BY <1>4, <1>7, <1>8, <1>9
     DEF SystemEffects, Legal, Sends, Request, ToServer, Answer, Reply, Expiry, UserTypes,
         Fsm, StateOf, User, Channel, Client
<1>15. PICK s : s = <<a, b>> OBVIOUS
<1>16. Handler(s) /\ Range(s) = A BY <1>6, <1>7, <1>15
<1>17. User_Pass_Data_To_Client = s BY <1>3, <1>15
<1> QED BY <1>17, <1>16, <1>8, <1>9, <1>10, <1>12, <1>13, <1>14 DEF Leads

LEMMA UserGetLeads ==
  ASSUME NEW m
  PROVE  Leads(User_Get_Data_From_Client(m), User, {"store", "print", "send", "state"},
              {<<Client, "Client_Idle">>, <<Channel, "Channel_Idle">>, <<User, "User_Data_Input">>},
              "User_Data_Input", "user", m.val)
<1>1. PICK a : a = Store("user", m.val) OBVIOUS
<1>2. PICK b : b = Do("print") OBVIOUS
<1>3. PICK c : c = Send(Client, "Client_Idle", "none") OBVIOUS
<1>4. PICK d : d = Send(Channel, "Channel_Idle", "none") OBVIOUS
<1>5. PICK p : p = Send(User, "User_Data_Input", "none") OBVIOUS
<1>6. PICK q : q = SetState("User_Data_Input") OBVIOUS
<1>7. User_Get_Data_From_Client(m) = <<a, b, c, d, p, q>>
  <2>1. User_Get_Data_From_Client(m) = <<a, b>> \o <<c, d, p, q>>
    BY <1>1, <1>2, <1>3, <1>4, <1>5, <1>6, Zenon DEF User_Get_Data_From_Client, User_Idle_Set_All
  <2>2. <<a, b, c, d, p, q>> = <<a, b>> \o <<c, d, p, q>> OBVIOUS
  <2> QED BY <2>1, <2>2
<1>8. /\ a.op = "store" /\ a.buf = "user" /\ a.val = m.val
      /\ b.op = "print"
      /\ c.op = "send" /\ c.to = Client /\ c.type = "Client_Idle" /\ c.from = "none"
      /\ d.op = "send" /\ d.to = Channel /\ d.type = "Channel_Idle" /\ d.from = "none"
      /\ p.op = "send" /\ p.to = User /\ p.type = "User_Data_Input" /\ p.from = "none"
      /\ q.op = "state" /\ q.val = "User_Data_Input"
  BY <1>1, <1>2, <1>3, <1>4, <1>5, <1>6 DEF Do, Send, SetState, Store
<1>9. Rank("store") = 1 /\ Rank("print") = 2 /\ Rank("send") = 3 /\ Rank("state") = 3 BY DEF Rank
<1>10. Handler(<<a, b, c, d, p, q>>) /\ Range(<<a, b, c, d, p, q>>) = {a, b, c, d, p, q}
  <2>1. /\ Chain(a, {b, c, d, p, q})
        /\ Chain(b, {c, d, p, q})
        /\ Chain(c, {d, p, q})
        /\ Chain(d, {p, q})
        /\ Chain(p, {q})
    BY <1>8, <1>9 DEF Chain, User, Channel, Client
  <2> QED BY <2>1, Handler6
<1>11. PICK A : A = {a, b, c, d, p, q} OBVIOUS
<1>12. \A op : DoesIn(A, op) <=> op \in {"store", "print", "send", "state"}
  BY <1>8, <1>11 DEF DoesIn
<1>13. \A g, K : ToSend(A, g, K) <=> \E t \in K : <<g, t>> \in {<<Client, "Client_Idle">>, <<Channel, "Channel_Idle">>, <<User, "User_Data_Input">>}
  BY <1>8, <1>11 DEF ToSend, Sends
<1>14. \A x, y \in A : x.op = "send" /\ y.op = "send" /\ x.to = y.to => x = y
  BY <1>8, <1>11 DEF User, Channel, Client
<1>15. OnlyOnce(A) BY <1>10, <1>11 DEF Handler
<1>16. \A s : StateAfter(A, s) = "User_Data_Input" BY <1>8, <1>11, <1>15, StateRemoved
<1>17. \A x, y : BufferAfter(A, x, y) = IF x = "user" THEN m.val ELSE y
  <2>1. \A w \in A : w.op = "store" => w = a BY <1>8, <1>11
  <2>2. a \in A BY <1>11
  <2>3. \A y : BufferAfter(A, "user", y) = m.val
    <3> SUFFICES ASSUME NEW y PROVE BufferAfter(A, "user", y) = m.val OBVIOUS
    <3>1. Stores(a, "user") BY <1>8 DEF Stores
    <3>2. \A w \in A : Stores(w, "user") => w = a BY <2>1 DEF Stores
    <3>3. (CHOOSE w \in A : Stores(w, "user")) = a BY <2>2, <3>1, <3>2
    <3>4. BufferAfter(A, "user", y) = a.val BY <2>2, <3>1, <3>3 DEF BufferAfter
    <3> QED BY <3>4, <1>8
  <2>4. \A x, y : x # "user" => BufferAfter(A, x, y) = y
    BY <2>1, <1>8 DEF BufferAfter, Stores
  <2> QED BY <2>3, <2>4
<1>18. SystemEffects(A, User)
  BY <1>8, <1>11, <1>12, <1>13
     DEF SystemEffects, Legal, Sends, Request, ToServer, Answer, Reply, Expiry, UserTypes,
         Fsm, StateOf, User, Channel, Client
<1>19. PICK s : s = <<a, b, c, d, p, q>> OBVIOUS
<1>20. Handler(s) /\ Range(s) = A BY <1>10, <1>11, <1>19
<1>21. User_Get_Data_From_Client(m) = s BY <1>7, <1>19
<1> QED BY <1>21, <1>20, <1>12, <1>13, <1>14, <1>16, <1>17, <1>18 DEF Leads

(* ClAuto.                                                                 *)
LEMMA ClientIdleLeads ==
  Leads(Client_Idle_State, Client, {"state"},
        {},
        "Client_Input_From_User", "", NoData)
<1>1. PICK a : a = SetState("Client_Input_From_User") OBVIOUS
<1>2. Client_Idle_State = <<a>>
  BY <1>1, Zenon DEF Client_Idle_State
<1>3. /\ a.op = "state" /\ a.val = "Client_Input_From_User"
  BY <1>1 DEF SetState
<1>4. Rank("state") = 3 BY DEF Rank
<1>5. Handler(<<a>>) /\ Range(<<a>>) = {a}
  BY Handler1
<1>6. PICK A : A = {a} OBVIOUS
<1>7. \A op : DoesIn(A, op) <=> op \in {"state"}
  BY <1>3, <1>6 DEF DoesIn
<1>8. \A g, K : ToSend(A, g, K) <=> \E t \in K : <<g, t>> \in {}
  BY <1>3, <1>6 DEF ToSend, Sends
<1>9. \A x, y \in A : x.op = "send" /\ y.op = "send" /\ x.to = y.to => x = y
  BY <1>3, <1>6 DEF User, Channel, Client
<1>10. OnlyOnce(A) BY <1>5, <1>6 DEF Handler
<1>11. \A s : StateAfter(A, s) = "Client_Input_From_User" BY <1>3, <1>6, <1>10, StateRemoved
<1>12. \A x, y : BufferAfter(A, x, y) = y
  BY <1>7 DEF BufferAfter, Stores, DoesIn
<1>13. SystemEffects(A, Client)
  BY <1>3, <1>6, <1>7, <1>8
     DEF SystemEffects, Legal, Sends, Request, ToServer, Answer, Reply, Expiry, UserTypes,
         Fsm, StateOf, User, Channel, Client
<1>14. PICK s : s = <<a>> OBVIOUS
<1>15. Handler(s) /\ Range(s) = A BY <1>5, <1>6, <1>14
<1>16. Client_Idle_State = s BY <1>2, <1>14
<1> QED BY <1>16, <1>15, <1>7, <1>8, <1>9, <1>11, <1>12, <1>13 DEF Leads

LEMMA ClientGetLeads ==
  ASSUME NEW m
  PROVE  Leads(Client_Get_Data_From_User(m), Client, {"store", "send", "state"},
              {<<Client, "Client_Check_Local_Table">>},
              "Client_Check_Local_Table", "clIn", m.val)
<1>1. PICK a : a = Store("clIn", m.val) OBVIOUS
<1>2. PICK b : b = Send(Client, "Client_Check_Local_Table", "none") OBVIOUS
<1>3. PICK c : c = SetState("Client_Check_Local_Table") OBVIOUS
<1>4. Client_Get_Data_From_User(m) = <<a, b, c>>
  BY <1>1, <1>2, <1>3, Zenon DEF Client_Get_Data_From_User
<1>5. /\ a.op = "store" /\ a.buf = "clIn" /\ a.val = m.val
      /\ b.op = "send" /\ b.to = Client /\ b.type = "Client_Check_Local_Table" /\ b.from = "none"
      /\ c.op = "state" /\ c.val = "Client_Check_Local_Table"
  BY <1>1, <1>2, <1>3 DEF Send, SetState, Store
<1>6. Rank("store") = 1 /\ Rank("send") = 3 /\ Rank("state") = 3 BY DEF Rank
<1>7. Handler(<<a, b, c>>) /\ Range(<<a, b, c>>) = {a, b, c}
  <2>1. /\ Chain(a, {b, c})
        /\ Chain(b, {c})
    BY <1>5, <1>6 DEF Chain, User, Channel, Client
  <2> QED BY <2>1, Handler3
<1>8. PICK A : A = {a, b, c} OBVIOUS
<1>9. \A op : DoesIn(A, op) <=> op \in {"store", "send", "state"}
  BY <1>5, <1>8 DEF DoesIn
<1>10. \A g, K : ToSend(A, g, K) <=> \E t \in K : <<g, t>> \in {<<Client, "Client_Check_Local_Table">>}
  BY <1>5, <1>8 DEF ToSend, Sends
<1>11. \A x, y \in A : x.op = "send" /\ y.op = "send" /\ x.to = y.to => x = y
  BY <1>5, <1>8 DEF User, Channel, Client
<1>12. OnlyOnce(A) BY <1>7, <1>8 DEF Handler
<1>13. \A s : StateAfter(A, s) = "Client_Check_Local_Table" BY <1>5, <1>8, <1>12, StateRemoved
<1>14. \A x, y : BufferAfter(A, x, y) = IF x = "clIn" THEN m.val ELSE y
  <2>1. \A w \in A : w.op = "store" => w = a BY <1>5, <1>8
  <2>2. a \in A BY <1>8
  <2>3. \A y : BufferAfter(A, "clIn", y) = m.val
    <3> SUFFICES ASSUME NEW y PROVE BufferAfter(A, "clIn", y) = m.val OBVIOUS
    <3>1. Stores(a, "clIn") BY <1>5 DEF Stores
    <3>2. \A w \in A : Stores(w, "clIn") => w = a BY <2>1 DEF Stores
    <3>3. (CHOOSE w \in A : Stores(w, "clIn")) = a BY <2>2, <3>1, <3>2
    <3>4. BufferAfter(A, "clIn", y) = a.val BY <2>2, <3>1, <3>3 DEF BufferAfter
    <3> QED BY <3>4, <1>5
  <2>4. \A x, y : x # "clIn" => BufferAfter(A, x, y) = y
    BY <2>1, <1>5 DEF BufferAfter, Stores
  <2> QED BY <2>3, <2>4
<1>15. SystemEffects(A, Client)
  BY <1>5, <1>8, <1>9, <1>10
     DEF SystemEffects, Legal, Sends, Request, ToServer, Answer, Reply, Expiry, UserTypes,
         Fsm, StateOf, User, Channel, Client
<1>16. PICK s : s = <<a, b, c>> OBVIOUS
<1>17. Handler(s) /\ Range(s) = A BY <1>7, <1>8, <1>16
<1>18. Client_Get_Data_From_User(m) = s BY <1>4, <1>16
<1> QED BY <1>18, <1>17, <1>9, <1>10, <1>11, <1>13, <1>14, <1>15 DEF Leads

LEMMA ClientFoundLeads ==
  ASSUME NEW file, Found(file)
  PROVE  Leads(Client_Check_In_Local_Table(file), Client, {"store", "send", "state"},
              {<<Client, "Client_To_User_Return_Data_Recived">>},
              "Client_DNS_Recived", "clOut", LocalAnswer(file))
<1>1. PICK a : a = Store("clOut", LocalAnswer(file)) OBVIOUS
<1>2. PICK b : b = Send(Client, "Client_To_User_Return_Data_Recived", "none") OBVIOUS
<1>3. PICK c : c = SetState("Client_DNS_Recived") OBVIOUS
<1>4. Client_Check_In_Local_Table(file) = <<a, b, c>>
  BY <1>1, <1>2, <1>3, Zenon DEF Client_Check_In_Local_Table
<1>5. /\ a.op = "store" /\ a.buf = "clOut" /\ a.val = LocalAnswer(file)
      /\ b.op = "send" /\ b.to = Client /\ b.type = "Client_To_User_Return_Data_Recived" /\ b.from = "none"
      /\ c.op = "state" /\ c.val = "Client_DNS_Recived"
  BY <1>1, <1>2, <1>3 DEF Send, SetState, Store
<1>6. Rank("store") = 1 /\ Rank("send") = 3 /\ Rank("state") = 3 BY DEF Rank
<1>7. Handler(<<a, b, c>>) /\ Range(<<a, b, c>>) = {a, b, c}
  <2>1. /\ Chain(a, {b, c})
        /\ Chain(b, {c})
    BY <1>5, <1>6 DEF Chain, User, Channel, Client
  <2> QED BY <2>1, Handler3
<1>8. PICK A : A = {a, b, c} OBVIOUS
<1>9. \A op : DoesIn(A, op) <=> op \in {"store", "send", "state"}
  BY <1>5, <1>8 DEF DoesIn
<1>10. \A g, K : ToSend(A, g, K) <=> \E t \in K : <<g, t>> \in {<<Client, "Client_To_User_Return_Data_Recived">>}
  BY <1>5, <1>8 DEF ToSend, Sends
<1>11. \A x, y \in A : x.op = "send" /\ y.op = "send" /\ x.to = y.to => x = y
  BY <1>5, <1>8 DEF User, Channel, Client
<1>12. OnlyOnce(A) BY <1>7, <1>8 DEF Handler
<1>13. \A s : StateAfter(A, s) = "Client_DNS_Recived" BY <1>5, <1>8, <1>12, StateRemoved
<1>14. \A x, y : BufferAfter(A, x, y) = IF x = "clOut" THEN LocalAnswer(file) ELSE y
  <2>1. \A w \in A : w.op = "store" => w = a BY <1>5, <1>8
  <2>2. a \in A BY <1>8
  <2>3. \A y : BufferAfter(A, "clOut", y) = LocalAnswer(file)
    <3> SUFFICES ASSUME NEW y PROVE BufferAfter(A, "clOut", y) = LocalAnswer(file) OBVIOUS
    <3>1. Stores(a, "clOut") BY <1>5 DEF Stores
    <3>2. \A w \in A : Stores(w, "clOut") => w = a BY <2>1 DEF Stores
    <3>3. (CHOOSE w \in A : Stores(w, "clOut")) = a BY <2>2, <3>1, <3>2
    <3>4. BufferAfter(A, "clOut", y) = a.val BY <2>2, <3>1, <3>3 DEF BufferAfter
    <3> QED BY <3>4, <1>5
  <2>4. \A x, y : x # "clOut" => BufferAfter(A, x, y) = y
    BY <2>1, <1>5 DEF BufferAfter, Stores
  <2> QED BY <2>3, <2>4
<1>15. SystemEffects(A, Client)
  BY <1>5, <1>8, <1>9, <1>10
     DEF SystemEffects, Legal, Sends, Request, ToServer, Answer, Reply, Expiry, UserTypes,
         Fsm, StateOf, User, Channel, Client
<1>16. PICK s : s = <<a, b, c>> OBVIOUS
<1>17. Handler(s) /\ Range(s) = A BY <1>7, <1>8, <1>16
<1>18. Client_Check_In_Local_Table(file) = s BY <1>4, <1>16
<1> QED BY <1>18, <1>17, <1>9, <1>10, <1>11, <1>13, <1>14, <1>15 DEF Leads

LEMMA ClientNotFoundLeads ==
  ASSUME NEW file, ~Found(file)
  PROVE  Leads(Client_Check_In_Local_Table(file), Client, {"send", "state"},
              {<<Client, "Client_To_Channel_DNS_Request_Sent">>},
              "Client_DNS_Request", "", NoData)
<1>1. PICK a : a = Send(Client, "Client_To_Channel_DNS_Request_Sent", "none") OBVIOUS
<1>2. PICK b : b = SetState("Client_DNS_Request") OBVIOUS
<1>3. Client_Check_In_Local_Table(file) = <<a, b>>
  BY <1>1, <1>2, Zenon DEF Client_Check_In_Local_Table
<1>4. /\ a.op = "send" /\ a.to = Client /\ a.type = "Client_To_Channel_DNS_Request_Sent" /\ a.from = "none"
      /\ b.op = "state" /\ b.val = "Client_DNS_Request"
  BY <1>1, <1>2 DEF Send, SetState
<1>5. Rank("send") = 3 /\ Rank("state") = 3 BY DEF Rank
<1>6. Handler(<<a, b>>) /\ Range(<<a, b>>) = {a, b}
  <2>1. /\ Chain(a, {b})
    BY <1>4, <1>5 DEF Chain, User, Channel, Client
  <2> QED BY <2>1, Handler2
<1>7. PICK A : A = {a, b} OBVIOUS
<1>8. \A op : DoesIn(A, op) <=> op \in {"send", "state"}
  BY <1>4, <1>7 DEF DoesIn
<1>9. \A g, K : ToSend(A, g, K) <=> \E t \in K : <<g, t>> \in {<<Client, "Client_To_Channel_DNS_Request_Sent">>}
  BY <1>4, <1>7 DEF ToSend, Sends
<1>10. \A x, y \in A : x.op = "send" /\ y.op = "send" /\ x.to = y.to => x = y
  BY <1>4, <1>7 DEF User, Channel, Client
<1>11. OnlyOnce(A) BY <1>6, <1>7 DEF Handler
<1>12. \A s : StateAfter(A, s) = "Client_DNS_Request" BY <1>4, <1>7, <1>11, StateRemoved
<1>13. \A x, y : BufferAfter(A, x, y) = y
  BY <1>8 DEF BufferAfter, Stores, DoesIn
<1>14. SystemEffects(A, Client)
  BY <1>4, <1>7, <1>8, <1>9
     DEF SystemEffects, Legal, Sends, Request, ToServer, Answer, Reply, Expiry, UserTypes,
         Fsm, StateOf, User, Channel, Client
<1>15. PICK s : s = <<a, b>> OBVIOUS
<1>16. Handler(s) /\ Range(s) = A BY <1>6, <1>7, <1>15
<1>17. Client_Check_In_Local_Table(file) = s BY <1>3, <1>15
<1> QED BY <1>17, <1>16, <1>8, <1>9, <1>10, <1>12, <1>13, <1>14 DEF Leads

LEMMA ClientRequestLeads ==
  Leads(Client_Pass_DNS_Request_To_Channel, Client, {"send", "StartTimer", "state"},
        {<<Channel, "Client_To_Channel_DNS_Request_Sent">>},
        "Client_DNS_Recived", "", NoData)
<1>1. PICK a : a = Send(Channel, "Client_To_Channel_DNS_Request_Sent", "clIn") OBVIOUS
<1>2. PICK b : b = Do("StartTimer") OBVIOUS
<1>3. PICK c : c = SetState("Client_DNS_Recived") OBVIOUS
<1>4. Client_Pass_DNS_Request_To_Channel = <<a, b, c>>
  BY <1>1, <1>2, <1>3, Zenon DEF Client_Pass_DNS_Request_To_Channel
<1>5. /\ a.op = "send" /\ a.to = Channel /\ a.type = "Client_To_Channel_DNS_Request_Sent" /\ a.from = "clIn"
      /\ b.op = "StartTimer"
      /\ c.op = "state" /\ c.val = "Client_DNS_Recived"
  BY <1>1, <1>2, <1>3 DEF Do, Send, SetState
<1>6. Rank("send") = 3 /\ Rank("StartTimer") = 3 /\ Rank("state") = 3 BY DEF Rank
<1>7. Handler(<<a, b, c>>) /\ Range(<<a, b, c>>) = {a, b, c}
  <2>1. /\ Chain(a, {b, c})
        /\ Chain(b, {c})
    BY <1>5, <1>6 DEF Chain, User, Channel, Client
  <2> QED BY <2>1, Handler3
<1>8. PICK A : A = {a, b, c} OBVIOUS
<1>9. \A op : DoesIn(A, op) <=> op \in {"send", "StartTimer", "state"}
  BY <1>5, <1>8 DEF DoesIn
<1>10. \A g, K : ToSend(A, g, K) <=> \E t \in K : <<g, t>> \in {<<Channel, "Client_To_Channel_DNS_Request_Sent">>}
  BY <1>5, <1>8 DEF ToSend, Sends
<1>11. \A x, y \in A : x.op = "send" /\ y.op = "send" /\ x.to = y.to => x = y
  BY <1>5, <1>8 DEF User, Channel, Client
<1>12. OnlyOnce(A) BY <1>7, <1>8 DEF Handler
<1>13. \A s : StateAfter(A, s) = "Client_DNS_Recived" BY <1>5, <1>8, <1>12, StateRemoved
<1>14. \A x, y : BufferAfter(A, x, y) = y
  BY <1>9 DEF BufferAfter, Stores, DoesIn
<1>15. SystemEffects(A, Client)
  BY <1>5, <1>8, <1>9, <1>10
     DEF SystemEffects, Legal, Sends, Request, ToServer, Answer, Reply, Expiry, UserTypes,
         Fsm, StateOf, User, Channel, Client
<1>16. PICK s : s = <<a, b, c>> OBVIOUS
<1>17. Handler(s) /\ Range(s) = A BY <1>7, <1>8, <1>16
<1>18. Client_Pass_DNS_Request_To_Channel = s BY <1>4, <1>16
<1> QED BY <1>18, <1>17, <1>9, <1>10, <1>11, <1>13, <1>14, <1>15 DEF Leads

LEMMA ClientReplyLeads ==
  ASSUME NEW m
  PROVE  Leads(Client_Get_DNS_Request_From_Channel(m), Client, {"StopTimer", "store", "send"},
              {<<Client, "Client_To_User_Return_Data_Recived">>},
              "same", "clOut", m.val)
<1>1. PICK a : a = Do("StopTimer") OBVIOUS
<1>2. PICK b : b = Store("clOut", m.val) OBVIOUS
<1>3. PICK c : c = Send(Client, "Client_To_User_Return_Data_Recived", "none") OBVIOUS
<1>4. Client_Get_DNS_Request_From_Channel(m) = <<a, b, c>>
  BY <1>1, <1>2, <1>3, Zenon DEF Client_Get_DNS_Request_From_Channel
<1>5. /\ a.op = "StopTimer"
      /\ b.op = "store" /\ b.buf = "clOut" /\ b.val = m.val
      /\ c.op = "send" /\ c.to = Client /\ c.type = "Client_To_User_Return_Data_Recived" /\ c.from = "none"
  BY <1>1, <1>2, <1>3 DEF Do, Send, Store
<1>6. Rank("StopTimer") = 0 /\ Rank("store") = 1 /\ Rank("send") = 3 BY DEF Rank
<1>7. Handler(<<a, b, c>>) /\ Range(<<a, b, c>>) = {a, b, c}
  <2>1. /\ Chain(a, {b, c})
        /\ Chain(b, {c})
    BY <1>5, <1>6 DEF Chain, User, Channel, Client
  <2> QED BY <2>1, Handler3
<1>8. PICK A : A = {a, b, c} OBVIOUS
<1>9. \A op : DoesIn(A, op) <=> op \in {"StopTimer", "store", "send"}
  BY <1>5, <1>8 DEF DoesIn
<1>10. \A g, K : ToSend(A, g, K) <=> \E t \in K : <<g, t>> \in {<<Client, "Client_To_User_Return_Data_Recived">>}
  BY <1>5, <1>8 DEF ToSend, Sends
<1>11. \A x, y \in A : x.op = "send" /\ y.op = "send" /\ x.to = y.to => x = y
  BY <1>5, <1>8 DEF User, Channel, Client
<1>12. OnlyOnce(A) BY <1>7, <1>8 DEF Handler
<1>13. \A s : StateAfter(A, s) = s
  <2>1. ~DoesIn(A, "state") BY <1>9
  <2> QED BY <2>1 DEF StateAfter
<1>14. \A x, y : BufferAfter(A, x, y) = IF x = "clOut" THEN m.val ELSE y
  <2>1. \A w \in A : w.op = "store" => w = b BY <1>5, <1>8
  <2>2. b \in A BY <1>8
  <2>3. \A y : BufferAfter(A, "clOut", y) = m.val
    <3> SUFFICES ASSUME NEW y PROVE BufferAfter(A, "clOut", y) = m.val OBVIOUS
    <3>1. Stores(b, "clOut") BY <1>5 DEF Stores
    <3>2. \A w \in A : Stores(w, "clOut") => w = b BY <2>1 DEF Stores
    <3>3. (CHOOSE w \in A : Stores(w, "clOut")) = b BY <2>2, <3>1, <3>2
    <3>4. BufferAfter(A, "clOut", y) = b.val BY <2>2, <3>1, <3>3 DEF BufferAfter
    <3> QED BY <3>4, <1>5
  <2>4. \A x, y : x # "clOut" => BufferAfter(A, x, y) = y
    BY <2>1, <1>5 DEF BufferAfter, Stores
  <2> QED BY <2>3, <2>4
<1>15. SystemEffects(A, Client)
  BY <1>5, <1>8, <1>9, <1>10
     DEF SystemEffects, Legal, Sends, Request, ToServer, Answer, Reply, Expiry, UserTypes,
         Fsm, StateOf, User, Channel, Client
<1>16. PICK s : s = <<a, b, c>> OBVIOUS
<1>17. Handler(s) /\ Range(s) = A BY <1>7, <1>8, <1>16
<1>18. Client_Get_DNS_Request_From_Channel(m) = s BY <1>4, <1>16
<1> QED BY <1>18, <1>17, <1>9, <1>10, <1>11, <1>13, <1>14, <1>15 DEF Leads

LEMMA ClientPassLeads ==
  Leads(Client_Pass_DNS_Request_To_Client, Client, {"send", "state"},
        {<<User, "Client_To_User_Return_Data_Recived">>},
        "Client_Idle", "", NoData)
<1>1. PICK a : a = Send(User, "Client_To_User_Return_Data_Recived", "clOut") OBVIOUS
<1>2. PICK b : b = SetState("Client_Idle") OBVIOUS
<1>3. Client_Pass_DNS_Request_To_Client = <<a, b>>
  BY <1>1, <1>2, Zenon DEF Client_Pass_DNS_Request_To_Client
<1>4. /\ a.op = "send" /\ a.to = User /\ a.type = "Client_To_User_Return_Data_Recived" /\ a.from = "clOut"
      /\ b.op = "state" /\ b.val = "Client_Idle"
  BY <1>1, <1>2 DEF Send, SetState
<1>5. Rank("send") = 3 /\ Rank("state") = 3 BY DEF Rank
<1>6. Handler(<<a, b>>) /\ Range(<<a, b>>) = {a, b}
  <2>1. /\ Chain(a, {b})
    BY <1>4, <1>5 DEF Chain, User, Channel, Client
  <2> QED BY <2>1, Handler2
<1>7. PICK A : A = {a, b} OBVIOUS
<1>8. \A op : DoesIn(A, op) <=> op \in {"send", "state"}
  BY <1>4, <1>7 DEF DoesIn
<1>9. \A g, K : ToSend(A, g, K) <=> \E t \in K : <<g, t>> \in {<<User, "Client_To_User_Return_Data_Recived">>}
  BY <1>4, <1>7 DEF ToSend, Sends
<1>10. \A x, y \in A : x.op = "send" /\ y.op = "send" /\ x.to = y.to => x = y
  BY <1>4, <1>7 DEF User, Channel, Client
<1>11. OnlyOnce(A) BY <1>6, <1>7 DEF Handler
<1>12. \A s : StateAfter(A, s) = "Client_Idle" BY <1>4, <1>7, <1>11, StateRemoved
<1>13. \A x, y : BufferAfter(A, x, y) = y
  BY <1>8 DEF BufferAfter, Stores, DoesIn
<1>14. SystemEffects(A, Client)
  BY <1>4, <1>7, <1>8, <1>9
     DEF SystemEffects, Legal, Sends, Request, ToServer, Answer, Reply, Expiry, UserTypes,
         Fsm, StateOf, User, Channel, Client
<1>15. PICK s : s = <<a, b>> OBVIOUS
<1>16. Handler(s) /\ Range(s) = A BY <1>6, <1>7, <1>15
<1>17. Client_Pass_DNS_Request_To_Client = s BY <1>3, <1>15
<1> QED BY <1>17, <1>16, <1>8, <1>9, <1>10, <1>12, <1>13, <1>14 DEF Leads

(* ChAuto.                                                                 *)
LEMMA ChannelIdleLeads ==
  Leads(Channel_Idle_State, Channel, {"state", "FirstStartFlag++"},
        {},
        "Channel_DNS_Request", "", NoData)
<1>1. PICK a : a = SetState("Channel_DNS_Request") OBVIOUS
<1>2. PICK b : b = Do("FirstStartFlag++") OBVIOUS
<1>3. Channel_Idle_State = <<a, b>>
  BY <1>1, <1>2, Zenon DEF Channel_Idle_State
<1>4. /\ a.op = "state" /\ a.val = "Channel_DNS_Request"
      /\ b.op = "FirstStartFlag++"
  BY <1>1, <1>2 DEF Do, SetState
<1>5. Rank("state") = 3 /\ Rank("FirstStartFlag++") = 3 BY DEF Rank
<1>6. Handler(<<a, b>>) /\ Range(<<a, b>>) = {a, b}
  <2>1. /\ Chain(a, {b})
    BY <1>4, <1>5 DEF Chain, User, Channel, Client
  <2> QED BY <2>1, Handler2
<1>7. PICK A : A = {a, b} OBVIOUS
<1>8. \A op : DoesIn(A, op) <=> op \in {"state", "FirstStartFlag++"}
  BY <1>4, <1>7 DEF DoesIn
<1>9. \A g, K : ToSend(A, g, K) <=> \E t \in K : <<g, t>> \in {}
  BY <1>4, <1>7 DEF ToSend, Sends
<1>10. \A x, y \in A : x.op = "send" /\ y.op = "send" /\ x.to = y.to => x = y
  BY <1>4, <1>7 DEF User, Channel, Client
<1>11. OnlyOnce(A) BY <1>6, <1>7 DEF Handler
<1>12. \A s : StateAfter(A, s) = "Channel_DNS_Request" BY <1>4, <1>7, <1>11, StateRemoved
<1>13. \A x, y : BufferAfter(A, x, y) = y
  BY <1>8 DEF BufferAfter, Stores, DoesIn
<1>14. SystemEffects(A, Channel)
  BY <1>4, <1>7, <1>8, <1>9
     DEF SystemEffects, Legal, Sends, Request, ToServer, Answer, Reply, Expiry, UserTypes,
         Fsm, StateOf, User, Channel, Client
<1>15. PICK s : s = <<a, b>> OBVIOUS
<1>16. Handler(s) /\ Range(s) = A BY <1>6, <1>7, <1>15
<1>17. Channel_Idle_State = s BY <1>3, <1>15
<1> QED BY <1>17, <1>16, <1>8, <1>9, <1>10, <1>12, <1>13, <1>14 DEF Leads

LEMMA ChannelLaterLeads ==
  ASSUME NEW m, flag # 1
  PROVE  Leads(Channel_Get_DNS_Request(m), Channel, {"store"},
              {},
              "same", "chIn", m.val)
<1>1. PICK a : a = Store("chIn", m.val) OBVIOUS
<1>2. Channel_Get_DNS_Request(m) = <<a>>
  <2>1. Channel_Get_DNS_Request(m) = <<a>> \o <<>>
    BY <1>1, Zenon DEF Channel_Get_DNS_Request
  <2>2. <<a>> = <<a>> \o <<>> OBVIOUS
  <2> QED BY <2>1, <2>2
<1>3. /\ a.op = "store" /\ a.buf = "chIn" /\ a.val = m.val
  BY <1>1 DEF Store
<1>4. Rank("store") = 1 BY DEF Rank
<1>5. Handler(<<a>>) /\ Range(<<a>>) = {a}
  BY Handler1
<1>6. PICK A : A = {a} OBVIOUS
<1>7. \A op : DoesIn(A, op) <=> op \in {"store"}
  BY <1>3, <1>6 DEF DoesIn
<1>8. \A g, K : ToSend(A, g, K) <=> \E t \in K : <<g, t>> \in {}
  BY <1>3, <1>6 DEF ToSend, Sends
<1>9. \A x, y \in A : x.op = "send" /\ y.op = "send" /\ x.to = y.to => x = y
  BY <1>3, <1>6 DEF User, Channel, Client
<1>10. OnlyOnce(A) BY <1>5, <1>6 DEF Handler
<1>11. \A s : StateAfter(A, s) = s
  <2>1. ~DoesIn(A, "state") BY <1>7
  <2> QED BY <2>1 DEF StateAfter
<1>12. \A x, y : BufferAfter(A, x, y) = IF x = "chIn" THEN m.val ELSE y
  <2>1. \A w \in A : w.op = "store" => w = a BY <1>3, <1>6
  <2>2. a \in A BY <1>6
  <2>3. \A y : BufferAfter(A, "chIn", y) = m.val
    <3> SUFFICES ASSUME NEW y PROVE BufferAfter(A, "chIn", y) = m.val OBVIOUS
    <3>1. Stores(a, "chIn") BY <1>3 DEF Stores
    <3>2. \A w \in A : Stores(w, "chIn") => w = a BY <2>1 DEF Stores
    <3>3. (CHOOSE w \in A : Stores(w, "chIn")) = a BY <2>2, <3>1, <3>2
    <3>4. BufferAfter(A, "chIn", y) = a.val BY <2>2, <3>1, <3>3 DEF BufferAfter
    <3> QED BY <3>4, <1>3
  <2>4. \A x, y : x # "chIn" => BufferAfter(A, x, y) = y
    BY <2>1, <1>3 DEF BufferAfter, Stores
  <2> QED BY <2>3, <2>4
<1>13. SystemEffects(A, Channel)
  BY <1>3, <1>6, <1>7, <1>8
     DEF SystemEffects, Legal, Sends, Request, ToServer, Answer, Reply, Expiry, UserTypes,
         Fsm, StateOf, User, Channel, Client
<1>14. PICK s : s = <<a>> OBVIOUS
<1>15. Handler(s) /\ Range(s) = A BY <1>5, <1>6, <1>14
<1>16. Channel_Get_DNS_Request(m) = s BY <1>2, <1>14
<1> QED BY <1>16, <1>15, <1>7, <1>8, <1>9, <1>11, <1>12, <1>13 DEF Leads

LEMMA ChannelFirstLeads ==
  ASSUME NEW m, flag = 1
  PROVE  Leads(Channel_Get_DNS_Request(m), Channel, {"store", "PrepareNewMessage", "send", "SetNewMessage", "state"},
              {<<Channel, "Channel_Create_Socket">>},
              "Channel_Connect", "chIn", m.val)
<1>1. PICK a : a = Store("chIn", m.val) OBVIOUS
<1>2. PICK b : b = Do("PrepareNewMessage") OBVIOUS
<1>3. PICK c : c = Send(Channel, "Channel_Create_Socket", "none") OBVIOUS
<1>4. PICK d : d = Do("SetNewMessage") OBVIOUS
<1>5. PICK p : p = SetState("Channel_Connect") OBVIOUS
<1>6. Channel_Get_DNS_Request(m) = <<a, b, c, d, p>>
  <2>1. Channel_Get_DNS_Request(m) = <<a>> \o (<<b, c, d>> \o <<p>>)
    BY <1>1, <1>2, <1>3, <1>4, <1>5, Zenon DEF Channel_Get_DNS_Request, ChannelSend
  <2>2. <<b, c, d, p>> = <<b, c, d>> \o <<p>> OBVIOUS
  <2>3. <<a, b, c, d, p>> = <<a>> \o <<b, c, d, p>> OBVIOUS
  <2> QED BY <2>1, <2>2, <2>3
<1>7. /\ a.op = "store" /\ a.buf = "chIn" /\ a.val = m.val
      /\ b.op = "PrepareNewMessage"
      /\ c.op = "send" /\ c.to = Channel /\ c.type = "Channel_Create_Socket" /\ c.from = "none"
      /\ d.op = "SetNewMessage"
      /\ p.op = "state" /\ p.val = "Channel_Connect"
  BY <1>1, <1>2, <1>3, <1>4, <1>5 DEF Do, Send, SetState, Store
<1>8. Rank("store") = 1 /\ Rank("PrepareNewMessage") = 3 /\ Rank("send") = 3 /\ Rank("SetNewMessage") = 3 /\ Rank("state") = 3 BY DEF Rank
<1>9. Handler(<<a, b, c, d, p>>) /\ Range(<<a, b, c, d, p>>) = {a, b, c, d, p}
  <2>1. /\ Chain(a, {b, c, d, p})
        /\ Chain(b, {c, d, p})
        /\ Chain(c, {d, p})
        /\ Chain(d, {p})
    BY <1>7, <1>8 DEF Chain, User, Channel, Client
  <2> QED BY <2>1, Handler5
<1>10. PICK A : A = {a, b, c, d, p} OBVIOUS
<1>11. \A op : DoesIn(A, op) <=> op \in {"store", "PrepareNewMessage", "send", "SetNewMessage", "state"}
  BY <1>7, <1>10 DEF DoesIn
<1>12. \A g, K : ToSend(A, g, K) <=> \E t \in K : <<g, t>> \in {<<Channel, "Channel_Create_Socket">>}
  BY <1>7, <1>10 DEF ToSend, Sends
<1>13. \A x, y \in A : x.op = "send" /\ y.op = "send" /\ x.to = y.to => x = y
  BY <1>7, <1>10 DEF User, Channel, Client
<1>14. OnlyOnce(A) BY <1>9, <1>10 DEF Handler
<1>15. \A s : StateAfter(A, s) = "Channel_Connect" BY <1>7, <1>10, <1>14, StateRemoved
<1>16. \A x, y : BufferAfter(A, x, y) = IF x = "chIn" THEN m.val ELSE y
  <2>1. \A w \in A : w.op = "store" => w = a BY <1>7, <1>10
  <2>2. a \in A BY <1>10
  <2>3. \A y : BufferAfter(A, "chIn", y) = m.val
    <3> SUFFICES ASSUME NEW y PROVE BufferAfter(A, "chIn", y) = m.val OBVIOUS
    <3>1. Stores(a, "chIn") BY <1>7 DEF Stores
    <3>2. \A w \in A : Stores(w, "chIn") => w = a BY <2>1 DEF Stores
    <3>3. (CHOOSE w \in A : Stores(w, "chIn")) = a BY <2>2, <3>1, <3>2
    <3>4. BufferAfter(A, "chIn", y) = a.val BY <2>2, <3>1, <3>3 DEF BufferAfter
    <3> QED BY <3>4, <1>7
  <2>4. \A x, y : x # "chIn" => BufferAfter(A, x, y) = y
    BY <2>1, <1>7 DEF BufferAfter, Stores
  <2> QED BY <2>3, <2>4
<1>17. SystemEffects(A, Channel)
  BY <1>7, <1>10, <1>11, <1>12
     DEF SystemEffects, Legal, Sends, Request, ToServer, Answer, Reply, Expiry, UserTypes,
         Fsm, StateOf, User, Channel, Client
<1>18. PICK s : s = <<a, b, c, d, p>> OBVIOUS
<1>19. Handler(s) /\ Range(s) = A BY <1>9, <1>10, <1>18
<1>20. Channel_Get_DNS_Request(m) = s BY <1>6, <1>18
<1> QED BY <1>20, <1>19, <1>11, <1>12, <1>13, <1>15, <1>16, <1>17 DEF Leads

LEMMA ChannelSendLeads ==
  ASSUME NEW attempt, attempt = "NoThread"
  PROVE  Leads(Channel_Connect_State(attempt), Channel, {"SendToServer"},
              {},
              "same", "", NoData)
<1>1. PICK a : a = Do("SendToServer") OBVIOUS
<1>2. Channel_Connect_State(attempt) = <<a>>
  BY <1>1, Zenon DEF Channel_Connect_State
<1>3. /\ a.op = "SendToServer"
  BY <1>1 DEF Do
<1>4. Rank("SendToServer") = 2 BY DEF Rank
<1>5. Handler(<<a>>) /\ Range(<<a>>) = {a}
  BY Handler1
<1>6. PICK A : A = {a} OBVIOUS
<1>7. \A op : DoesIn(A, op) <=> op \in {"SendToServer"}
  BY <1>3, <1>6 DEF DoesIn
<1>8. \A g, K : ToSend(A, g, K) <=> \E t \in K : <<g, t>> \in {}
  BY <1>3, <1>6 DEF ToSend, Sends
<1>9. \A x, y \in A : x.op = "send" /\ y.op = "send" /\ x.to = y.to => x = y
  BY <1>3, <1>6 DEF User, Channel, Client
<1>10. OnlyOnce(A) BY <1>5, <1>6 DEF Handler
<1>11. \A s : StateAfter(A, s) = s
  <2>1. ~DoesIn(A, "state") BY <1>7
  <2> QED BY <2>1 DEF StateAfter
<1>12. \A x, y : BufferAfter(A, x, y) = y
  BY <1>7 DEF BufferAfter, Stores, DoesIn
<1>13. SystemEffects(A, Channel)
  BY <1>3, <1>6, <1>7, <1>8
     DEF SystemEffects, Legal, Sends, Request, ToServer, Answer, Reply, Expiry, UserTypes,
         Fsm, StateOf, User, Channel, Client
<1>14. PICK s : s = <<a>> OBVIOUS
<1>15. Handler(s) /\ Range(s) = A BY <1>5, <1>6, <1>14
<1>16. Channel_Connect_State(attempt) = s BY <1>2, <1>14
<1> QED BY <1>16, <1>15, <1>7, <1>8, <1>9, <1>11, <1>12, <1>13 DEF Leads

LEMMA ChannelConnectLeads ==
  ASSUME NEW attempt, attempt = "connected"
  PROVE  Leads(Channel_Connect_State(attempt), Channel, {"SendToServer", "CreateThread"},
              {},
              "same", "", NoData)
<1>1. PICK a : a = Do("SendToServer") OBVIOUS
<1>2. PICK b : b = Do("CreateThread") OBVIOUS
<1>3. Channel_Connect_State(attempt) = <<a, b>>
  BY <1>1, <1>2, Zenon DEF Channel_Connect_State
<1>4. /\ a.op = "SendToServer"
      /\ b.op = "CreateThread"
  BY <1>1, <1>2 DEF Do
<1>5. Rank("SendToServer") = 2 /\ Rank("CreateThread") = 3 BY DEF Rank
<1>6. Handler(<<a, b>>) /\ Range(<<a, b>>) = {a, b}
  <2>1. /\ Chain(a, {b})
    BY <1>4, <1>5 DEF Chain, User, Channel, Client
  <2> QED BY <2>1, Handler2
<1>7. PICK A : A = {a, b} OBVIOUS
<1>8. \A op : DoesIn(A, op) <=> op \in {"SendToServer", "CreateThread"}
  BY <1>4, <1>7 DEF DoesIn
<1>9. \A g, K : ToSend(A, g, K) <=> \E t \in K : <<g, t>> \in {}
  BY <1>4, <1>7 DEF ToSend, Sends
<1>10. \A x, y \in A : x.op = "send" /\ y.op = "send" /\ x.to = y.to => x = y
  BY <1>4, <1>7 DEF User, Channel, Client
<1>11. OnlyOnce(A) BY <1>6, <1>7 DEF Handler
<1>12. \A s : StateAfter(A, s) = s
  <2>1. ~DoesIn(A, "state") BY <1>8
  <2> QED BY <2>1 DEF StateAfter
<1>13. \A x, y : BufferAfter(A, x, y) = y
  BY <1>8 DEF BufferAfter, Stores, DoesIn
<1>14. SystemEffects(A, Channel)
  BY <1>4, <1>7, <1>8, <1>9
     DEF SystemEffects, Legal, Sends, Request, ToServer, Answer, Reply, Expiry, UserTypes,
         Fsm, StateOf, User, Channel, Client
<1>15. PICK s : s = <<a, b>> OBVIOUS
<1>16. Handler(s) /\ Range(s) = A BY <1>6, <1>7, <1>15
<1>17. Channel_Connect_State(attempt) = s BY <1>3, <1>15
<1> QED BY <1>17, <1>16, <1>8, <1>9, <1>10, <1>12, <1>13, <1>14 DEF Leads

LEMMA ChannelDisconnectLeads ==
  Leads(Channel_Disconnect_State, Channel, {"PrepareNewMessage", "send", "SetNewMessage", "state"},
        {<<Channel, "Channel_Idle">>},
        "Channel_Idle", "", NoData)
<1>1. PICK a : a = Do("PrepareNewMessage") OBVIOUS
<1>2. PICK b : b = Send(Channel, "Channel_Idle", "none") OBVIOUS
<1>3. PICK c : c = Do("SetNewMessage") OBVIOUS
<1>4. PICK d : d = SetState("Channel_Idle") OBVIOUS
<1>5. Channel_Disconnect_State = <<a, b, c, d>>
  <2>1. Channel_Disconnect_State = <<a, b, c>> \o <<d>>
    BY <1>1, <1>2, <1>3, <1>4, Zenon DEF Channel_Disconnect_State, ChannelSend
  <2>2. <<a, b, c, d>> = <<a, b, c>> \o <<d>> OBVIOUS
  <2> QED BY <2>1, <2>2
<1>6. /\ a.op = "PrepareNewMessage"
      /\ b.op = "send" /\ b.to = Channel /\ b.type = "Channel_Idle" /\ b.from = "none"
      /\ c.op = "SetNewMessage"
      /\ d.op = "state" /\ d.val = "Channel_Idle"
  BY <1>1, <1>2, <1>3, <1>4 DEF Do, Send, SetState
<1>7. Rank("PrepareNewMessage") = 3 /\ Rank("send") = 3 /\ Rank("SetNewMessage") = 3 /\ Rank("state") = 3 BY DEF Rank
<1>8. Handler(<<a, b, c, d>>) /\ Range(<<a, b, c, d>>) = {a, b, c, d}
  <2>1. /\ Chain(a, {b, c, d})
        /\ Chain(b, {c, d})
        /\ Chain(c, {d})
    BY <1>6, <1>7 DEF Chain, User, Channel, Client
  <2> QED BY <2>1, Handler4
<1>9. PICK A : A = {a, b, c, d} OBVIOUS
<1>10. \A op : DoesIn(A, op) <=> op \in {"PrepareNewMessage", "send", "SetNewMessage", "state"}
  BY <1>6, <1>9 DEF DoesIn
<1>11. \A g, K : ToSend(A, g, K) <=> \E t \in K : <<g, t>> \in {<<Channel, "Channel_Idle">>}
  BY <1>6, <1>9 DEF ToSend, Sends
<1>12. \A x, y \in A : x.op = "send" /\ y.op = "send" /\ x.to = y.to => x = y
  BY <1>6, <1>9 DEF User, Channel, Client
<1>13. OnlyOnce(A) BY <1>8, <1>9 DEF Handler
<1>14. \A s : StateAfter(A, s) = "Channel_Idle" BY <1>6, <1>9, <1>13, StateRemoved
<1>15. \A x, y : BufferAfter(A, x, y) = y
  BY <1>10 DEF BufferAfter, Stores, DoesIn
<1>16. SystemEffects(A, Channel)
  BY <1>6, <1>9, <1>10, <1>11
     DEF SystemEffects, Legal, Sends, Request, ToServer, Answer, Reply, Expiry, UserTypes,
         Fsm, StateOf, User, Channel, Client
<1>17. PICK s : s = <<a, b, c, d>> OBVIOUS
<1>18. Handler(s) /\ Range(s) = A BY <1>8, <1>9, <1>17
<1>19. Channel_Disconnect_State = s BY <1>5, <1>17
<1> QED BY <1>19, <1>18, <1>10, <1>11, <1>12, <1>14, <1>15, <1>16 DEF Leads

(* DoNothing.                                                              *)
LEMMA NothingLeads ==
  ASSUME NEW f
  PROVE  Leads(<<>>, f, {}, {}, "same", "", NoData)
<1>1. PICK A : A = {} OBVIOUS
<1>2. \A op : ~DoesIn(A, op) BY <1>1 DEF DoesIn
<1>3. \A g, K : ~ToSend(A, g, K) BY <1>1 DEF ToSend
<1>4. \A s : StateAfter(A, s) = s BY <1>2 DEF StateAfter
<1>5. \A x, y : BufferAfter(A, x, y) = y BY <1>1 DEF BufferAfter
<1>6. SystemEffects(A, f) BY <1>1, <1>2, <1>3 DEF SystemEffects
<1> QED BY <1>1, <1>2, <1>3, <1>4, <1>5, <1>6, Handler0 DEF Leads

-----------------------------------------------------------------------------
(* Taking a message from a mailbox: between handlers what will be is what  *)
(* is, and then the new handler is ahead.                                  *)
Sending(sent, g, K) == \E t \in K : <<g, t>> \in sent

LEMMA AtRest ==
  ASSUME todo["system"] = <<>>
  PROVE  /\ Ahead = {} /\ \A op : ~Does(op)
         /\ \A g, K : ~ToSend(Ahead, g, K) /\ (Has(g, K) <=> InBox(mbx[g], K))
         /\ \A g, K : Single(mbx[g], Ahead, g, K) <=> OneIn(mbx[g], K)
         /\ \A g : FinalState(g) = state[g]
         /\ \A b : FinalBuffer(b) = buffer[b]
         /\ FinalTimer = timer /\ FinalFlag = flag
<1>1. Ahead = {} BY Handler0 DEF Ahead
<1>2. \A op : ~Does(op) BY <1>1 DEF Does, DoesIn
<1>3. \A g, K : ~ToSend(Ahead, g, K) BY <1>1 DEF ToSend
<1>4. \A g, K : Has(g, K) <=> InBox(mbx[g], K) BY <1>3 DEF Has, HasIn
<1>5. \A g, K : Single(mbx[g], Ahead, g, K) <=> OneIn(mbx[g], K)
  BY <1>1, <1>3 DEF Single
<1>6. ~DoesIn(Ahead, "state") BY <1>2 DEF Does
<1>7. \A g : FinalState(g) = state[g] BY <1>6 DEF FinalState, StateAfter
<1>8. \A b : FinalBuffer(b) = buffer[b] BY <1>1 DEF FinalBuffer, BufferAfter
<1>9. FinalTimer = timer
  <2>1. ~DoesIn(Ahead, "StartTimer") /\ ~DoesIn(Ahead, "StopTimer") BY <1>2 DEF Does
  <2> QED BY <2>1 DEF FinalTimer, TimerAfter
<1>10. FinalFlag = flag
  <2>1. ~DoesIn(Ahead, "FirstStartFlag++") BY <1>2 DEF Does
  <2> QED BY <2>1 DEF FinalFlag, FlagAfter
<1> QED BY <1>1, <1>2, <1>3, <1>4, <1>5, <1>7, <1>8, <1>9, <1>10

(* What is known when the system thread takes message m of automate f.     *)
Takes(f, m) ==
  /\ Dispatch(f) /\ m = Head(mbx[f])
  /\ Ahead = {} /\ (\A op : ~Does(op)) /\ \A g, K : ~ToSend(Ahead, g, K)
  /\ m \in Range(mbx[f])
  /\ \A g \in Fsm : Range(mbx'[g]) \subseteq Range(mbx[g])
  /\ \A g \in Fsm : g # f => mbx'[g] = mbx[g]
  /\ mbx' = [g \in Fsm |-> mbx'[g]] /\ \A g \in Fsm : IsSeq(mbx'[g])
  /\ \A K : InBox(mbx[f], K) <=> InBox(mbx'[f], K) \/ m.type \in K
  /\ \A K : OneIn(mbx[f], K) => OneIn(mbx'[f], K)
  /\ \A K : OneIn(mbx[f], K) /\ m.type \in K => ~InBox(mbx'[f], K)
  /\ \A g \in Fsm : g < f => Range(mbx[g]) = {} /\ \A K : ~InBox(mbx[g], K)
  /\ \A g, K : Has(g, K) <=> InBox(mbx[g], K)
  /\ \A g, K : Single(mbx[g], Ahead, g, K) <=> OneIn(mbx[g], K)
  /\ (\A g : FinalState(g) = state[g]) /\ \A b : FinalBuffer(b) = buffer[b]
  /\ FinalTimer = timer /\ FinalFlag = flag
  /\ timer' = IF m.type = "Timer_Expired" THEN "stale" ELSE timer
  /\ running' = f /\ todo' = [t \in Thread |-> todo'[t]]
  /\ todo'["listener"] = todo["listener"]
  /\ state' = state /\ buffer' = buffer /\ flag' = flag /\ listener' = listener
  /\ segments' = segments /\ asked' = asked /\ shown' = shown

LEMMA Taken ==
  ASSUME IInv, NEW f \in Fsm, Dispatch(f)
  PROVE  Takes(f, Head(mbx[f]))
<1>1. /\ todo["system"] = <<>> /\ mbx[f] # <<>>
      /\ mbx' = [mbx EXCEPT ![f] = Tail(@)]
      /\ \A h \in Fsm : h < f => mbx[h] = <<>>
  BY DEF Dispatch
<1>2. /\ mbx = [g \in Fsm |-> mbx[g]] /\ \A g \in Fsm : IsSeq(mbx[g])
      /\ todo = [t \in Thread |-> todo[t]]
  BY DEF IInv, Variables
<1>3. /\ mbx'[f] = Tail(mbx[f]) /\ \A g \in Fsm : g # f => mbx'[g] = mbx[g]
      /\ mbx' = [g \in Fsm |-> mbx'[g]]
  BY <1>1, <1>2
<1>4. PICK q : q = mbx[f] OBVIOUS
<1>5. IsSeq(q) /\ q # <<>> BY <1>1, <1>2, <1>4
<1>6. /\ IsSeq(Tail(q)) /\ Head(q) \in Range(q)
      /\ Range(q) = {Head(q)} \cup Range(Tail(q))
  BY <1>5, HeadAndTail
<1>7. \A K : InBox(q, K) <=> InBox(Tail(q), K) \/ Head(q).type \in K BY <1>5, BoxTake
<1>8. \A K : OneIn(q, K) => OneIn(Tail(q), K) BY <1>5, BoxTake
<1>9. \A K : OneIn(q, K) /\ Head(q).type \in K => ~InBox(Tail(q), K) BY <1>5, BoxTake
<1>10. \A g \in Fsm : Range(mbx'[g]) \subseteq Range(mbx[g]) /\ IsSeq(mbx'[g])
  <2> SUFFICES ASSUME NEW g \in Fsm PROVE Range(mbx'[g]) \subseteq Range(mbx[g]) /\ IsSeq(mbx'[g])
    OBVIOUS
  <2>1. CASE g = f BY <2>1, <1>3, <1>4, <1>6
  <2>2. CASE g # f BY <2>2, <1>2, <1>3
  <2> QED BY <2>1, <2>2
<1>11. \A g \in Fsm : g < f => Range(mbx[g]) = {} /\ \A K : ~InBox(mbx[g], K)
  <2> SUFFICES ASSUME NEW g \in Fsm, g < f PROVE Range(mbx[g]) = {} /\ \A K : ~InBox(mbx[g], K)
    OBVIOUS
  <2>1. Range(mbx[g]) = {} BY <1>1, Handler0
  <2> QED BY <2>1 DEF InBox
<1>12. /\ todo' = [t \in Thread |-> todo'[t]] /\ todo'["listener"] = todo["listener"]
  BY <1>2 DEF Dispatch, Thread
<1>13. /\ running' = f
       /\ timer' = IF Head(mbx[f]).type = "Timer_Expired" THEN "stale" ELSE timer
       /\ state' = state /\ buffer' = buffer /\ flag' = flag /\ listener' = listener
       /\ segments' = segments /\ asked' = asked /\ shown' = shown
  BY DEF Dispatch
<1>14. /\ Ahead = {} /\ (\A op : ~Does(op)) /\ \A g, K : ~ToSend(Ahead, g, K)
       /\ \A g, K : Has(g, K) <=> InBox(mbx[g], K)
       /\ \A g, K : Single(mbx[g], Ahead, g, K) <=> OneIn(mbx[g], K)
       /\ (\A g : FinalState(g) = state[g]) /\ \A b : FinalBuffer(b) = buffer[b]
       /\ FinalTimer = timer /\ FinalFlag = flag
  BY <1>1, AtRest
<1>15. /\ \A K : InBox(mbx[f], K) <=> InBox(mbx'[f], K) \/ Head(mbx[f]).type \in K
       /\ \A K : OneIn(mbx[f], K) => OneIn(mbx'[f], K)
       /\ \A K : OneIn(mbx[f], K) /\ Head(mbx[f]).type \in K => ~InBox(mbx'[f], K)
       /\ Head(mbx[f]) \in Range(mbx[f])
  BY <1>3, <1>4, <1>6, <1>7, <1>8, <1>9
<1> QED BY <1>3, <1>10, <1>11, <1>12, <1>13, <1>14, <1>15 DEF Takes

(* What a handler that leads so has ahead when it begins.                  *)
Begins(f, m, ops, sent, next, buf, val) ==
  /\ Takes(f, m)
  /\ Variables' /\ Effects' /\ Expiries' /\ AnswerIsForTheName'
  /\ \A op : DoesIn(Ahead', op) <=> op \in ops
  /\ \A g, K : ToSend(Ahead', g, K) <=> Sending(sent, g, K)
  /\ \A g, K : HasIn(mbx'[g], Ahead', g, K) <=> InBox(mbx'[g], K) \/ Sending(sent, g, K)
  /\ \A g, K : OneIn(mbx'[g], K) /\ ~(InBox(mbx'[g], K) /\ Sending(sent, g, K))
                 => Single(mbx'[g], Ahead', g, K)
  /\ \A e \in Ahead' : e.op = "send" => <<e.to, e.type>> \in sent
  /\ \A e \in Ahead' : e.op = "state" => e.val = next \/ next = "same"
  /\ FinalState(f)' = IF next = "same" THEN state[f] ELSE next
  /\ \A g \in Fsm : g # f => FinalState(g)' = state[g]
  /\ \A b \in BufferId : FinalBuffer(b)' = IF b = buf THEN val ELSE buffer[b]
  /\ "StartTimer" \in ops => FinalTimer' = "running"
  /\ "StopTimer" \in ops /\ "StartTimer" \notin ops => FinalTimer' = "null"
  /\ "StopTimer" \notin ops /\ "StartTimer" \notin ops => FinalTimer' = timer'
  /\ FinalFlag' = IF "FirstStartFlag++" \in ops /\ flag < 2 THEN flag + 1 ELSE flag

LEMMA TakenVariables ==
  ASSUME IInv, NEW f \in Fsm, NEW m, Takes(f, m), NEW s, todo'["system"] = s
  PROVE  Variables' /\ Expiries' /\ AnswerIsForTheName'
<1>1. /\ mbx' = [g \in Fsm |-> mbx'[g]] /\ \A g \in Fsm : IsSeq(mbx'[g])
      /\ \A g \in Fsm : Range(mbx'[g]) \subseteq Range(mbx[g])
      /\ running' = f /\ todo' = [t \in Thread |-> todo'[t]]
      /\ state' = state /\ buffer' = buffer /\ flag' = flag /\ listener' = listener
      /\ segments' = segments /\ asked' = asked /\ shown' = shown
      /\ timer' = IF m.type = "Timer_Expired" THEN "stale" ELSE timer
  BY DEF Takes
<1>2. inputs' = inputs /\ preparing' = preparing /\ halted' = halted
  BY DEF Takes, Dispatch
<1>3. Variables' BY <1>1, <1>2 DEF IInv, Variables
<1>4. AnswerIsForTheName' BY <1>1 DEF IInv, AnswerIsForTheName
<1>5. Client \in Fsm BY DEF Fsm
<1>6. OneIn(mbx'[Client], Expiry) /\ (timer' = "queued" <=> InBox(mbx'[Client], Expiry))
  <2>1. (timer = "queued" <=> InBox(mbx[Client], Expiry)) /\ OneIn(mbx[Client], Expiry)
    BY DEF IInv, Expiries
  <2>2. CASE f = Client
    <3>1. /\ InBox(mbx[f], Expiry) <=> InBox(mbx'[f], Expiry) \/ m.type \in Expiry
          /\ OneIn(mbx[f], Expiry) => OneIn(mbx'[f], Expiry)
          /\ OneIn(mbx[f], Expiry) /\ m.type \in Expiry => ~InBox(mbx'[f], Expiry)
      BY DEF Takes
    <3>2. m.type \in Expiry <=> m.type = "Timer_Expired" BY DEF Expiry
    <3> QED BY <2>1, <2>2, <3>1, <3>2, <1>1
  <2>3. CASE f # Client
    <3>1. mbx'[Client] = mbx[Client] BY <2>3, <1>5 DEF Takes
    <3>2. m.type # "Timer_Expired"
      <4>1. CASE f = User
        <5>1. m \in Range(mbx[User]) BY <4>1 DEF Takes
        <5>2. m.type = UserExpects[FinalState(User)] BY <5>1 DEF IInv, Turn
        <5>3. FinalState(User) = state[User] /\ state[User] \in StateOf[User]
          BY DEF Takes, IInv, Variables, Fsm
        <5>4. state[User] \in {"User_Idle", "User_Data_Input", "User_To_Client_Data", "Client_To_User_Return_Data"}
          BY <5>3 DEF StateOf, Fsm, User, Client, Channel
        <5> QED BY <5>2, <5>3, <5>4 DEF UserExpects
      <4>2. CASE f = Channel
        <5>1. InBox(mbx[Channel], {m.type})
          <6>1. m \in Range(mbx[Channel]) BY <4>2 DEF Takes
          <6> QED BY <6>1 DEF InBox
        <5> QED BY <5>1 DEF IInv, Expiries, InBox, Expiry
      <4> QED BY <2>3, <4>1, <4>2 DEF Fsm
    <3> QED BY <2>1, <3>1, <3>2, <1>1
  <2> QED BY <2>2, <2>3
<1>7. ~InBox(mbx'[Channel], Expiry)
  <2>1. Range(mbx'[Channel]) \subseteq Range(mbx[Channel]) BY <1>1 DEF Fsm
  <2> QED BY <2>1 DEF IInv, Expiries, InBox
<1> QED BY <1>3, <1>4, <1>6, <1>7 DEF Expiries

(* The beginning of any handler.                                           *)
LEMMA Beginning ==
  ASSUME IInv, NEW f \in Fsm, NEW m, Takes(f, m),
         NEW s, todo'["system"] = s, NEW ops, NEW sent, NEW next, NEW buf, NEW val,
         Leads(s, f, ops, sent, next, buf, val)
  PROVE  Begins(f, m, ops, sent, next, buf, val)
<1>1. Variables' /\ Expiries' /\ AnswerIsForTheName' BY TakenVariables
<1>2. PICK A : A = Range(s) OBVIOUS
<1>3. Ahead' = A BY <1>2 DEF Ahead
<1>4. /\ Handler(s) /\ SystemEffects(A, f)
      /\ \A op : DoesIn(A, op) <=> op \in ops
      /\ \A g, K : ToSend(A, g, K) <=> \E t \in K : <<g, t>> \in sent
      /\ \A d, e \in A : d.op = "send" /\ e.op = "send" /\ d.to = e.to => d = e
      /\ \A v : StateAfter(A, v) = IF next = "same" THEN v ELSE next
      /\ \A b, v : b # "" => BufferAfter(A, b, v) = IF b = buf THEN val ELSE v
  BY <1>2 DEF Leads
<1>5. /\ running' = f /\ state' = state /\ buffer' = buffer /\ flag' = flag
      /\ todo'["listener"] = todo["listener"]
  BY DEF Takes
<1>6. Effects'
  <2>1. ListenerEffects(todo["listener"]) BY DEF IInv, Effects
  <2>2. Handler(todo'["system"]) /\ SystemEffects(Ahead', running')
    BY <1>3, <1>4, <1>5
  <2>3. ListenerEffects(todo'["listener"]) BY <1>5, <2>1
  <2> QED BY <2>2, <2>3 DEF Effects
<1>7. \A op : DoesIn(Ahead', op) <=> op \in ops BY <1>3, <1>4
<1>8. \A g, K : ToSend(Ahead', g, K) <=> Sending(sent, g, K) BY <1>3, <1>4 DEF Sending
<1>9. \A g, K : HasIn(mbx'[g], Ahead', g, K) <=> InBox(mbx'[g], K) \/ Sending(sent, g, K)
  BY <1>8 DEF HasIn
<1>10. \A g, K : OneIn(mbx'[g], K) /\ ~(InBox(mbx'[g], K) /\ Sending(sent, g, K))
                   => Single(mbx'[g], Ahead', g, K)
  <2> SUFFICES ASSUME NEW g, NEW K, OneIn(mbx'[g], K), ~(InBox(mbx'[g], K) /\ Sending(sent, g, K))
               PROVE  Single(mbx'[g], Ahead', g, K)
    OBVIOUS
  <2>1. \A d, e \in Ahead' : Sends(d, g, K) /\ Sends(e, g, K) => d = e
    BY <1>3, <1>4 DEF Sends
  <2>2. ToSend(Ahead', g, K) <=> Sending(sent, g, K) BY <1>8
  <2> QED BY <2>1, <2>2 DEF Single
<1>11. \A e \in Ahead' : e.op = "send" => <<e.to, e.type>> \in sent
  <2> SUFFICES ASSUME NEW e \in A, e.op = "send" PROVE <<e.to, e.type>> \in sent
    BY <1>3
  <2>1. PICK g, K : g = e.to /\ K = {e.type} OBVIOUS
  <2>2. ToSend(A, g, K) BY <2>1 DEF ToSend, Sends
  <2>3. \E t \in K : <<g, t>> \in sent BY <2>2, <1>4
  <2> QED BY <2>1, <2>3
<1>12. \A e \in Ahead' : e.op = "state" => e.val = next \/ next = "same"
  <2> SUFFICES ASSUME NEW e \in A, e.op = "state", next # "same" PROVE e.val = next
    BY <1>3
  <2>1. OnlyOnce(A) BY <1>2, <1>4 DEF Handler
  <2>2. StateAfter(A, next) = e.val BY <2>1, StateRemoved
  <2> QED BY <2>2, <1>4
<1>13. FinalState(f)' = IF next = "same" THEN state[f] ELSE next
  BY <1>3, <1>4, <1>5 DEF FinalState
<1>14. \A g \in Fsm : g # f => FinalState(g)' = state[g] BY <1>5 DEF FinalState
<1>15. \A b \in BufferId : FinalBuffer(b)' = IF b = buf THEN val ELSE buffer[b]
  <2>1. "" \notin BufferId BY DEF BufferId
  <2> QED BY <2>1, <1>3, <1>4, <1>5 DEF FinalBuffer
<1>16. /\ "StartTimer" \in ops => FinalTimer' = "running"
       /\ "StopTimer" \in ops /\ "StartTimer" \notin ops => FinalTimer' = "null"
       /\ "StopTimer" \notin ops /\ "StartTimer" \notin ops => FinalTimer' = timer'
  BY <1>7 DEF FinalTimer, TimerAfter
<1>17. FinalFlag' = IF "FirstStartFlag++" \in ops /\ flag < 2 THEN flag + 1 ELSE flag
  BY <1>7, <1>5 DEF FinalFlag, FlagAfter
<1> QED BY <1>1, <1>6, <1>7, <1>8, <1>9, <1>10, <1>11, <1>12, <1>13, <1>14, <1>15, <1>16, <1>17
        DEF Begins

-----------------------------------------------------------------------------
(* Messages of User.  The mailboxes before User's are empty and User's has *)
(* no other message; Client is not busy and its timer is off.              *)
LEMMA UserTaken ==
  ASSUME IInv, NEW m, Takes(User, m)
  PROVE  /\ m.type = UserExpects[state[User]] /\ m.type \in UserTypes
         /\ \A g \in Fsm : Range(mbx'[g]) = {} /\ OneIn(mbx'[g], Driving) /\ OneIn(mbx'[g], Create)
         /\ OneIn(mbx'[User], UserTypes)
         /\ \A g \in Fsm : \A K : ~InBox(mbx'[g], K)
         /\ ~Busy /\ state[Client] \notin {"Client_Check_Local_Table", "Client_DNS_Request",
                                           "Client_DNS_Recived"}
         /\ timer = "null" /\ timer' = "null"
         /\ ~Has(Channel, Create)
<1>1. /\ m \in Range(mbx[User]) /\ FinalState(User) = state[User] /\ FinalState(Client) = state[Client]
      /\ \A g \in Fsm : g < User => Range(mbx[g]) = {} /\ \A K : ~InBox(mbx[g], K)
      /\ \A g \in Fsm : Range(mbx'[g]) \subseteq Range(mbx[g])
  BY DEF Takes
<1>2. User \in Fsm /\ \A g \in Fsm : g = User \/ g < User BY DEF Fsm, User, Client, Channel
<1>3. \A d \in Range(mbx[User]) : d.type = UserExpects[state[User]] BY <1>1 DEF IInv, Turn
<1>4. state[User] \in {"User_Idle", "User_Data_Input", "User_To_Client_Data",
                       "Client_To_User_Return_Data"}
  <2>1. state[User] \in StateOf[User] BY <1>2 DEF IInv, Variables
  <2> QED BY <2>1 DEF StateOf, Fsm, User, Client, Channel
<1>5. UserExpects[state[User]] \in UserTypes BY <1>4 DEF UserExpects, UserTypes
<1>6. Has(User, UserTypes) /\ InBox(mbx[User], UserTypes)
  BY <1>1, <1>3, <1>5 DEF Has, HasIn, InBox
<1>7. OneIn(mbx[User], UserTypes) BY DEF Takes, IInv, Turn
<1>8. ~InBox(mbx'[User], UserTypes) /\ OneIn(mbx'[User], UserTypes)
  BY <1>1, <1>3, <1>5, <1>7 DEF Takes
<1>9. Range(mbx'[User]) = {}
  BY <1>1, <1>2, <1>3, <1>5, <1>8 DEF InBox
<1>10. \A g \in Fsm : Range(mbx'[g]) = {} BY <1>1, <1>2, <1>9
<1>11. \A g \in Fsm : \A K : ~InBox(mbx'[g], K) /\ OneIn(mbx'[g], K)
  BY <1>10 DEF InBox, OneIn, Range
<1>12. ~Busy BY <1>6 DEF IInv, Turn
<1>13. timer = "null" BY <1>12 DEF Takes, IInv, Drive, Busy, Received
<1>14. m.type # "Timer_Expired" BY <1>1, <1>3, <1>5 DEF UserTypes
<1>15. timer' = "null" BY <1>13, <1>14 DEF Takes
<1>16. ~Has(Channel, Create)
  <2>1. Channel \in Fsm /\ Channel < User BY DEF Fsm, Channel, User
  <2> QED BY <2>1 DEF Takes
<1> QED BY <1>1, <1>2, <1>3, <1>5, <1>10, <1>11, <1>12, <1>13, <1>15, <1>16 DEF Busy

(* What the handlers of User have in common.                               *)
UserMay(m, ops, sent, next, buf, val) ==
  /\ \A t : <<User, t>> \in sent => t = UserExpects[next]
  /\ ~Sending(sent, Client, Answer) /\ ~Sending(sent, User, Answer)
  /\ ~Sending(sent, Channel, ToServer) /\ ~Sending(sent, Channel, Create)
  /\ Sending(sent, Client, Request) =>
       next = Waiting /\ ~Sending(sent, User, UserTypes) /\ m.type \in Request /\ buf = ""
  /\ Sending(sent, User, Request) => "scanf" \in ops
  /\ {"StartTimer", "StopTimer", "SendToServer", "CreateThread", "FirstStartFlag++"} \cap ops = {}
  /\ "print" \in ops => m.type \in Answer /\ buf = "user" /\ val = m.val
  /\ buf \in {"", "user"} /\ next # "same"

LEMMA UserPreserves ==
  ASSUME IInv, NEW m, NEW ops, NEW sent, NEW next, NEW buf, NEW val,
         UserMay(m, ops, sent, next, buf, val),
         Begins(User, m, ops, sent, next, buf, val)
  PROVE  IInv'
<1>1. Takes(User, m) BY DEF Begins
<1>2. /\ m.type = UserExpects[state[User]] /\ m.type \in UserTypes
      /\ \A g \in Fsm : Range(mbx'[g]) = {} /\ OneIn(mbx'[g], Driving) /\ OneIn(mbx'[g], Create)
      /\ OneIn(mbx'[User], UserTypes)
      /\ \A g \in Fsm : \A K : ~InBox(mbx'[g], K)
      /\ ~Busy /\ state[Client] \notin {"Client_Check_Local_Table", "Client_DNS_Request",
                                        "Client_DNS_Recived"}
      /\ timer = "null" /\ timer' = "null"
      /\ ~Has(Channel, Create)
  BY <1>1, UserTaken
<1>3. /\ Client \in Fsm /\ Channel \in Fsm /\ User \in Fsm
      /\ Client # User /\ Channel # User /\ Channel # Client
  BY DEF Fsm, Client, Channel, User
<1>4. /\ \A op : DoesIn(Ahead', op) <=> op \in ops
      /\ \A g, K : ToSend(Ahead', g, K) <=> Sending(sent, g, K)
      /\ FinalState(User)' = next
      /\ FinalState(Client)' = state[Client] /\ FinalState(Channel)' = state[Channel]
      /\ \A b \in BufferId : FinalBuffer(b)' = IF b = buf THEN val ELSE buffer[b]
  BY <1>3 DEF Begins, UserMay
<1>5. \A g \in Fsm : \A K : HasIn(mbx'[g], Ahead', g, K) <=> Sending(sent, g, K)
  BY <1>2 DEF Begins
<1>6. /\ Single(mbx'[User], Ahead', User, UserTypes)
      /\ Single(mbx'[Client], Ahead', Client, Driving)
      /\ Single(mbx'[Channel], Ahead', Channel, Create)
  BY <1>2, <1>3 DEF Begins
<1>7. ~Busy' /\ ~Received' BY <1>2, <1>4 DEF Busy, Received
<1>8. FinalTimer' = "null" BY <1>2 DEF Begins, UserMay
<1>9. FinalFlag' = flag BY DEF Begins, UserMay
<1>10. ~Does("StartTimer")' /\ ~Connecting' /\ ~Creation'
  BY <1>3, <1>4, <1>5 DEF Does, Connecting, Creation, Has, UserMay
<1>11. Turn'
  <2>1. \A e \in Ahead' : Sends(e, User, UserTypes) => e.type = UserExpects[next]
    BY DEF Sends, Begins, UserMay
  <2>2. Has(Client, Request)' => ~Has(User, UserTypes)' /\ next = Waiting
    BY <1>3, <1>5 DEF Has, UserMay
  <2> QED BY <1>2, <1>3, <1>4, <1>6, <1>7, <2>1, <2>2 DEF Turn
<1>12. Drive'
  <2>1. ~Has(Client, Answer)' BY <1>3, <1>5 DEF Has, UserMay
  <2> QED BY <1>6, <1>7, <1>8, <1>10, <2>1 DEF Drive
<1>13. Socket'
  <2>1. /\ listener' = listener /\ segments' = segments /\ todo'["listener"] = todo["listener"]
        /\ FinalFlag = flag /\ FinalState(Channel) = state[Channel] /\ state' = state
        /\ running' = User
    BY <1>1 DEF Takes
  <2>2. Socket BY DEF IInv
  <2> QED BY <1>3, <1>4, <1>5, <1>6, <1>9, <1>10, <2>1, <2>2 DEF Socket, Has, UserMay
<1>14. Asked'
  <2>1. Has(User, Request)' => Does("scanf")' BY <1>3, <1>4, <1>5 DEF Has, Does, UserMay
  <2>2. ToSend(Ahead', Client, Request) => FinalBuffer("user")' = asked'
    <3> SUFFICES ASSUME Sending(sent, Client, Request) PROVE FinalBuffer("user")' = asked'
      BY <1>4
    <3>1. m.type \in Request /\ buf = "" BY DEF UserMay
    <3>2. Has(User, Request) /\ ~Does("scanf") BY <1>1, <3>1 DEF Takes, InBox
    <3>3. buffer["user"] = asked BY <1>1, <3>2 DEF IInv, Asked, Takes
    <3>4. "user" \in BufferId BY DEF BufferId
    <3> QED BY <1>1, <1>4, <3>1, <3>3, <3>4 DEF Takes
  <2>3. ~Has(Channel, ToServer)' /\ ~Has(Channel, Create)' /\ ~Does("SendToServer")' /\ ~Does("CreateThread")'
    BY <1>3, <1>4, <1>5 DEF Has, Does, UserMay
  <2> QED BY <1>2, <1>3, <1>7, <1>10, <2>1, <2>2, <2>3 DEF Asked
<1>15. Replies'
  <2>1. /\ listener' = listener /\ segments' = segments /\ todo'["listener"] = todo["listener"]
        /\ buffer' = buffer /\ mbx'[Client] = mbx[Client]
    BY <1>1, <1>3 DEF Takes
  <2>2. Replying' <=> Replying BY <2>1 DEF Replying
  <2>3. ~Received BY <1>2 DEF Busy, Received
  <2> QED BY <2>1, <2>2, <2>3 DEF IInv, Replies
<1>16. Answers'
  <2>1. ~Has(Client, Answer)' /\ ~ToSend(Ahead', User, Answer)
    BY <1>3, <1>4, <1>5 DEF Has, UserMay
  <2>2. ASSUME segments <= 1, Does("print")' PROVE Good(FinalBuffer("user")', asked')
    <3>1. m.type \in Answer /\ buf = "user" /\ val = m.val BY <1>4, <2>2 DEF Does, UserMay
    <3>2. m \in Range(mbx[User]) /\ asked' = asked BY <1>1 DEF Takes
    <3>3. Good(m.val, asked) BY <2>2, <3>1, <3>2 DEF IInv, Answers
    <3>4. "user" \in BufferId BY DEF BufferId
    <3>5. FinalBuffer("user")' = m.val BY <1>4, <3>1, <3>4
    <3> QED BY <3>2, <3>3, <3>5
  <2>3. segments' = segments BY <1>1 DEF Takes
  <2> QED BY <1>2, <1>3, <2>1, <2>2, <2>3 DEF Answers
<1> QED BY <1>11, <1>12, <1>13, <1>14, <1>15, <1>16 DEF IInv, Begins

LEMMA UserProcedure ==
  ASSUME NEW m, NEW file, NEW attempt, m.type = UserExpects[state[User]],
         state[User] \in {"User_Idle", "User_Data_Input", "User_To_Client_Data",
                          "Client_To_User_Return_Data"},
         NEW s, s = Procedure(User, m, file, attempt)
  PROVE  \/ m.type = "User_Idle" /\ s = User_Idle_Set_All
         \/ m.type = "User_Data_Input" /\ s = User_Data_Input_From_Console
         \/ m.type = "User_To_Client_Data_Sent" /\ s = User_Pass_Data_To_Client
         \/ m.type = "Client_To_User_Return_Data_Recived" /\ s = User_Get_Data_From_Client(m)
<1>1. CASE state[User] = "User_Idle"
  <2>1. m.type = "User_Idle" BY <1>1 DEF UserExpects
  <2> QED BY <1>1, <2>1 DEF Procedure
<1>2. CASE state[User] = "User_Data_Input"
  <2>1. m.type = "User_Data_Input" BY <1>2 DEF UserExpects
  <2> QED BY <1>2, <2>1 DEF Procedure
<1>3. CASE state[User] = "User_To_Client_Data"
  <2>1. m.type = "User_To_Client_Data_Sent" BY <1>3 DEF UserExpects
  <2> QED BY <1>3, <2>1 DEF Procedure
<1>4. CASE state[User] = "Client_To_User_Return_Data"
  <2>1. m.type = "Client_To_User_Return_Data_Recived" BY <1>4 DEF UserExpects
  <2> QED BY <1>4, <2>1 DEF Procedure
<1> QED BY <1>1, <1>2, <1>3, <1>4

LEMMA UserDispatch ==
  ASSUME IInv, Dispatch(User)
  PROVE  IInv'
<1>1. PICK m : m = Head(mbx[User]) OBVIOUS
<1>2. User \in Fsm BY DEF Fsm
<1>3. Takes(User, m) BY <1>1, <1>2, Taken
<1>4. PICK s : s = todo'["system"] OBVIOUS
<1>5. PICK file \in Files, attempt \in Attempt : s = Procedure(User, m, file, attempt)
  <2>1. "system" \in Thread /\ todo = [t \in Thread |-> todo[t]] BY DEF Thread, IInv, Variables
  <2> QED BY <1>1, <1>4, <2>1 DEF Dispatch
<1>6. m.type = UserExpects[state[User]] BY <1>3, UserTaken
<1>7. state[User] \in {"User_Idle", "User_Data_Input", "User_To_Client_Data",
                       "Client_To_User_Return_Data"}
  <2>1. state[User] \in StateOf[User] BY <1>2 DEF IInv, Variables
  <2> QED BY <2>1 DEF StateOf, Fsm, User, Client, Channel
<1>8. CASE m.type = "User_Idle" /\ s = User_Idle_Set_All
  <2>1. PICK ops, sent, next :
          /\ ops = {"send", "state"} /\ next = "User_Data_Input"
          /\ sent = {<<Client, "Client_Idle">>, <<Channel, "Channel_Idle">>,
                     <<User, "User_Data_Input">>}
    OBVIOUS
  <2>2. Begins(User, m, ops, sent, next, "", NoData)
    BY <1>2, <1>3, <1>4, <1>8, <2>1, UserIdleLeads, Beginning
  <2>3. UserMay(m, ops, sent, next, "", NoData)
    BY <2>1 DEF UserMay, Sending, UserExpects, Answer, Request, ToServer, Create, User, Client, Channel
  <2> QED BY <2>2, <2>3, UserPreserves
<1>9. CASE m.type = "User_Data_Input" /\ s = User_Data_Input_From_Console
  <2>1. PICK ops, sent, next :
          /\ ops = {"scanf", "send", "state"} /\ next = "User_To_Client_Data"
          /\ sent = {<<User, "User_To_Client_Data_Sent">>}
    OBVIOUS
  <2>2. Begins(User, m, ops, sent, next, "", NoData)
    BY <1>2, <1>3, <1>4, <1>9, <2>1, UserInputLeads, Beginning
  <2>3. UserMay(m, ops, sent, next, "", NoData)
    BY <2>1 DEF UserMay, Sending, UserExpects, Answer, Request, ToServer, Create, User, Client, Channel
  <2> QED BY <2>2, <2>3, UserPreserves
<1>10. CASE m.type = "User_To_Client_Data_Sent" /\ s = User_Pass_Data_To_Client
  <2>1. PICK ops, sent, next :
          /\ ops = {"send", "state"} /\ next = "Client_To_User_Return_Data"
          /\ sent = {<<Client, "User_To_Client_Data_Sent">>}
    OBVIOUS
  <2>2. Begins(User, m, ops, sent, next, "", NoData)
    BY <1>2, <1>3, <1>4, <1>10, <2>1, UserPassLeads, Beginning
  <2>3. UserMay(m, ops, sent, next, "", NoData)
    BY <1>10, <2>1 DEF UserMay, Sending, UserExpects, UserTypes, Waiting, Answer, Request, ToServer,
                Create, User, Client, Channel
  <2> QED BY <2>2, <2>3, UserPreserves
<1>11. CASE m.type = "Client_To_User_Return_Data_Recived" /\ s = User_Get_Data_From_Client(m)
  <2>1. PICK ops, sent, next :
          /\ ops = {"store", "print", "send", "state"} /\ next = "User_Data_Input"
          /\ sent = {<<Client, "Client_Idle">>, <<Channel, "Channel_Idle">>,
                     <<User, "User_Data_Input">>}
    OBVIOUS
  <2>2. Begins(User, m, ops, sent, next, "user", m.val)
    BY <1>2, <1>3, <1>4, <1>11, <2>1, UserGetLeads, Beginning
  <2>3. UserMay(m, ops, sent, next, "user", m.val)
    BY <1>11, <2>1 DEF UserMay, Sending, UserExpects, Answer, Request, ToServer, Create,
                User, Client, Channel
  <2> QED BY <2>2, <2>3, UserPreserves
<1> QED BY <1>5, <1>6, <1>7, <1>8, <1>9, <1>10, <1>11, UserProcedure

-----------------------------------------------------------------------------
(* Messages of Channel: the other mailboxes stay as they are.              *)
ChannelMay(m, ops, sent, buf, val) ==
  /\ \A t : <<User, t>> \notin sent /\ <<Client, t>> \notin sent
  /\ ~Sending(sent, Channel, ToServer)
  /\ {"StartTimer", "StopTimer", "scanf", "print"} \cap ops = {}
  /\ Sending(sent, Channel, Create) => buf = "chIn"
  /\ "SendToServer" \in ops => m.type \in Create
  /\ "CreateThread" \in ops => "SendToServer" \in ops
  /\ buf = "" \/ (buf = "chIn" /\ val = m.val /\ m.type \in ToServer)

LEMMA ChannelTaken ==
  ASSUME IInv, NEW m, Takes(Channel, m)
  PROVE  /\ mbx'[User] = mbx[User] /\ mbx'[Client] = mbx[Client]
         /\ \A K : InBox(mbx'[Channel], K) => Has(Channel, K)
         /\ \A K : m.type \in K => Has(Channel, K)
         /\ timer' = timer
         /\ m.type \in Create => ~InBox(mbx'[Channel], Create)
         /\ OneIn(mbx[Channel], Create) => OneIn(mbx'[Channel], Create)
         /\ m.type \in ToServer => m.val = asked
<1>1. Channel # User /\ Channel # Client /\ User \in Fsm /\ Client \in Fsm /\ Channel \in Fsm
  BY DEF Fsm, Channel, Client, User
<1>2. mbx'[User] = mbx[User] /\ mbx'[Client] = mbx[Client] BY <1>1 DEF Takes
<1>3. \A K : InBox(mbx'[Channel], K) => Has(Channel, K) BY DEF Takes
<1>4. \A K : m.type \in K => Has(Channel, K) BY DEF Takes
<1>5. m \in Range(mbx[Channel]) BY DEF Takes
<1>6. m.type # "Timer_Expired" BY <1>5 DEF IInv, Expiries, InBox, Expiry
<1>7. timer' = timer BY <1>6 DEF Takes
<1>8. m.type \in ToServer => m.val = asked BY <1>5 DEF IInv, Asked
<1>9. /\ m.type \in Create => ~InBox(mbx'[Channel], Create)
      /\ OneIn(mbx[Channel], Create) => OneIn(mbx'[Channel], Create)
  <2>1. OneIn(mbx[Channel], Create) => OneIn(mbx'[Channel], Create) BY DEF Takes
  <2>2. ASSUME m.type \in Create PROVE ~InBox(mbx'[Channel], Create)
    <3>1. Creation BY <1>4, <2>2 DEF Creation
    <3>2. Single(mbx[Channel], Ahead, Channel, Create) BY <3>1 DEF IInv, Socket, Variables
    <3> QED BY <2>2, <3>2 DEF Takes
  <2> QED BY <2>1, <2>2
<1> QED BY <1>2, <1>3, <1>4, <1>7, <1>8, <1>9

(* All but the socket, for any handler of Channel.                         *)
LEMMA ChannelPreserves ==
  ASSUME IInv, NEW m, NEW ops, NEW sent, NEW next, NEW buf, NEW val,
         ChannelMay(m, ops, sent, buf, val),
         Begins(Channel, m, ops, sent, next, buf, val), Socket'
  PROVE  IInv'
<1>1. Takes(Channel, m) BY DEF Begins
<1>2. /\ mbx'[User] = mbx[User] /\ mbx'[Client] = mbx[Client]
      /\ \A K : InBox(mbx'[Channel], K) => Has(Channel, K)
      /\ \A K : m.type \in K => Has(Channel, K)
      /\ timer' = timer
      /\ m.type \in ToServer => m.val = asked
  BY <1>1, ChannelTaken
<1>3. /\ Client \in Fsm /\ Channel \in Fsm /\ User \in Fsm
      /\ Client # User /\ Channel # User /\ Channel # Client
  BY DEF Fsm, Client, Channel, User
<1>4. /\ \A op : DoesIn(Ahead', op) <=> op \in ops
      /\ \A g, K : ToSend(Ahead', g, K) <=> Sending(sent, g, K)
      /\ \A g, K : HasIn(mbx'[g], Ahead', g, K) <=> InBox(mbx'[g], K) \/ Sending(sent, g, K)
      /\ FinalState(User)' = FinalState(User) /\ FinalState(Client)' = FinalState(Client)
      /\ \A b \in BufferId : FinalBuffer(b)' = IF b = buf THEN val ELSE buffer[b]
      /\ \A b : FinalBuffer(b) = buffer[b]
  BY <1>1, <1>3 DEF Begins, Takes
<1>5. \A K : ~Sending(sent, User, K) /\ ~Sending(sent, Client, K)
  BY DEF Sending, ChannelMay
<1>6. \A K : (Has(User, K)' <=> Has(User, K)) /\ (Has(Client, K)' <=> Has(Client, K))
  <2>1. \A g, K : Has(g, K) <=> InBox(mbx[g], K) BY <1>1 DEF Takes
  <2>2. \A K : (Has(User, K)' <=> InBox(mbx'[User], K)) /\ (Has(Client, K)' <=> InBox(mbx'[Client], K))
    BY <1>4, <1>5 DEF Has
  <2> QED BY <2>1, <2>2, <1>2
<1>7. /\ Single(mbx'[User], Ahead', User, UserTypes)
      /\ Single(mbx'[Client], Ahead', Client, Driving)
  <2>1. OneIn(mbx[User], UserTypes) /\ OneIn(mbx[Client], Driving)
    BY <1>1 DEF Takes, IInv, Turn, Drive
  <2> QED BY <1>2, <1>5, <2>1 DEF Begins
<1>8. (Busy' <=> Busy) /\ (Received' <=> Received) BY <1>4 DEF Busy, Received
<1>9. FinalTimer' = FinalTimer BY <1>1, <1>2 DEF Begins, ChannelMay, Takes
<1>10. ~Does("scanf")' /\ ~Does("print")' /\ ~Does("StartTimer")'
  BY <1>4 DEF Does, ChannelMay
<1>11. asked' = asked BY <1>1 DEF Takes
<1>12. Turn'
  <2>1. \A e \in Ahead' : ~Sends(e, User, UserTypes) BY DEF Sends, Begins, ChannelMay
  <2>2. Turn BY DEF IInv
  <2>3. (Has(Client, Request)' <=> Has(Client, Request)) /\ (Has(User, UserTypes)' <=> Has(User, UserTypes))
    BY <1>6
  <2> QED BY <1>2, <1>4, <1>7, <1>8, <2>1, <2>2, <2>3 DEF Turn
<1>13. Drive'
  <2>1. (Has(Client, Answer)' <=> Has(Client, Answer)) /\ (Has(Client, Driving)' <=> Has(Client, Driving))
    BY <1>6
  <2>2. Drive BY DEF IInv
  <2> QED BY <1>7, <1>8, <1>9, <1>10, <2>1, <2>2 DEF Drive
<1>14. Asked'
  <2>1. ~ToSend(Ahead', Client, Request) BY <1>4, <1>5
  <2>2. Asked BY DEF IInv
  <2>3. "user" \in BufferId /\ "clIn" \in BufferId /\ "chIn" \in BufferId BY DEF BufferId
  <2>4. FinalBuffer("user")' = FinalBuffer("user") /\ FinalBuffer("clIn")' = FinalBuffer("clIn")
    BY <1>4, <2>3 DEF ChannelMay
  <2>5. (Has(User, Request)' <=> Has(User, Request)) /\ (Has(Client, Answer)' <=> Has(Client, Answer))
    BY <1>6
  <2>6. Has(Channel, ToServer)' => Has(Channel, ToServer)
    BY <1>2, <1>4 DEF Has, ChannelMay
  <2>7. Has(Channel, Create)' \/ Does("SendToServer")' => Has(Channel, Create) \/ m.type \in ToServer
    BY <1>2, <1>4 DEF Has, Does, ChannelMay
  <2>8. Does("CreateThread")' => Does("SendToServer")' BY <1>4 DEF Does, ChannelMay
  <2>9. Has(Channel, ToServer)' \/ Creation' => Received' /\ ~Has(Client, Answer)'
    BY <1>2, <1>8, <2>2, <2>5, <2>6, <2>7, <2>8 DEF Asked, Creation, Connecting
  <2>10. Has(Channel, Create)' \/ Does("SendToServer")' => FinalBuffer("chIn")' = asked
    <3>1. CASE buf = "chIn" BY <1>2, <1>4, <2>3, <3>1 DEF ChannelMay
    <3>2. CASE buf = ""
      <4>1. Has(Channel, Create)' \/ Does("SendToServer")' => Has(Channel, Create)
        BY <1>2, <1>4, <3>2 DEF Has, Does, ChannelMay
      <4>2. FinalBuffer("chIn")' = FinalBuffer("chIn") BY <1>4, <2>3, <3>2
      <4> QED BY <4>1, <4>2, <2>2 DEF Asked
    <3> QED BY <3>1, <3>2 DEF ChannelMay
  <2>11. \A d \in Range(mbx'[Channel]) : d.type \in ToServer => d.val = asked
    BY <1>1, <1>3, <2>2 DEF Takes, Asked
  <2>12. ~Does("scanf") BY <1>1 DEF Takes
  <2> QED BY <1>2, <1>8, <1>10, <1>11, <2>1, <2>2, <2>4, <2>5, <2>8, <2>9, <2>10, <2>11, <2>12
          DEF Asked
<1>15. Replies'
  <2>1. /\ listener' = listener /\ segments' = segments /\ todo'["listener"] = todo["listener"]
        /\ buffer' = buffer
    BY <1>1 DEF Takes
  <2>2. Replying' <=> Replying BY <2>1 DEF Replying
  <2>3. Has(Client, Answer)' <=> Has(Client, Answer) BY <1>6
  <2> QED BY <1>2, <1>8, <1>11, <2>1, <2>2, <2>3 DEF IInv, Replies
<1>16. Answers'
  <2>1. ~ToSend(Ahead', User, Answer) /\ (Has(Client, Answer)' <=> Has(Client, Answer))
    BY <1>4, <1>5, <1>6
  <2>2. FinalBuffer("clOut")' = FinalBuffer("clOut")
    <3>1. "clOut" \in BufferId BY DEF BufferId
    <3> QED BY <3>1, <1>4 DEF ChannelMay
  <2>3. segments' = segments BY <1>1 DEF Takes
  <2> QED BY <1>2, <1>10, <1>11, <2>1, <2>2, <2>3 DEF IInv, Answers
<1> QED BY <1>12, <1>13, <1>14, <1>15, <1>16 DEF IInv, Begins

(* The socket, handler by handler.                                         *)
LEMMA ChannelSocket ==
  ASSUME IInv, NEW m, NEW ops, NEW sent, NEW next, NEW buf, NEW val,
         Begins(Channel, m, ops, sent, next, buf, val)
  PROVE  /\ state[Channel] = FinalState(Channel) /\ flag = FinalFlag /\ flag \in 0 .. 2
         /\ listener' = listener /\ segments' = segments /\ todo'["listener"] = todo["listener"]
         /\ state' = state /\ running' = Channel
         /\ FinalState(Channel)' = IF next = "same" THEN state[Channel] ELSE next
         /\ FinalFlag' = IF "FirstStartFlag++" \in ops /\ flag < 2 THEN flag + 1 ELSE flag
         /\ Has(Channel, Create)' <=> InBox(mbx'[Channel], Create) \/ Sending(sent, Channel, Create)
         /\ OneIn(mbx'[Channel], Create) /\ ~(InBox(mbx'[Channel], Create) /\ Sending(sent, Channel, Create))
              => Single(mbx'[Channel], Ahead', Channel, Create)
         /\ InBox(mbx'[Channel], Create) => Has(Channel, Create)
         /\ OneIn(mbx[Channel], Create) => OneIn(mbx'[Channel], Create)
         /\ Single(mbx[Channel], Ahead, Channel, Create) => OneIn(mbx[Channel], Create)
         /\ Connecting' <=> "SendToServer" \in ops \/ "CreateThread" \in ops
         /\ ~Connecting /\ Socket
         /\ \A e \in Ahead' : e.op = "state" => "state" \in ops /\ (e.val = next \/ next = "same")
<1>1. Takes(Channel, m) /\ flag \in 0 .. 2 BY DEF Begins, IInv, Variables
<1>2. InBox(mbx'[Channel], Create) => Has(Channel, Create) BY <1>1, ChannelTaken
<1>3. OneIn(mbx[Channel], Create) => OneIn(mbx'[Channel], Create) BY <1>1, ChannelTaken
<1>4. /\ state[Channel] = FinalState(Channel) /\ flag = FinalFlag
      /\ listener' = listener /\ segments' = segments /\ todo'["listener"] = todo["listener"]
      /\ state' = state /\ running' = Channel
      /\ Single(mbx[Channel], Ahead, Channel, Create) => OneIn(mbx[Channel], Create)
      /\ ~Does("SendToServer") /\ ~Does("CreateThread")
  BY <1>1 DEF Takes
<1>5. /\ FinalState(Channel)' = IF next = "same" THEN state[Channel] ELSE next
      /\ FinalFlag' = IF "FirstStartFlag++" \in ops /\ flag < 2 THEN flag + 1 ELSE flag
  BY DEF Begins
<1>6. /\ HasIn(mbx'[Channel], Ahead', Channel, Create)
           <=> InBox(mbx'[Channel], Create) \/ Sending(sent, Channel, Create)
      /\ OneIn(mbx'[Channel], Create) /\ ~(InBox(mbx'[Channel], Create) /\ Sending(sent, Channel, Create))
           => Single(mbx'[Channel], Ahead', Channel, Create)
      /\ \A op : DoesIn(Ahead', op) <=> op \in ops
      /\ \A e \in Ahead' : e.op = "state" => e.val = next \/ next = "same"
  BY DEF Begins
<1>7. Has(Channel, Create)' <=> InBox(mbx'[Channel], Create) \/ Sending(sent, Channel, Create)
  BY <1>6 DEF Has
<1>8. Connecting' <=> "SendToServer" \in ops \/ "CreateThread" \in ops
  BY <1>6 DEF Connecting, Does
<1>9. \A e \in Ahead' : e.op = "state" => "state" \in ops
  <2>1. \A e \in Ahead' : DoesIn(Ahead', e.op) BY DEF DoesIn
  <2>2. DoesIn(Ahead', "state") => "state" \in ops BY <1>6
  <2> QED BY <2>1, <2>2
<1>10. Socket BY DEF IInv
<1> QED BY <1>1, <1>2, <1>3, <1>4, <1>5, <1>6, <1>7, <1>8, <1>9, <1>10 DEF Connecting

(* A handler that neither sends Channel_Create_Socket nor connects.        *)
LEMMA ChannelKeepsSocket ==
  ASSUME IInv, NEW m, NEW ops, NEW sent, NEW next, NEW buf, NEW val,
         Begins(Channel, m, ops, sent, next, buf, val),
         ~Sending(sent, Channel, Create), "FirstStartFlag++" \notin ops,
         "SendToServer" \notin ops, "CreateThread" \notin ops,
         \/ next = "same" /\ "state" \notin ops
         \/ next = "Channel_Idle" /\ state[Channel] = "Channel_Disconnect"
  PROVE  Socket'
<1>1. PICK D : D = state[Channel] OBVIOUS
<1>2. /\ D = FinalState(Channel) /\ flag = FinalFlag
      /\ listener' = listener /\ segments' = segments /\ todo'["listener"] = todo["listener"]
      /\ state' = state
      /\ FinalState(Channel)' = IF next = "same" THEN D ELSE next
      /\ FinalFlag' = flag
      /\ Has(Channel, Create)' => Has(Channel, Create)
      /\ Single(mbx[Channel], Ahead, Channel, Create)
           => Single(mbx'[Channel], Ahead', Channel, Create)
      /\ ~Connecting' /\ Socket
      /\ \A e \in Ahead' : e.op = "state" => e.val = "Channel_Idle"
  BY <1>1, ChannelSocket
<1>3. Creation' => Creation BY <1>2 DEF Creation
<1>4. CASE next = "same" BY <1>1, <1>2, <1>3, <1>4 DEF Socket
<1>5. CASE next = "Channel_Idle" /\ D = "Channel_Disconnect"
  BY <1>1, <1>2, <1>3, <1>5 DEF Socket
<1> QED BY <1>1, <1>4, <1>5

LEMMA ChannelProcedure ==
  ASSUME NEW m, NEW file, NEW attempt, attempt \in Attempt,
         state[Channel] \in {"Channel_Idle", "Channel_DNS_Request", "Channel_Connect",
                             "Channel_Disconnect"},
         NEW s, s = Procedure(Channel, m, file, attempt)
  PROVE  \/ s = <<>>
         \/ state[Channel] = "Channel_Idle" /\ s = Channel_Idle_State
         \/ /\ state[Channel] = "Channel_DNS_Request" /\ m.type \in ToServer
            /\ s = Channel_Get_DNS_Request(m)
         \/ /\ state[Channel] = "Channel_Connect" /\ m.type \in Create
            /\ s = Channel_Connect_State(attempt)
         \/ state[Channel] = "Channel_Disconnect" /\ s = Channel_Disconnect_State
<1>1. CASE state[Channel] = "Channel_Idle"
  <2>1. CASE m.type = "Channel_Idle" BY <1>1, <2>1 DEF Procedure
  <2>2. CASE m.type # "Channel_Idle" BY <1>1, <2>2 DEF Procedure
  <2> QED BY <2>1, <2>2
<1>2. CASE state[Channel] = "Channel_DNS_Request"
  <2>1. CASE m.type = "Client_To_Channel_DNS_Request_Sent" BY <1>2, <2>1 DEF Procedure, ToServer
  <2>2. CASE m.type # "Client_To_Channel_DNS_Request_Sent" BY <1>2, <2>2 DEF Procedure
  <2> QED BY <2>1, <2>2
<1>3. CASE state[Channel] = "Channel_Connect"
  <2>1. CASE m.type = "Channel_Create_Socket" BY <1>3, <2>1 DEF Procedure, Create
  <2>2. CASE m.type # "Channel_Create_Socket" BY <1>3, <2>2 DEF Procedure
  <2> QED BY <2>1, <2>2
<1>4. CASE state[Channel] = "Channel_Disconnect"
  <2>1. CASE m.type = "Channel_Disconnect" BY <1>4, <2>1 DEF Procedure
  <2>2. CASE m.type # "Channel_Disconnect" BY <1>4, <2>2 DEF Procedure
  <2> QED BY <2>1, <2>2
<1> QED BY <1>1, <1>2, <1>3, <1>4

LEMMA ChannelDispatch ==
  ASSUME IInv, Dispatch(Channel)
  PROVE  IInv'
<1>1. PICK m : m = Head(mbx[Channel]) OBVIOUS
<1>2. Channel \in Fsm BY DEF Fsm
<1>3. Takes(Channel, m) BY <1>1, <1>2, Taken
<1>4. PICK s : s = todo'["system"] OBVIOUS
<1>5. PICK file \in Files, attempt \in Attempt : s = Procedure(Channel, m, file, attempt)
  <2>1. "system" \in Thread /\ todo = [t \in Thread |-> todo[t]] BY DEF Thread, IInv, Variables
  <2> QED BY <1>1, <1>4, <2>1 DEF Dispatch
<1>6. state[Channel] \in {"Channel_Idle", "Channel_DNS_Request", "Channel_Connect",
                          "Channel_Disconnect"}
  <2>1. state[Channel] \in StateOf[Channel] BY <1>2 DEF IInv, Variables
  <2> QED BY <2>1 DEF StateOf, Fsm, User, Client, Channel
<1>7. CASE s = <<>>
  <2>1. PICK ops, sent, next : ops = {} /\ sent = {} /\ next = "same" OBVIOUS
  <2>2. Leads(s, Channel, ops, sent, next, "", NoData) BY <1>7, <2>1, NothingLeads
  <2>3. Begins(Channel, m, ops, sent, next, "", NoData) BY <1>2, <1>3, <1>4, <2>2, Beginning
  <2>4. ChannelMay(m, ops, sent, "", NoData) BY <2>1 DEF ChannelMay, Sending
  <2>5. /\ ~Sending(sent, Channel, Create) /\ "FirstStartFlag++" \notin ops
        /\ "SendToServer" \notin ops /\ "CreateThread" \notin ops /\ "state" \notin ops
    BY <2>1 DEF Sending
  <2>6. Socket' BY <2>1, <2>3, <2>5, ChannelKeepsSocket
  <2> QED BY <2>3, <2>4, <2>6, ChannelPreserves
<1>8. CASE state[Channel] = "Channel_Idle" /\ s = Channel_Idle_State
  <2>1. PICK ops, sent, next :
          ops = {"state", "FirstStartFlag++"} /\ sent = {} /\ next = "Channel_DNS_Request"
    OBVIOUS
  <2>2. Leads(s, Channel, ops, sent, next, "", NoData) BY <1>8, <2>1, ChannelIdleLeads
  <2>3. Begins(Channel, m, ops, sent, next, "", NoData) BY <1>2, <1>3, <1>4, <2>2, Beginning
  <2>4. ChannelMay(m, ops, sent, "", NoData) BY <2>1 DEF ChannelMay, Sending
  <2>5. Socket'
    <3>1. /\ ~Sending(sent, Channel, Create) /\ "FirstStartFlag++" \in ops
          /\ "SendToServer" \notin ops /\ "CreateThread" \notin ops /\ next # "same"
      BY <2>1 DEF Sending
    <3>2. PICK D, n : D = state[Channel] /\ n = flag OBVIOUS
    <3>3. /\ D = FinalState(Channel) /\ n = FinalFlag /\ n \in 0 .. 2
          /\ listener' = listener /\ segments' = segments /\ todo'["listener"] = todo["listener"]
          /\ FinalState(Channel)' = "Channel_DNS_Request"
          /\ FinalFlag' = IF n < 2 THEN n + 1 ELSE n
          /\ Has(Channel, Create)' => Has(Channel, Create)
          /\ ~Connecting' /\ Socket
      BY <2>1, <2>3, <3>1, <3>2, ChannelSocket
    <3>4. Creation' => Creation BY <3>3 DEF Creation
    <3>5. D = "Channel_Idle" BY <1>8, <3>2
    <3>6. CASE listener = "none" BY <3>3, <3>4, <3>5, <3>6 DEF Socket
    <3>7. CASE listener # "none"
      <4>1. n >= 1 /\ ~Creation BY <3>3, <3>7 DEF Socket
      <4>2. FinalFlag' = 2 BY <3>3, <4>1
      <4> QED BY <3>3, <3>4, <3>7, <4>1, <4>2 DEF Socket
    <3> QED BY <3>6, <3>7
  <2> QED BY <2>3, <2>4, <2>5, ChannelPreserves
<1>9. CASE /\ state[Channel] = "Channel_DNS_Request" /\ m.type \in ToServer
           /\ s = Channel_Get_DNS_Request(m) /\ flag # 1
  <2>1. PICK ops, sent, next : ops = {"store"} /\ sent = {} /\ next = "same" OBVIOUS
  <2>2. Leads(s, Channel, ops, sent, next, "chIn", m.val) BY <1>9, <2>1, ChannelLaterLeads
  <2>3. Begins(Channel, m, ops, sent, next, "chIn", m.val) BY <1>2, <1>3, <1>4, <2>2, Beginning
  <2>4. ChannelMay(m, ops, sent, "chIn", m.val) BY <1>9, <2>1 DEF ChannelMay, Sending
  <2>5. /\ ~Sending(sent, Channel, Create) /\ "FirstStartFlag++" \notin ops
        /\ "SendToServer" \notin ops /\ "CreateThread" \notin ops /\ "state" \notin ops
    BY <2>1 DEF Sending
  <2>6. Socket' BY <2>1, <2>3, <2>5, ChannelKeepsSocket
  <2> QED BY <2>3, <2>4, <2>6, ChannelPreserves
<1>10. CASE /\ state[Channel] = "Channel_DNS_Request" /\ m.type \in ToServer
            /\ s = Channel_Get_DNS_Request(m) /\ flag = 1
  <2>1. PICK ops, sent, next :
          /\ ops = {"store", "PrepareNewMessage", "send", "SetNewMessage", "state"}
          /\ sent = {<<Channel, "Channel_Create_Socket">>} /\ next = "Channel_Connect"
    OBVIOUS
  <2>2. Leads(s, Channel, ops, sent, next, "chIn", m.val) BY <1>10, <2>1, ChannelFirstLeads
  <2>3. Begins(Channel, m, ops, sent, next, "chIn", m.val) BY <1>2, <1>3, <1>4, <2>2, Beginning
  <2>4. ChannelMay(m, ops, sent, "chIn", m.val)
    BY <1>10, <2>1 DEF ChannelMay, Sending, ToServer, Channel, User, Client
  <2>5. Socket'
    <3>1. PICK D : D = state[Channel] OBVIOUS
    <3>2. /\ D = FinalState(Channel) /\ flag = FinalFlag /\ state' = state
          /\ listener' = listener /\ segments' = segments /\ todo'["listener"] = todo["listener"]
          /\ FinalState(Channel)' = "Channel_Connect" /\ FinalFlag' = flag
          /\ Has(Channel, Create)' <=> InBox(mbx'[Channel], Create) \/ Sending(sent, Channel, Create)
          /\ InBox(mbx'[Channel], Create) => Has(Channel, Create)
          /\ OneIn(mbx'[Channel], Create) /\ ~(InBox(mbx'[Channel], Create) /\ Sending(sent, Channel, Create))
              => Single(mbx'[Channel], Ahead', Channel, Create)
          /\ ~Connecting' /\ Socket
      BY <2>1, <2>3, <3>1, ChannelSocket
    <3>3. D = "Channel_DNS_Request" BY <1>10, <3>1
    <3>4. listener = "none" /\ ~Has(Channel, Create) BY <1>10, <3>1, <3>2, <3>3 DEF Socket, Creation
    <3>5. OneIn(mbx'[Channel], Create) BY <3>2, <3>4 DEF InBox, OneIn, Range
    <3> QED BY <1>10, <3>2, <3>4, <3>5 DEF Socket
  <2> QED BY <2>3, <2>4, <2>5, ChannelPreserves
<1>11. CASE /\ state[Channel] = "Channel_Connect" /\ m.type \in Create
            /\ s = Channel_Connect_State(attempt) /\ attempt # "refused"
  <2>1. PICK ops, sent, next :
          /\ ops = IF attempt = "NoThread" THEN {"SendToServer"} ELSE {"SendToServer", "CreateThread"}
          /\ sent = {} /\ next = "same"
    OBVIOUS
  <2>2. Leads(s, Channel, ops, sent, next, "", NoData)
    BY <1>5, <1>11, <2>1, ChannelSendLeads, ChannelConnectLeads DEF Attempt
  <2>3. Begins(Channel, m, ops, sent, next, "", NoData) BY <1>2, <1>3, <1>4, <2>2, Beginning
  <2>4. ChannelMay(m, ops, sent, "", NoData) BY <1>11, <2>1 DEF ChannelMay, Sending
  <2>5. Socket'
    <3>1. ~Sending(sent, Channel, Create) /\ "FirstStartFlag++" \notin ops
          /\ ("SendToServer" \in ops \/ "CreateThread" \in ops)
      BY <2>1 DEF Sending
    <3>2. /\ FinalState(Channel) = state[Channel]
          /\ listener' = listener /\ segments' = segments /\ todo'["listener"] = todo["listener"]
          /\ FinalState(Channel)' = state[Channel] /\ FinalFlag' = FinalFlag
          /\ Has(Channel, Create)' <=> InBox(mbx'[Channel], Create)
          /\ OneIn(mbx'[Channel], Create) => Single(mbx'[Channel], Ahead', Channel, Create)
          /\ OneIn(mbx[Channel], Create) => OneIn(mbx'[Channel], Create)
          /\ Single(mbx[Channel], Ahead, Channel, Create) => OneIn(mbx[Channel], Create)
          /\ Socket
      BY <2>1, <2>3, <3>1, ChannelSocket
    <3>3. Has(Channel, Create) /\ ~InBox(mbx'[Channel], Create)
      BY <1>3, <1>11, ChannelTaken
    <3>4. /\ listener = "none" /\ FinalFlag = 1 /\ FinalState(Channel) = "Channel_Connect"
          /\ Single(mbx[Channel], Ahead, Channel, Create)
      BY <3>2, <3>3 DEF Socket, Creation
    <3> QED BY <3>2, <3>3, <3>4 DEF Socket
  <2> QED BY <2>3, <2>4, <2>5, ChannelPreserves
<1>12. CASE state[Channel] = "Channel_Disconnect" /\ s = Channel_Disconnect_State
  <2>1. PICK ops, sent, next :
          /\ ops = {"PrepareNewMessage", "send", "SetNewMessage", "state"}
          /\ sent = {<<Channel, "Channel_Idle">>} /\ next = "Channel_Idle"
    OBVIOUS
  <2>2. Leads(s, Channel, ops, sent, next, "", NoData) BY <1>12, <2>1, ChannelDisconnectLeads
  <2>3. Begins(Channel, m, ops, sent, next, "", NoData) BY <1>2, <1>3, <1>4, <2>2, Beginning
  <2>4. ChannelMay(m, ops, sent, "", NoData)
    BY <2>1 DEF ChannelMay, Sending, ToServer, Create, Channel, User, Client
  <2>5. ~Sending(sent, Channel, Create) BY <2>1 DEF Sending, Create
  <2>6. Socket' BY <1>12, <2>1, <2>3, <2>5, ChannelKeepsSocket
  <2> QED BY <2>3, <2>4, <2>6, ChannelPreserves
<1>13. attempt = "refused" => Channel_Connect_State(attempt) = <<>>
  BY DEF Channel_Connect_State
<1> QED BY <1>5, <1>6, <1>7, <1>8, <1>9, <1>10, <1>11, <1>12, <1>13, ChannelProcedure

-----------------------------------------------------------------------------
(* Messages of Client: the mailbox of Channel is empty and User's stays.   *)
InDnsRecived == state[Client] = "Client_DNS_Recived"
BusyIn == {"Client_Check_Local_Table", "Client_DNS_Request", "Client_DNS_Recived"}
Led(next) == IF next = "same" THEN state[Client] ELSE next
ClientMay(m, ops, sent, next, buf, val) ==
  /\ \A t : <<User, t>> \in sent =>
       t \in Answer /\ m.type \in Answer /\ InDnsRecived /\ next = "Client_Idle"
  /\ ~Sending(sent, Client, Request) /\ ~Sending(sent, Channel, Create)
  /\ Sending(sent, Client, Driving) =>
       m.type \in Driving /\ ~Sending(sent, Client, Answer) /\ Led(next) # "Client_DNS_Recived"
  /\ Sending(sent, Client, Answer) =>
       /\ buf = "clOut"
       /\ \/ m.type \in Driving /\ ~InDnsRecived
          \/ m.type \in Reply /\ InDnsRecived /\ "StopTimer" \in ops
  /\ Sending(sent, Channel, ToServer) \/ "StartTimer" \in ops =>
       /\ m.type \in Driving /\ ~InDnsRecived /\ Led(next) = "Client_DNS_Recived"
       /\ ~Sending(sent, Client, Answer)
  /\ Led(next) \in BusyIn =>
       \/ state[Client] \in BusyIn /\ buf # "clIn"
       \/ m.type \in Request /\ buf = "clIn" /\ val = m.val
  /\ Led(next) = "Client_DNS_Recived" => InDnsRecived \/ m.type \in Driving
  /\ InDnsRecived => Led(next) = "Client_DNS_Recived" \/ m.type \in Answer
  /\ buf \in {"", "clIn", "clOut"}
  /\ buf = "clOut" /\ segments <= 1 => Good(val, asked)
  /\ {"SendToServer", "CreateThread", "scanf", "print", "FirstStartFlag++"} \cap ops = {}

LEMMA ClientTaken ==
  ASSUME IInv, NEW m, Takes(Client, m)
  PROVE  /\ mbx'[User] = mbx[User] /\ Range(mbx'[Channel]) = {}
         /\ \A K : ~InBox(mbx'[Channel], K) /\ ~Has(Channel, K) /\ OneIn(mbx'[Channel], K)
         /\ \A K : InBox(mbx'[Client], K) => Has(Client, K)
         /\ \A K : m.type \in K => Has(Client, K)
         /\ OneIn(mbx[User], UserTypes) /\ OneIn(mbx'[Client], Driving)
         /\ m.type \in Driving =>
              ~InBox(mbx'[Client], Driving) /\ ~InBox(mbx'[Client], Request)
         /\ timer = "null" => timer' = "null" /\ m.type # "Timer_Expired"
         /\ m.type = "Timer_Expired" => Received
         /\ m.type \in Request => m.val = asked
         /\ OneIn(mbx[Client], Reply) => OneIn(mbx'[Client], Reply)
         /\ OneIn(mbx[Client], Reply) /\ m.type \in Reply => ~InBox(mbx'[Client], Reply)
         /\ Range(mbx'[Client]) \subseteq Range(mbx[Client])
         /\ (Received <=> InDnsRecived) /\ (Busy <=> state[Client] \in BusyIn)
<1>1. /\ Client \in Fsm /\ Channel \in Fsm /\ User \in Fsm
      /\ Client # User /\ Channel # User /\ Channel # Client /\ Channel < Client
  BY DEF Fsm, Client, Channel, User
<1>2. mbx'[User] = mbx[User] /\ Range(mbx'[Channel]) = {} BY <1>1 DEF Takes
<1>3. \A K : ~InBox(mbx'[Channel], K) /\ OneIn(mbx'[Channel], K)
  BY <1>2 DEF InBox, OneIn, Range
<1>4. \A K : ~Has(Channel, K) BY <1>1 DEF Takes
<1>5. /\ \A K : InBox(mbx'[Client], K) => Has(Client, K)
      /\ \A K : m.type \in K => Has(Client, K)
  BY DEF Takes
<1>6. OneIn(mbx[User], UserTypes) /\ OneIn(mbx[Client], Driving)
  BY DEF Takes, IInv, Turn, Drive
<1>7. OneIn(mbx'[Client], Driving) /\ (m.type \in Driving => ~InBox(mbx'[Client], Driving))
  BY <1>6 DEF Takes
<1>8. m.type \in Driving => ~InBox(mbx'[Client], Request)
  BY <1>7 DEF InBox, Request, Driving
<1>9. m \in Range(mbx[Client]) /\ Range(mbx'[Client]) \subseteq Range(mbx[Client])
  BY <1>1 DEF Takes
<1>10. m.type = "Timer_Expired" => timer = "queued"
  BY <1>9 DEF IInv, Expiries, InBox, Expiry
<1>11. timer = "null" => timer' = "null" /\ m.type # "Timer_Expired" BY <1>10 DEF Takes
<1>12. m.type = "Timer_Expired" => Received BY <1>10 DEF Takes, IInv, Drive
<1>13. m.type \in Request => m.val = asked BY <1>9 DEF IInv, Asked
<1>14. /\ OneIn(mbx[Client], Reply) => OneIn(mbx'[Client], Reply)
       /\ OneIn(mbx[Client], Reply) /\ m.type \in Reply => ~InBox(mbx'[Client], Reply)
  BY DEF Takes
<1>15. (Received <=> InDnsRecived) /\ (Busy <=> state[Client] \in BusyIn)
  BY DEF Takes, Received, Busy, InDnsRecived, BusyIn
<1> QED BY <1>2, <1>3, <1>4, <1>5, <1>6, <1>7, <1>8, <1>9, <1>11, <1>12, <1>13, <1>14, <1>15

LEMMA ClientPreserves ==
  ASSUME IInv, NEW m, NEW ops, NEW sent, NEW next, NEW buf, NEW val,
         ClientMay(m, ops, sent, next, buf, val),
         Begins(Client, m, ops, sent, next, buf, val)
  PROVE  IInv'
<1>1. Takes(Client, m) BY DEF Begins
<1>2. /\ mbx'[User] = mbx[User] /\ Range(mbx'[Channel]) = {}
      /\ \A K : ~InBox(mbx'[Channel], K) /\ ~Has(Channel, K) /\ OneIn(mbx'[Channel], K)
      /\ \A K : InBox(mbx'[Client], K) => Has(Client, K)
      /\ \A K : m.type \in K => Has(Client, K)
      /\ OneIn(mbx[User], UserTypes) /\ OneIn(mbx'[Client], Driving)
      /\ m.type \in Driving =>
           ~InBox(mbx'[Client], Driving) /\ ~InBox(mbx'[Client], Request)
      /\ timer = "null" => timer' = "null"
      /\ m.type \in Request => m.val = asked
      /\ OneIn(mbx[Client], Reply) => OneIn(mbx'[Client], Reply)
      /\ OneIn(mbx[Client], Reply) /\ m.type \in Reply => ~InBox(mbx'[Client], Reply)
      /\ Range(mbx'[Client]) \subseteq Range(mbx[Client])
      /\ (Received <=> InDnsRecived) /\ (Busy <=> state[Client] \in BusyIn)
  BY <1>1, ClientTaken
<1>3. /\ Client \in Fsm /\ Channel \in Fsm /\ User \in Fsm
      /\ Client # User /\ Channel # User /\ Channel # Client
  BY DEF Fsm, Client, Channel, User
<1>4. /\ \A op : DoesIn(Ahead', op) <=> op \in ops
      /\ \A g, K : ToSend(Ahead', g, K) <=> Sending(sent, g, K)
      /\ \A g, K : HasIn(mbx'[g], Ahead', g, K) <=> InBox(mbx'[g], K) \/ Sending(sent, g, K)
      /\ FinalState(User)' = FinalState(User) /\ FinalState(Client)' = Led(next)
      /\ FinalState(Channel)' = FinalState(Channel)
      /\ \A b \in BufferId : FinalBuffer(b)' = IF b = buf THEN val ELSE FinalBuffer(b)
      /\ FinalTimer = timer /\ asked' = asked /\ segments' = segments /\ buffer' = buffer
      /\ listener' = listener /\ todo'["listener"] = todo["listener"]
      /\ ~Does("scanf")
  BY <1>1, <1>3 DEF Begins, Takes, Led
<1>5. \A K : (Has(User, K) <=> InBox(mbx[User], K))
  BY <1>1 DEF Takes
<1>6. /\ \A K : Has(User, K)' <=> Has(User, K) \/ Sending(sent, User, K)
      /\ \A K : Has(Client, K)' <=> InBox(mbx'[Client], K) \/ Sending(sent, Client, K)
      /\ \A K : Has(Channel, K)' <=> Sending(sent, Channel, K)
  BY <1>2, <1>4, <1>5 DEF Has
<1>7. /\ Received' <=> Led(next) = "Client_DNS_Recived"
      /\ Busy' <=> Led(next) \in BusyIn
  BY <1>4 DEF Received, Busy, BusyIn
<1>8. \A K : Sending(sent, User, K) => m.type \in Answer /\ InDnsRecived /\ next = "Client_Idle"
  BY DEF Sending, ClientMay
<1>9. Turn'
  <2>1. \A e \in Ahead' : Sends(e, User, UserTypes) =>
          e.type \in Answer /\ Busy
    <3>1. \A e \in Ahead' : Sends(e, User, UserTypes) => <<User, e.type>> \in sent
      BY DEF Sends, Begins
    <3>2. InDnsRecived => Busy BY <1>2 DEF InDnsRecived, BusyIn
    <3> QED BY <3>1, <3>2 DEF ClientMay
  <2>2. Turn BY DEF IInv
  <2>3. \A e \in Ahead' : Sends(e, User, UserTypes) => e.type = UserExpects[FinalState(User)]
    BY <2>1, <2>2 DEF Turn, Answer, Waiting, UserExpects
  <2>4. Sending(sent, User, UserTypes) => ~Has(User, UserTypes) /\ Busy /\ ~Busy'
    <3>1. InDnsRecived => Busy BY <1>2 DEF InDnsRecived, BusyIn
    <3>2. next = "Client_Idle" => ~Busy' BY <1>7 DEF Led, BusyIn
    <3> QED BY <1>8, <2>2, <3>1, <3>2 DEF Turn
  <2>5. Single(mbx'[User], Ahead', User, UserTypes)
    BY <1>2, <1>5, <2>4 DEF Begins
  <2>6. Has(Client, Request)' => Has(Client, Request) /\ m.type \notin Driving
    BY <1>2, <1>6 DEF ClientMay
  <2>7. Busy' => Busy \/ Has(Client, Request) BY <1>2, <1>7 DEF ClientMay
  <2>8. Busy' => Busy \/ m.type \in Driving BY <1>2, <1>7 DEF ClientMay, Request, Driving
  <2>9. Busy' \/ Has(Client, Request)' => ~Has(User, UserTypes)' /\ FinalState(User) = Waiting
    BY <1>6, <2>2, <2>4, <2>6, <2>7 DEF Turn
  <2>10. Has(Client, Request)' => ~Busy' BY <2>2, <2>6, <2>8 DEF Turn
  <2> QED BY <1>2, <1>4, <2>2, <2>3, <2>5, <2>9, <2>10 DEF Turn
<1>10. Drive'
  <2>1. Drive BY DEF IInv
  <2>2. Single(mbx'[Client], Ahead', Client, Driving)
    <3>1. ~(InBox(mbx'[Client], Driving) /\ Sending(sent, Client, Driving))
      BY <1>2 DEF ClientMay
    <3> QED BY <1>2, <3>1 DEF Begins
  <2>3. /\ "StartTimer" \in ops => FinalTimer' = "running"
        /\ "StopTimer" \in ops /\ "StartTimer" \notin ops => FinalTimer' = "null"
        /\ "StopTimer" \notin ops /\ "StartTimer" \notin ops => FinalTimer' = timer'
    BY DEF Begins
  <2>4. timer # "null" => Received BY <1>4, <2>1 DEF Drive
  <2>5. InBox(mbx'[Client], Answer) => ~Has(Client, Driving) /\ timer = "null"
    BY <1>2, <1>4, <2>1 DEF Drive
  <2>6. "StartTimer" \in ops => m.type \in Driving /\ ~Received /\ Received'
    BY <1>2, <1>7 DEF ClientMay
  <2>7. Has(Client, Driving)' => Has(Client, Driving) BY <1>2, <1>6 DEF ClientMay
  <2>8. m.type \in Driving => (Has(Client, Driving)' => Sending(sent, Client, Driving))
    BY <1>2, <1>6
  <2>9. ASSUME Has(Client, Answer)' PROVE ~Has(Client, Driving)' /\ FinalTimer' = "null"
    <3>1. CASE InBox(mbx'[Client], Answer)
      <4>1. ~Has(Client, Driving) /\ timer' = "null" /\ m.type \notin Driving
        BY <1>2, <2>5, <3>1
      <4> QED BY <2>3, <2>6, <2>7, <4>1
    <3>2. CASE Sending(sent, Client, Answer)
      <4>1. /\ ~Sending(sent, Client, Driving) /\ "StartTimer" \notin ops
            /\ \/ m.type \in Driving /\ ~InDnsRecived
               \/ InDnsRecived /\ "StopTimer" \in ops
        BY <3>2 DEF ClientMay
      <4>2. CASE m.type \in Driving /\ ~InDnsRecived
        <5>1. timer' = "null" BY <1>2, <2>4, <4>2
        <5> QED BY <2>3, <2>8, <4>1, <4>2, <5>1
      <4>3. CASE InDnsRecived /\ "StopTimer" \in ops
        <5>1. ~Has(Client, Driving) BY <1>2, <2>1, <4>3 DEF Drive
        <5> QED BY <2>3, <2>7, <4>1, <4>3, <5>1
      <4> QED BY <4>1, <4>2, <4>3
    <3> QED BY <1>6, <2>9, <3>1, <3>2
  <2>10. Received' => ~Has(Client, Driving)'
    <3> SUFFICES ASSUME Received' PROVE ~Has(Client, Driving)' OBVIOUS
    <3>1. ~Sending(sent, Client, Driving) /\ (InDnsRecived \/ m.type \in Driving)
      BY <1>7 DEF ClientMay
    <3>2. CASE InDnsRecived BY <1>2, <2>1, <2>7, <3>2 DEF Drive
    <3>3. CASE m.type \in Driving BY <2>8, <3>1, <3>3
    <3> QED BY <3>1, <3>2, <3>3
  <2>11. FinalTimer' # "null" => Received'
    <3> SUFFICES ASSUME FinalTimer' # "null" PROVE Received' OBVIOUS
    <3>1. CASE "StartTimer" \in ops BY <2>6, <3>1
    <3>2. CASE "StartTimer" \notin ops
      <4>1. timer # "null" BY <1>2, <2>3, <3>2
      <4>2. InDnsRecived /\ ~Has(Client, Answer) BY <1>2, <1>4, <2>1, <2>4, <4>1 DEF Drive
      <4>3. m.type \notin Answer BY <1>2, <4>2
      <4> QED BY <1>7, <4>2, <4>3 DEF ClientMay
    <3> QED BY <3>1, <3>2
  <2>12. Does("StartTimer")' => timer' = "null"
    BY <1>2, <1>4, <2>4, <2>6 DEF Does
  <2>13. ~Does("scanf")' /\ ~Does("print")' BY <1>4 DEF Does, ClientMay
  <2> QED BY <2>2, <2>9, <2>10, <2>11, <2>12, <2>13 DEF Drive
<1>11. ~Connecting' /\ ~Creation' /\ ~Has(Channel, Create)' /\ ~Does("SendToServer")'
       /\ ~Does("CreateThread")' /\ ~Does("scanf")' /\ ~Does("print")'
  BY <1>4, <1>6 DEF Connecting, Creation, Does, ClientMay
<1>12. Socket'
  <2>1. Single(mbx'[Channel], Ahead', Channel, Create) BY <1>2 DEF Begins
  <2>2. FinalFlag' = FinalFlag BY <1>1 DEF Begins, Takes, ClientMay
  <2>3. running' = Client /\ state' = state BY <1>1 DEF Takes
  <2>4. Socket /\ ~Creation
    BY <1>1, <1>2 DEF IInv, Takes, Creation, Connecting
  <2> QED BY <1>3, <1>4, <1>11, <2>1, <2>2, <2>3, <2>4 DEF Socket
<1>13. Has(Client, Answer)' => Has(Client, Answer) \/ Sending(sent, Client, Answer)
  BY <1>2, <1>6
<1>14. Asked'
  <2>1. Asked BY DEF IInv
  <2>2. "user" \in BufferId /\ "clIn" \in BufferId BY DEF BufferId
  <2>3. FinalBuffer("user")' = FinalBuffer("user") BY <1>4, <2>2 DEF ClientMay
  <2>4. Has(User, Request)' => Has(User, Request)
    <3>1. \A t \in Request : t \notin Answer BY DEF Request, Answer
    <3>2. ~Sending(sent, User, Request) BY <3>1 DEF Sending, ClientMay
    <3> QED BY <1>6, <3>2
  <2>5. ~ToSend(Ahead', Client, Request) BY <1>4 DEF ClientMay
  <2>6. Busy' => FinalBuffer("clIn")' = asked
    <3> SUFFICES ASSUME Busy' PROVE FinalBuffer("clIn")' = asked OBVIOUS
    <3>1. CASE state[Client] \in BusyIn /\ buf # "clIn"
      BY <1>2, <1>4, <2>1, <2>2, <3>1 DEF Asked
    <3>2. CASE m.type \in Request /\ buf = "clIn" /\ val = m.val
      BY <1>2, <1>4, <2>2, <3>2
    <3> QED BY <1>7, <3>1, <3>2 DEF ClientMay
  <2>7. Has(Channel, ToServer)' => Received' /\ ~Has(Client, Answer)'
    <3> SUFFICES ASSUME Sending(sent, Channel, ToServer) PROVE Received' /\ ~Has(Client, Answer)'
      BY <1>6
    <3>1. m.type \in Driving /\ Led(next) = "Client_DNS_Recived" /\ ~Sending(sent, Client, Answer)
      BY DEF ClientMay
    <3>2. ~Has(Client, Answer) BY <1>2, <3>1 DEF IInv, Drive
    <3> QED BY <1>7, <1>13, <3>1, <3>2
  <2>8. \A d \in Range(mbx'[Client]) : d.type \in Request => d.val = asked
    BY <1>2, <2>1 DEF Asked
  <2> QED BY <1>2, <1>4, <1>11, <2>1, <2>3, <2>4, <2>5, <2>6, <2>7, <2>8 DEF Asked
<1>15. Replies'
  <2>1. Replies BY DEF IInv
  <2>2. Replying' <=> Replying BY <1>4 DEF Replying
  <2>3. InBox(mbx'[Client], Reply) => InBox(mbx[Client], Reply) BY <1>1, <1>2 DEF Takes
  <2>4. segments \in Nat
    BY DnsClientAssumption DEF IInv, Variables, DnsClientAssumption
  <2>5. ASSUME listener # "none",
               segments = 0 \/ (segments = 1 /\ (Replying \/ InBox(mbx'[Client], Reply)))
        PROVE  Received' /\ ~Has(Client, Answer)' /\ buffer["sent"] = asked
    <3>1. Received /\ ~Has(Client, Answer) /\ buffer["sent"] = asked
      BY <2>1, <2>3, <2>5 DEF Replies
    <3>2. m.type \notin Reply
      <4> SUFFICES ASSUME m.type \in Reply PROVE FALSE OBVIOUS
      <4>1. InBox(mbx[Client], Reply) BY <1>1 DEF Takes
      <4>2. segments = 1 BY <2>1, <2>5, <4>1 DEF Replies
      <4>3. ~Replying /\ OneIn(mbx[Client], Reply) BY <2>1, <4>1, <4>2 DEF Replies
      <4>4. ~InBox(mbx'[Client], Reply) BY <1>2, <4>3
      <4> QED BY <2>5, <4>2, <4>3, <4>4
    <3>3. m.type \notin Answer BY <1>2, <3>1
    <3>4. Received' BY <1>2, <1>7, <3>1, <3>3 DEF ClientMay
    <3>5. ~Sending(sent, Client, Answer) BY <1>2, <3>1, <3>2 DEF ClientMay
    <3> QED BY <1>13, <3>1, <3>4, <3>5
  <2>6. segments = 1 => /\ ~(Replying /\ InBox(mbx'[Client], Reply)) /\ OneIn(mbx'[Client], Reply)
                        /\ \A d \in Range(mbx'[Client]) : d.type \in Reply => d.val = ServerReply(buffer["sent"])
    BY <1>2, <2>1, <2>3 DEF Replies
  <2> QED BY <1>4, <2>1, <2>2, <2>3, <2>5, <2>6 DEF Replies
<1>16. Answers'
  <2>1. Answers BY DEF IInv
  <2>2. "clOut" \in BufferId BY DEF BufferId
  <2>3. FinalBuffer("clOut")' = IF buf = "clOut" THEN val ELSE FinalBuffer("clOut")
    BY <1>4, <2>2
  <2>4. ASSUME segments <= 1, Has(Client, Answer) \/ Sending(sent, Client, Answer)
        PROVE  Good(FinalBuffer("clOut")', asked)
    BY <2>1, <2>3, <2>4 DEF Answers, ClientMay
  <2>5. ToSend(Ahead', User, Answer) => Has(Client, Answer) BY <1>2, <1>4, <1>8
  <2> QED BY <1>2, <1>4, <1>11, <1>13, <2>1, <2>4, <2>5 DEF Answers
<1> QED BY <1>9, <1>10, <1>12, <1>14, <1>15, <1>16 DEF IInv, Begins

LEMMA ClientProcedure ==
  ASSUME NEW m, NEW file, NEW attempt, m.type = "Timer_Expired" => InDnsRecived,
         state[Client] \in {"Client_Idle", "Client_Input_From_User", "Client_Check_Local_Table",
                            "Client_DNS_Request", "Client_DNS_Recived"},
         NEW s, s = Procedure(Client, m, file, attempt)
  PROVE  \/ s = <<>>
         \/ state[Client] = "Client_Idle" /\ s = Client_Idle_State
         \/ /\ state[Client] = "Client_Input_From_User" /\ m.type = "User_To_Client_Data_Sent"
            /\ s = Client_Get_Data_From_User(m)
         \/ /\ state[Client] = "Client_Check_Local_Table" /\ m.type = "Client_Check_Local_Table"
            /\ s = Client_Check_In_Local_Table(file)
         \/ /\ state[Client] = "Client_DNS_Request"
            /\ m.type = "Client_To_Channel_DNS_Request_Sent"
            /\ s = Client_Pass_DNS_Request_To_Channel
         \/ /\ state[Client] = "Client_DNS_Recived"
            /\ m.type = "Channel_To_Client_DNS_Request_Recived"
            /\ s = Client_Get_DNS_Request_From_Channel(m)
         \/ /\ state[Client] = "Client_DNS_Recived"
            /\ m.type = "Client_To_User_Return_Data_Recived"
            /\ s = Client_Pass_DNS_Request_To_Client
<1>1. CASE state[Client] = "Client_Idle"
  <2>1. CASE m.type = "Client_Idle" BY <1>1, <2>1 DEF Procedure
  <2>2. CASE m.type # "Client_Idle" BY <1>1, <2>2 DEF Procedure
  <2> QED BY <2>1, <2>2
<1>2. CASE state[Client] = "Client_Input_From_User"
  <2>1. CASE m.type = "User_To_Client_Data_Sent" BY <1>2, <2>1 DEF Procedure
  <2>2. CASE m.type # "User_To_Client_Data_Sent" BY <1>2, <2>2 DEF Procedure
  <2> QED BY <2>1, <2>2
<1>3. CASE state[Client] = "Client_Check_Local_Table"
  <2>1. CASE m.type = "Client_Check_Local_Table" BY <1>3, <2>1 DEF Procedure
  <2>2. CASE m.type # "Client_Check_Local_Table" BY <1>3, <2>2 DEF Procedure
  <2> QED BY <2>1, <2>2
<1>4. CASE state[Client] = "Client_DNS_Request"
  <2>1. m.type # "Timer_Expired" BY <1>4 DEF InDnsRecived
  <2>2. CASE m.type = "Client_To_Channel_DNS_Request_Sent" BY <1>4, <2>2 DEF Procedure
  <2>3. CASE m.type # "Client_To_Channel_DNS_Request_Sent" BY <1>4, <2>1, <2>3 DEF Procedure
  <2> QED BY <2>2, <2>3
<1>5. CASE state[Client] = "Client_DNS_Recived"
  <2>1. CASE m.type = "Channel_To_Client_DNS_Request_Recived" BY <1>5, <2>1 DEF Procedure
  <2>2. CASE m.type = "Client_To_User_Return_Data_Recived" BY <1>5, <2>2 DEF Procedure
  <2>3. CASE m.type \notin {"Channel_To_Client_DNS_Request_Recived",
                           "Client_To_User_Return_Data_Recived"}
    BY <1>5, <2>3 DEF Procedure
  <2> QED BY <2>1, <2>2, <2>3
<1> QED BY <1>1, <1>2, <1>3, <1>4, <1>5

LEMMA ClientDispatch ==
  ASSUME IInv, Dispatch(Client)
  PROVE  IInv'
<1>1. PICK m : m = Head(mbx[Client]) OBVIOUS
<1>2. Client \in Fsm BY DEF Fsm
<1>3. Takes(Client, m) BY <1>1, <1>2, Taken
<1>4. PICK s : s = todo'["system"] OBVIOUS
<1>5. PICK file \in Files, attempt \in Attempt : s = Procedure(Client, m, file, attempt)
  <2>1. "system" \in Thread /\ todo = [t \in Thread |-> todo[t]] BY DEF Thread, IInv, Variables
  <2> QED BY <1>1, <1>4, <2>1 DEF Dispatch
<1>6. state[Client] \in {"Client_Idle", "Client_Input_From_User", "Client_Check_Local_Table",
                         "Client_DNS_Request", "Client_DNS_Recived"}
  <2>1. state[Client] \in StateOf[Client] BY <1>2 DEF IInv, Variables
  <2> QED BY <2>1 DEF StateOf, Fsm, User, Client, Channel
<1>7. m.type = "Timer_Expired" => InDnsRecived BY <1>3, ClientTaken
<1>8. CASE s = <<>>
  <2>1. PICK ops, sent, next :
          /\ ops = {} /\ next = "same"
          /\ sent = {}
    OBVIOUS
  <2>2. Leads(s, Client, ops, sent, next, "", NoData) BY <1>8, <2>1, NothingLeads
  <2>3. Begins(Client, m, ops, sent, next, "", NoData) BY <1>2, <1>3, <1>4, <2>2, Beginning
  <2>5. ClientMay(m, ops, sent, next, "", NoData)
    BY <1>8, <2>1
       DEF ClientMay, Sending, Led, InDnsRecived, BusyIn, Answer, Request, Reply, Driving,
           ToServer, Create, User, Client, Channel
  <2> QED BY <2>3, <2>5, ClientPreserves
<1>9. CASE state[Client] = "Client_Idle" /\ s = Client_Idle_State
  <2>1. PICK ops, sent, next :
          /\ ops = {"state"} /\ next = "Client_Input_From_User"
          /\ sent = {}
    OBVIOUS
  <2>2. Leads(s, Client, ops, sent, next, "", NoData) BY <1>9, <2>1, ClientIdleLeads
  <2>3. Begins(Client, m, ops, sent, next, "", NoData) BY <1>2, <1>3, <1>4, <2>2, Beginning
  <2>5. ClientMay(m, ops, sent, next, "", NoData)
    BY <1>9, <2>1
       DEF ClientMay, Sending, Led, InDnsRecived, BusyIn, Answer, Request, Reply, Driving,
           ToServer, Create, User, Client, Channel
  <2> QED BY <2>3, <2>5, ClientPreserves
<1>10. CASE /\ state[Client] = "Client_Input_From_User" /\ m.type = "User_To_Client_Data_Sent"
            /\ s = Client_Get_Data_From_User(m)
  <2>1. PICK ops, sent, next :
          /\ ops = {"store", "send", "state"} /\ next = "Client_Check_Local_Table"
          /\ sent = {<<Client, "Client_Check_Local_Table">>}
    OBVIOUS
  <2>2. Leads(s, Client, ops, sent, next, "clIn", m.val) BY <1>10, <2>1, ClientGetLeads
  <2>3. Begins(Client, m, ops, sent, next, "clIn", m.val) BY <1>2, <1>3, <1>4, <2>2, Beginning
  <2>5. ClientMay(m, ops, sent, next, "clIn", m.val)
    BY <1>10, <2>1
       DEF ClientMay, Sending, Led, InDnsRecived, BusyIn, Answer, Request, Reply, Driving,
           ToServer, Create, User, Client, Channel
  <2> QED BY <2>3, <2>5, ClientPreserves
<1>11. CASE /\ state[Client] = "Client_Check_Local_Table" /\ m.type = "Client_Check_Local_Table"
            /\ s = Client_Check_In_Local_Table(file) /\ Found(file)
  <2>1. PICK ops, sent, next :
          /\ ops = {"store", "send", "state"} /\ next = "Client_DNS_Recived"
          /\ sent = {<<Client, "Client_To_User_Return_Data_Recived">>}
    OBVIOUS
  <2>2. Leads(s, Client, ops, sent, next, "clOut", LocalAnswer(file)) BY <1>11, <2>1, ClientFoundLeads
  <2>3. Begins(Client, m, ops, sent, next, "clOut", LocalAnswer(file)) BY <1>2, <1>3, <1>4, <2>2, Beginning
  <2>4. Good(LocalAnswer(file), asked) BY <1>5, <1>11 DEF Good
  <2>5. ClientMay(m, ops, sent, next, "clOut", LocalAnswer(file))
    BY <1>11, <2>1, <2>4
       DEF ClientMay, Sending, Led, InDnsRecived, BusyIn, Answer, Request, Reply, Driving,
           ToServer, Create, User, Client, Channel
  <2> QED BY <2>3, <2>5, ClientPreserves
<1>12. CASE /\ state[Client] = "Client_Check_Local_Table" /\ m.type = "Client_Check_Local_Table"
            /\ s = Client_Check_In_Local_Table(file) /\ ~Found(file)
  <2>1. PICK ops, sent, next :
          /\ ops = {"send", "state"} /\ next = "Client_DNS_Request"
          /\ sent = {<<Client, "Client_To_Channel_DNS_Request_Sent">>}
    OBVIOUS
  <2>2. Leads(s, Client, ops, sent, next, "", NoData) BY <1>12, <2>1, ClientNotFoundLeads
  <2>3. Begins(Client, m, ops, sent, next, "", NoData) BY <1>2, <1>3, <1>4, <2>2, Beginning
  <2>5. ClientMay(m, ops, sent, next, "", NoData)
    BY <1>12, <2>1
       DEF ClientMay, Sending, Led, InDnsRecived, BusyIn, Answer, Request, Reply, Driving,
           ToServer, Create, User, Client, Channel
  <2> QED BY <2>3, <2>5, ClientPreserves
<1>13. CASE /\ state[Client] = "Client_DNS_Request"
            /\ m.type = "Client_To_Channel_DNS_Request_Sent"
            /\ s = Client_Pass_DNS_Request_To_Channel
  <2>1. PICK ops, sent, next :
          /\ ops = {"send", "StartTimer", "state"} /\ next = "Client_DNS_Recived"
          /\ sent = {<<Channel, "Client_To_Channel_DNS_Request_Sent">>}
    OBVIOUS
  <2>2. Leads(s, Client, ops, sent, next, "", NoData) BY <1>13, <2>1, ClientRequestLeads
  <2>3. Begins(Client, m, ops, sent, next, "", NoData) BY <1>2, <1>3, <1>4, <2>2, Beginning
  <2>5. ClientMay(m, ops, sent, next, "", NoData)
    BY <1>13, <2>1
       DEF ClientMay, Sending, Led, InDnsRecived, BusyIn, Answer, Request, Reply, Driving,
           ToServer, Create, User, Client, Channel
  <2> QED BY <2>3, <2>5, ClientPreserves
<1>14. CASE /\ state[Client] = "Client_DNS_Recived"
            /\ m.type = "Channel_To_Client_DNS_Request_Recived"
            /\ s = Client_Get_DNS_Request_From_Channel(m)
  <2>1. PICK ops, sent, next :
          /\ ops = {"StopTimer", "store", "send"} /\ next = "same"
          /\ sent = {<<Client, "Client_To_User_Return_Data_Recived">>}
    OBVIOUS
  <2>2. Leads(s, Client, ops, sent, next, "clOut", m.val) BY <1>14, <2>1, ClientReplyLeads
  <2>3. Begins(Client, m, ops, sent, next, "clOut", m.val) BY <1>2, <1>3, <1>4, <2>2, Beginning
  <2>4. segments <= 1 => Good(m.val, asked)
    <3>1. m \in Range(mbx[Client]) /\ m.type \in Reply BY <1>3, <1>14 DEF Takes, Reply
    <3>2. InBox(mbx[Client], Reply) BY <3>1 DEF InBox
    <3>3. segments \in Nat /\ listener \in {"none", "recv", "sleep", "done"}
      BY DnsClientAssumption DEF IInv, Variables, DnsClientAssumption
    <3>4. segments # 0 BY <3>2 DEF IInv, Replies
    <3>5. listener # "none" BY <3>4 DEF IInv, Socket
    <3>6. segments = 1 => m.val = ServerReply(buffer["sent"]) /\ buffer["sent"] = asked
      BY <3>1, <3>2, <3>5 DEF IInv, Replies
    <3> QED BY <3>3, <3>4, <3>6 DEF Good
  <2>5. ClientMay(m, ops, sent, next, "clOut", m.val)
    BY <1>14, <2>1, <2>4
       DEF ClientMay, Sending, Led, InDnsRecived, BusyIn, Answer, Request, Reply, Driving,
           ToServer, Create, User, Client, Channel
  <2> QED BY <2>3, <2>5, ClientPreserves
<1>15. CASE /\ state[Client] = "Client_DNS_Recived"
            /\ m.type = "Client_To_User_Return_Data_Recived"
            /\ s = Client_Pass_DNS_Request_To_Client
  <2>1. PICK ops, sent, next :
          /\ ops = {"send", "state"} /\ next = "Client_Idle"
          /\ sent = {<<User, "Client_To_User_Return_Data_Recived">>}
    OBVIOUS
  <2>2. Leads(s, Client, ops, sent, next, "", NoData) BY <1>15, <2>1, ClientPassLeads
  <2>3. Begins(Client, m, ops, sent, next, "", NoData) BY <1>2, <1>3, <1>4, <2>2, Beginning
  <2>5. ClientMay(m, ops, sent, next, "", NoData)
    BY <1>15, <2>1
       DEF ClientMay, Sending, Led, InDnsRecived, BusyIn, Answer, Request, Reply, Driving,
           ToServer, Create, User, Client, Channel
  <2> QED BY <2>3, <2>5, ClientPreserves
<1> QED BY <1>5, <1>6, <1>7, <1>8, <1>9, <1>10, <1>11, <1>12, <1>13, <1>14, <1>15, ClientProcedure

-----------------------------------------------------------------------------
LEMMA InitIInv ==
  ASSUME Init
  PROVE  IInv
<1>1. /\ Channel \in Fsm /\ Client \in Fsm /\ User \in Fsm
      /\ Channel # Client /\ Channel # User /\ Client # User
  BY DEF Fsm, Channel, Client, User
<1>2. /\ state[Channel] = "Channel_Idle" /\ state[Client] = "Client_Idle"
      /\ state[User] = "User_Idle" /\ state = [f \in Fsm |-> state[f]]
  <2>1. state = [f \in Fsm |-> CASE f = Channel -> "Channel_Idle"
                                 [] f = Client  -> "Client_Idle"
                                 [] f = User    -> "User_Idle"]
    BY DEF Init
  <2> QED BY <2>1 DEF Fsm, Channel, Client, User
<1>3. PICK u : u = Msg("User_Idle", NoData) OBVIOUS
<1>4. u.type = "User_Idle" /\ u = Msg(u.type, u.val) BY <1>3 DEF Msg
<1>5. /\ mbx[Channel] = <<>> /\ mbx[Client] = <<>> /\ mbx[User] = <<u>>
      /\ mbx = [f \in Fsm |-> mbx[f]]
  BY <1>1, <1>3 DEF Init
<1>6. todo["system"] = <<>> /\ todo["listener"] = <<>> /\ todo = [t \in Thread |-> todo[t]]
  BY DEF Init, Thread
<1>7. /\ IsSeq(<<u>>) /\ Range(<<u>>) = {u} /\ \A K : OneIn(<<u>>, K)
  <2>1. PICK t : t = <<u>> OBVIOUS
  <2>2. DOMAIN t = {1} /\ t[1] = u BY <2>1
  <2>3. Range(t) = {u} BY <2>2 DEF Range
  <2>4. t \in Seq({u}) BY <2>1
  <2> QED BY <2>1, <2>2, <2>3, <2>4 DEF IsSeq, OneIn
<1>8. /\ IsSeq(<<>>) /\ Range(<<>>) = {} /\ \A K : OneIn(<<>>, K) /\ ~InBox(<<>>, K)
  <2>1. IsSeq(<<>>) /\ Range(<<>>) = {} BY Handler0 DEF Handler
  <2> QED BY <2>1 DEF InBox, OneIn, Range
<1>9. /\ Ahead = {} /\ (\A op : ~Does(op)) /\ \A g, K : ~ToSend(Ahead, g, K)
      /\ \A g, K : Has(g, K) <=> InBox(mbx[g], K)
      /\ \A g, K : Single(mbx[g], Ahead, g, K) <=> OneIn(mbx[g], K)
      /\ (\A g : FinalState(g) = state[g]) /\ \A b : FinalBuffer(b) = buffer[b]
      /\ FinalTimer = timer /\ FinalFlag = flag
  BY <1>6, AtRest
<1>10. Variables
  <2>1. \A f \in Fsm : state[f] \in StateOf[f]
    BY <1>1, <1>2 DEF StateOf, Fsm
  <2>2. \A f \in Fsm : IsSeq(mbx[f]) /\ \A m \in Range(mbx[f]) : m = Msg(m.type, m.val)
    BY <1>4, <1>5, <1>7, <1>8 DEF Fsm
  <2>3. /\ buffer = [b \in BufferId |-> buffer[b]]
        /\ running \in Fsm /\ preparing \in SUBSET Thread /\ flag \in 0 .. 2
        /\ timer \in {"null", "running", "queued", "stale"}
        /\ listener \in {"none", "recv", "sleep", "done"}
        /\ inputs \in 0 .. MaxInputs /\ segments \in 0 .. MaxSegments
        /\ asked \in Name \cup {NoData} /\ halted \in BOOLEAN
    <3>1. /\ buffer = [b \in BufferId |-> NoData] /\ running = User /\ preparing = {} /\ flag = 0
          /\ timer = "null" /\ listener = "none" /\ inputs = 0 /\ segments = 0
          /\ asked = NoData /\ halted = FALSE
      BY Zenon DEF Init
    <3>2. MaxInputs \in Nat /\ MaxSegments \in Nat BY DnsClientAssumption DEF DnsClientAssumption
    <3>3. buffer = [b \in BufferId |-> buffer[b]] BY <3>1
    <3>4. flag \in 0 .. 2 /\ inputs \in 0 .. MaxInputs /\ segments \in 0 .. MaxSegments
      BY <3>1, <3>2
    <3>5. halted \in BOOLEAN BY <3>1, Zenon
    <3>6. /\ running \in Fsm /\ preparing \in SUBSET Thread
          /\ timer \in {"null", "running", "queued", "stale"}
          /\ listener \in {"none", "recv", "sleep", "done"}
          /\ asked \in Name \cup {NoData}
      BY <1>1, <3>1
    <3> QED BY <3>3, <3>4, <3>5, <3>6
  <2> QED BY <1>2, <1>5, <1>6, <2>1, <2>2, <2>3 DEF Variables
<1>11. Effects
  <2>1. SystemEffects(Ahead, running) BY <1>9 DEF SystemEffects, Does
  <2>2. ListenerEffects(todo["listener"]) BY <1>6, <1>8 DEF ListenerEffects, OneReply
  <2> QED BY <1>6, <2>1, <2>2, Handler0 DEF Effects
<1>12. ~Busy /\ ~Received BY <1>2, <1>9 DEF Busy, Received
<1>13. \A K : ~Has(Client, K) /\ ~Has(Channel, K) BY <1>5, <1>8, <1>9
<1>14. timer = "null" /\ flag = 0 /\ listener = "none" /\ segments = 0 /\ running = User
       /\ asked = NoData /\ shown.name = NoData
  BY DEF Init
<1>15. Turn
  <2>1. Range(mbx[User]) = {u} /\ OneIn(mbx[User], UserTypes) BY <1>5, <1>7
  <2>2. UserExpects["User_Idle"] = "User_Idle" BY DEF UserExpects
  <2>3. FinalState(User) = "User_Idle" BY <1>2, <1>9
  <2>4. Single(mbx[User], Ahead, User, UserTypes) BY <2>1, <1>9
  <2> QED BY <1>4, <1>9, <1>12, <1>13, <2>1, <2>2, <2>3, <2>4 DEF Turn
<1>16. Drive BY <1>5, <1>8, <1>9, <1>12, <1>13, <1>14 DEF Drive
<1>17. Expiries BY <1>5, <1>8, <1>14 DEF Expiries
<1>18. Socket
  BY <1>2, <1>6, <1>9, <1>13, <1>14 DEF Socket, Creation, Connecting
<1>19. Asked
  <2>1. ~Has(User, Request)
    <3>1. Range(mbx[User]) = {u} BY <1>5, <1>7
    <3>2. ~InBox(mbx[User], Request) BY <1>4, <3>1 DEF InBox, Request
    <3> QED BY <1>9, <3>2
  <2> QED BY <1>5, <1>8, <1>9, <1>12, <1>13, <2>1 DEF Asked, Creation, Connecting
<1>20. Replies
  BY <1>5, <1>6, <1>8, <1>14 DEF Replies, Replying
<1>21. Answers
  BY <1>4, <1>5, <1>7, <1>9, <1>13 DEF Answers, Answer
<1>22. AnswerIsForTheName BY <1>14 DEF AnswerIsForTheName
<1> QED BY <1>10, <1>11, <1>15, <1>16, <1>17, <1>18, <1>19, <1>20, <1>21, <1>22 DEF IInv

LEMMA StutterIInv ==
  ASSUME IInv, UNCHANGED vars
  PROVE  IInv'
<1>1. /\ mbx' = mbx /\ state' = state /\ todo' = todo /\ running' = running
      /\ preparing' = preparing /\ buffer' = buffer /\ flag' = flag /\ timer' = timer
      /\ listener' = listener /\ inputs' = inputs /\ segments' = segments
      /\ asked' = asked /\ shown' = shown /\ halted' = halted
  BY DEF vars
<1>2. /\ Ahead' = Ahead
      /\ \A op : Does(op)' <=> Does(op)
      /\ \A g, K : Has(g, K)' <=> Has(g, K)
      /\ \A g : FinalState(g)' = FinalState(g)
      /\ \A b : FinalBuffer(b)' = FinalBuffer(b)
      /\ FinalTimer' = FinalTimer /\ FinalFlag' = FinalFlag
  BY <1>1 DEF Ahead, Does, Has, FinalState, FinalBuffer, FinalTimer, FinalFlag
<1>3. (Busy' <=> Busy) /\ (Received' <=> Received) /\ (Replying' <=> Replying)
      /\ (Connecting' <=> Connecting) /\ (Creation' <=> Creation)
  BY <1>1, <1>2 DEF Busy, Received, Replying, Connecting, Creation
<1>4. Variables' BY <1>1 DEF IInv, Variables
<1>5. Effects' BY <1>1, <1>2 DEF IInv, Effects
<1>6. Turn' BY <1>1, <1>2, <1>3 DEF IInv, Turn
<1>7. Drive' BY <1>1, <1>2, <1>3 DEF IInv, Drive
<1>8. Expiries' BY <1>1 DEF IInv, Expiries
<1>9. Socket' BY <1>1, <1>2, <1>3 DEF IInv, Socket
<1>10. Asked' BY <1>1, <1>2, <1>3 DEF IInv, Asked
<1>11. Replies' BY <1>1, <1>2, <1>3 DEF IInv, Replies
<1>12. Answers' BY <1>1, <1>2, <1>3 DEF IInv, Answers
<1>13. AnswerIsForTheName' BY <1>1 DEF IInv, AnswerIsForTheName
<1> QED BY <1>4, <1>5, <1>6, <1>7, <1>8, <1>9, <1>10, <1>11, <1>12, <1>13 DEF IInv

LEMMA NextIInv ==
  ASSUME IInv, [Next]_vars
  PROVE  IInv'
<1>1. CASE \E f \in Fsm : Dispatch(f)
  BY <1>1, UserDispatch, ClientDispatch, ChannelDispatch DEF Fsm
<1>2. CASE \E t \in Thread : ThreadStep(t)
  <2>1. CASE ThreadStep("system") BY <2>1, SystemPreserves DEF SystemMoves
  <2>2. CASE ThreadStep("listener") BY <2>2, OutsideStep DEF OutsideMoves
  <2> QED BY <1>2, <2>1, <2>2 DEF Thread
<1>3. CASE SystemStep BY <1>3, SystemPreserves DEF SystemMoves
<1>4. CASE \E n \in Name : ReadConsole(n) BY <1>4, SystemPreserves DEF SystemMoves
<1>5. CASE TimerExpires \/ Receive \/ SleepOver \/ ServerCloses \/ ReceiveFails
  BY <1>5, OutsideStep DEF OutsideMoves
<1>6. CASE UNCHANGED vars BY <1>6, StutterIInv
<1> QED BY <1>1, <1>2, <1>3, <1>4, <1>5, <1>6 DEF Next

(* The inductive invariant holds in every state the program reaches.       *)
THEOREM Invariance == Spec => []IInv
<1>1. Init => IInv BY InitIInv
<1>2. IInv /\ [Next]_vars => IInv' BY NextIInv
<1> QED BY <1>1, <1>2, PTL DEF Spec

-----------------------------------------------------------------------------
(* The states, mailboxes, timer, listener and counters of the client       *)
(* (ChAuto, ClAuto, UserAuto) keep their types.                            *)
THEOREM TypeCorrect == Spec => []TypeOK
<1>1. IInv => TypeOK
  <2> SUFFICES ASSUME IInv PROVE TypeOK OBVIOUS
  <2>1. ASSUME NEW f \in Fsm, NEW i \in DOMAIN mbx[f] PROVE DOMAIN mbx[f][i] = {"type", "val"}
    <3>1. PICK m : m = mbx[f][i] OBVIOUS
    <3>2. m \in Range(mbx[f]) BY <2>1, <3>1 DEF Range
    <3>3. m = Msg(m.type, m.val) BY <3>2 DEF IInv, Variables
    <3>4. DOMAIN m = {"type", "val"} BY <3>3 DEF Msg
    <3> QED BY <3>1, <3>4
  <2> QED BY <2>1 DEF IInv, Variables, TypeOK
<1> QED BY Invariance, <1>1, PTL

(* User never loses a message to DoNothing and is never driven twice: its  *)
(* mailbox holds at most one message, which its state handles              *)
(* (UserAuto::Initialize), whatever the server, the timer and the user do. *)
THEOREM UserStaysInStep == Spec => []UserInStep
<1>1. IInv => UserInStep
  <2> SUFFICES ASSUME IInv, ~Running(User)
               PROVE  /\ Len(mbx[User]) <= 1
                      /\ \A i \in DOMAIN mbx[User] : mbx[User][i].type = UserExpects[state[User]]
    BY DEF UserInStep
  <2>1. FinalState(User) = state[User]
    <3>1. CASE running # User BY <3>1 DEF FinalState
    <3>2. CASE todo["system"] = <<>> BY <3>2, AtRest
    <3> QED BY <3>1, <3>2 DEF Running
  <2>2. User \in Fsm BY DEF Fsm
  <2>3. PICK q : q = mbx[User] OBVIOUS
  <2>4. \A i \in DOMAIN q : q[i].type = UserExpects[state[User]]
    BY <2>1, <2>3 DEF IInv, Turn, Range
  <2>5. state[User] \in {"User_Idle", "User_Data_Input", "User_To_Client_Data",
                         "Client_To_User_Return_Data"}
    <3>1. state[User] \in StateOf[User] BY <2>2 DEF IInv, Variables
    <3> QED BY <3>1 DEF StateOf, Fsm, User, Client, Channel
  <2>6. UserExpects[state[User]] \in UserTypes BY <2>5 DEF UserExpects, UserTypes
  <2>7. OneIn(q, UserTypes) BY <2>3 DEF IInv, Turn, Single
  <2>8. \A i, j \in DOMAIN q : i = j BY <2>4, <2>6, <2>7 DEF OneIn
  <2>9. Len(q) \in Nat /\ DOMAIN q = 1 .. Len(q)
    <3>1. q \in Seq(Range(q)) BY <2>2, <2>3 DEF IInv, Variables, IsSeq
    <3> QED BY <3>1
  <2>10. Len(q) <= 1
    <3> SUFFICES ASSUME Len(q) > 1 PROVE FALSE BY <2>9
    <3>1. 1 \in DOMAIN q /\ 2 \in DOMAIN q BY <2>9
    <3> QED BY <2>8, <3>1
  <2> QED BY <2>3, <2>4, <2>10
<1> QED BY Invariance, <1>1, PTL

(* Client leaves FSM_Client_DNS_Recived only with its timer off, also when *)
(* it expired unhandled, so StartTimer's assertion (fsm.cpp:215) holds at  *)
(* the next request.                                                       *)
THEOREM TimerIsOffElsewhere == Spec => []TimerOnlyWhileWaiting
<1>1. IInv => TimerOnlyWhileWaiting
  <2> SUFFICES ASSUME IInv, timer # "null", ~Running(Client)
               PROVE  state[Client] = "Client_DNS_Recived"
    BY DEF TimerOnlyWhileWaiting
  <2>1. FinalState(Client) = state[Client]
    <3>1. CASE running # Client BY <3>1 DEF FinalState
    <3>2. CASE todo["system"] = <<>> BY <3>2, AtRest
    <3> QED BY <3>1, <3>2 DEF Running
  <2>2. ~DoesIn(Ahead, "StopTimer")
    <3>1. CASE running # Client BY <3>1 DEF IInv, Effects, SystemEffects
    <3>2. CASE todo["system"] = <<>> BY <3>2, AtRest DEF Does
    <3> QED BY <3>1, <3>2 DEF Running
  <2>3. FinalTimer # "null" BY <2>2 DEF FinalTimer, TimerAfter
  <2> QED BY <2>1, <2>3 DEF IInv, Drive, Received
<1> QED BY Invariance, <1>1, PTL

(* The socket's listener thread is created at most once, and what was sent *)
(* on the connection is the name the user waits for (ChAuto.cpp:83).       *)
THEOREM ConnectsOnce == Spec => []OneConnection
<1>1. IInv => OneConnection
  <2> SUFFICES ASSUME IInv, At("system", "CreateThread")
               PROVE  listener = "none" /\ buffer["sent"] = asked
    BY DEF OneConnection
  <2>1. Handler(todo["system"]) /\ todo["system"] # <<>> BY DEF IInv, Effects, At
  <2>2. First \in Ahead /\ \A e \in Ahead : Rank(First.op) <= Rank(e.op)
    BY <2>1, HandlerTail DEF First, Ahead
  <2>3. First.op = "CreateThread" BY DEF At, Effect, First
  <2>4. Does("CreateThread") BY <2>2, <2>3 DEF Does, DoesIn
  <2>5. ~Does("SendToServer")
    <3>1. Rank("CreateThread") = 3 /\ Rank("SendToServer") = 2 BY DEF Rank
    <3> QED BY <2>2, <2>3, <3>1 DEF Does, DoesIn
  <2>6. Creation BY <2>4 DEF Creation, Connecting
  <2> QED BY <2>4, <2>5, <2>6 DEF IInv, Socket, Asked
<1> QED BY Invariance, <1>1, PTL

(* What is printed for a name answers that name, as long as the server has *)
(* sent a single segment: it is the server's reply to it or the answer     *)
(* found in table.txt.                                                     *)
THEOREM AnswersAreRight == Spec => []AnswerIsForTheName
<1>1. IInv => AnswerIsForTheName BY DEF IInv
<1> QED BY Invariance, <1>1, PTL
=============================================================================
