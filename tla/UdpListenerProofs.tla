-------------------------- MODULE UdpListenerProofs --------------------------
(***************************************************************************)
(* What holds of a datagram automate for any number of threads and any     *)
(* datagram lengths.  The inductive invariant adds to TypeOK and           *)
(* NoSocketLeaks where the shared length is at each point of Work.         *)
(***************************************************************************)
EXTENDS UdpListener, TLAPS

(* As long as no two threads have run at the same time, at most one runs.  *)
Alone == ~together => \A t, u \in Running : t = u

(* Then, while it works, the shared length is that of its message or the   *)
(* error, and the error does not get past the copy.                        *)
LengthInWork ==
  (~together /\ ~crashed) => \A t \in Thread :
    /\ thread[t].pc \in {"work", "copy"} => receivedMessageLength \in {thread[t].own, SocketError}
    /\ thread[t].pc = "copy" => thread[t].size = receivedMessageLength
    /\ thread[t].pc = "send" =>
         {thread[t].size, thread[t].copied, receivedMessageLength} = {thread[t].own}

Record == [of : Listener, pc : Alive \cup {"none", "ended"}, on : Nat,
           own : Length, size : Length, copied : Length]

(* The actions of the automate, and a step of one thread.                  *)
AutomateStep ==
  \/ \E l \in Listener : ListenFails(l) \/ \E t \in Thread : StartToListen(l, t)
  \/ SetListening \/ StopListening \/ Stopped
  \/ StopListeningMulticast \/ Disconnect \/ SendToUDPMulticastFails

-----------------------------------------------------------------------------
(* The fields keep their types: constructor, automate and threads.         *)
LEMMA TypeInit == Init => TypeOK
<1> SUFFICES ASSUME Init PROVE TypeOK
  OBVIOUS
<1> USE DEF Init, None
<1>1. thread \in [Thread -> [of : Listener, pc : Alive \cup {"none", "ended"}, on : Nat,
                             own : Length, size : Length, copied : Length]]
  BY DEF NoThread, Listener, Alive, Length
<1>2. made \in Nat /\ sock \in [Listener -> 0 .. made] /\ bound \subseteq 1 .. made
  OBVIOUS
<1>3. \A l, m \in Listener : sock[l] # None /\ sock[l] = sock[m] => l = m
  OBVIOUS
<1>4. handle \in [Listener -> Thread \cup {None}]
  OBVIOUS
<1>5. \A l \in Listener : handle[l] # None => thread[handle[l]].pc # "none"
  OBVIOUS
<1> QED BY <1>1, <1>2, <1>3, <1>4, <1>5 DEF TypeOK, Length

LEMMA TypeListenFails ==
  ASSUME TypeOK, NEW l \in Listener, ListenFails(l) PROVE TypeOK'
  BY DEF TypeOK, ListenFails, Store, Length, None

LEMMA TypeStart ==
  ASSUME TypeOK, NEW l \in Listener, NEW t \in Thread, StartToListen(l, t)
  PROVE  TypeOK'
<1> USE DEF TypeOK, StartToListen, NoThread, None, Length
<1>1. made' \in Nat /\ sock' \in [Listener -> 0 .. made'] /\ bound' \subseteq 1 .. made'
  BY DEF Store
<1>2. \A k, m \in Listener : sock'[k] # None /\ sock'[k] = sock'[m] => k = m
  BY DEF Store
<1>3. thread' \in [Thread -> [of : Listener, pc : Alive \cup {"none", "ended"}, on : Nat,
                              own : Length, size : Length, copied : Length]]
  <2> DEFINE r == [NoThread EXCEPT !.of = l, !.pc = "test"]
  <2>1. r \in [of : Listener, pc : Alive \cup {"none", "ended"}, on : Nat,
                own : Length, size : Length, copied : Length]
    BY DEF Alive
  <2>2. thread' = [thread EXCEPT ![t] = r]
    OBVIOUS
  <2> HIDE DEF r
  <2> QED BY <2>1, <2>2
<1>4. handle' \in [Listener -> Thread \cup {None}]
  OBVIOUS
<1>5. \A k \in Listener : handle'[k] # None => thread'[handle'[k]].pc # "none"
  BY DEF Thread
<1> QED BY <1>1, <1>2, <1>3, <1>4, <1>5 DEF Listener

LEMMA TypeClose == ASSUME TypeOK, CloseListen
                   PROVE  /\ sock' \in [Listener -> 0 .. made] /\ bound' \subseteq 1 .. made
                          /\ \A l, m \in Listener : sock'[l] # None /\ sock'[l] = sock'[m] => l = m
<1> USE DEF TypeOK, CloseListen, None
<1>1. sock' \in [Listener -> 0 .. made]
  OBVIOUS
<1>2. bound' \subseteq 1 .. made
  OBVIOUS
<1>3. \A l, m \in Listener : sock'[l] # None /\ sock'[l] = sock'[m] => l = m
  OBVIOUS
<1> QED BY <1>1, <1>2, <1>3

LEMMA TypeAutomate == ASSUME TypeOK, AutomateStep PROVE TypeOK'
<1>1. CASE \E l \in Listener : ListenFails(l)
  BY <1>1, TypeListenFails
<1>2. CASE \E l \in Listener, t \in Thread : StartToListen(l, t)
  BY <1>2, TypeStart
<1>3. CASE SetListening
  BY <1>3 DEF TypeOK, SetListening, netVars, Length
<1>4. CASE StopListening
  BY <1>4, TypeClose DEF TypeOK, StopListening, CloseForStop, Length
<1>5. CASE Stopped
  BY <1>5 DEF TypeOK, Stopped, netVars, Length
<1>6. CASE StopListeningMulticast
  <2>1. sock' \in [Listener -> 0 .. made] /\ "multicast" \in Listener
    BY <1>6 DEF TypeOK, StopListeningMulticast, None, Listener
  <2>2. \A l, m \in Listener : sock'[l] # None /\ sock'[l] = sock'[m] => l = m
    BY <1>6 DEF TypeOK, StopListeningMulticast, None
  <2>3. /\ handle' \in [Listener -> Thread \cup {None}]
        /\ \A l \in Listener : handle'[l] # None => thread'[handle'[l]].pc # "none"
    BY <1>6, <2>1 DEF TypeOK, StopListeningMulticast, None
  <2>4. listening' \in [Listener -> BOOLEAN]
    BY <1>6 DEF TypeOK, StopListeningMulticast
  <2> QED BY <1>6, <2>1, <2>2, <2>3, <2>4 DEF TypeOK, StopListeningMulticast, Length
<1>7. CASE Disconnect
  BY <1>7, TypeClose DEF TypeOK, Disconnect, Length
<1>8. CASE SendToUDPMulticastFails
  BY <1>8 DEF TypeOK, SendToUDPMulticastFails, Length
<1> QED BY <1>1, <1>2, <1>3, <1>4, <1>5, <1>6, <1>7, <1>8 DEF AutomateStep

LEMMA TypeThread ==
  ASSUME TypeOK, NEW t \in Thread, NEW r \in Record, r.pc # "none",
         thread' = [thread EXCEPT ![t] = r],
         UNCHANGED <<listening, netVars, automate, together>>,
         receivedMessageLength' \in Length, crashed' \in BOOLEAN
  PROVE  TypeOK'
<1> USE DEF TypeOK, netVars
<1>1. thread' \in [Thread -> Record]
  BY DEF Record
<1>2. \A l \in Listener : handle'[l] # None => thread'[handle'[l]].pc # "none"
  OBVIOUS
<1> QED BY <1>1, <1>2 DEF Record

LEMMA TypeListen == ASSUME TypeOK, NEW t \in Thread, Listen(t) PROVE TypeOK'
<1> DEFINE th == thread[t]
<1> USE DEF ThreadStep
<1>0. /\ th \in Record /\ receivedMessageLength \in Length /\ crashed \in BOOLEAN
      /\ 0 \in Length /\ SocketError \in Length /\ Sizes \subseteq Length
      /\ \A l \in Listener : sock[l] \in Nat
  BY DEF TypeOK, Record, Length
<1>1. CASE Test(t)
  <2> DEFINE r == IF listening[th.of] THEN [th EXCEPT !.pc = "call"]
                                      ELSE [NoThread EXCEPT !.pc = "ended"]
  <2>1. r \in Record /\ r.pc # "none"
    BY <1>0 DEF Record, NoThread, Alive, Listener, None
  <2> QED BY <1>0, <1>1, <2>1, TypeThread DEF Test, TypeOK
<1>2. CASE Call(t)
  <2> DEFINE r == [th EXCEPT !.pc = "recv", !.on = sock[th.of]]
  <2>1. r \in Record /\ r.pc # "none"
    BY <1>0 DEF Record, Alive
  <2>2. thread' = [thread EXCEPT ![t] = r]
    BY <1>2 DEF Call, TypeOK
  <2> QED BY <1>0, <1>2, <2>1, <2>2, TypeThread DEF Call
<1>3. ASSUME NEW ret \in Length, NEW own \in Length, Returns(t, ret, own),
             UNCHANGED <<listening, netVars, automate, together, crashed>>
      PROVE  TypeOK'
  <2> DEFINE r == [th EXCEPT !.pc = "work", !.on = None, !.own = own]
  <2>1. r \in Record /\ r.pc # "none"
    BY <1>0 DEF Record, Alive, None
  <2>2. thread' = [thread EXCEPT ![t] = r]
    BY <1>3 DEF Returns, TypeOK
  <2> QED BY <1>0, <1>3, <2>1, <2>2, TypeThread DEF Returns
<1>4. CASE Read(t)
  BY <1>0, <1>3, <1>4 DEF Read
<1>5. CASE ReadFails(t)
  BY <1>0, <1>3, <1>5 DEF ReadFails, ErrorLength
<1>6. CASE WorkGetBuffer(t)
  <2> DEFINE r == [th EXCEPT !.pc = "copy", !.size = receivedMessageLength]
  <2>1. r \in Record /\ r.pc # "none"
    BY <1>0 DEF Record, Alive
  <2>2. thread' = [thread EXCEPT ![t] = r]
    BY <1>6 DEF WorkGetBuffer, TypeOK
  <2> QED BY <1>0, <1>6, <2>1, <2>2, TypeThread DEF WorkGetBuffer
<1>7. CASE WorkCopy(t)
  <2> DEFINE r == [th EXCEPT !.pc = "send", !.copied = receivedMessageLength]
  <2>1. r \in Record /\ r.pc # "none"
    BY <1>0 DEF Record, Alive
  <2>2. thread' = [thread EXCEPT ![t] = r]
    BY <1>7 DEF WorkCopy, TypeOK
  <2>3. crashed' \in BOOLEAN
    BY <1>7 DEF WorkCopy
  <2> QED BY <1>0, <1>7, <2>1, <2>2, <2>3, TypeThread DEF WorkCopy
<1>8. CASE WorkSend(t)
  <2> DEFINE r == [NoThread EXCEPT !.of = th.of, !.pc = "test"]
  <2>1. r \in Record /\ r.pc # "none"
    BY <1>0 DEF Record, NoThread, Alive, None
  <2>2. thread' = [thread EXCEPT ![t] = r]
    BY <1>8 DEF WorkSend, TypeOK
  <2> QED BY <1>0, <1>8, <2>1, <2>2, TypeThread DEF WorkSend
<1> QED BY <1>1, <1>2, <1>4, <1>5, <1>6, <1>7, <1>8 DEF Listen

LEMMA TypeStep == ASSUME TypeOK, [Next]_vars PROVE TypeOK'
<1>1. CASE AutomateStep
  BY <1>1, TypeAutomate
<1>2. CASE \E t \in Thread : Listen(t)
  BY <1>2, TypeListen
<1>3. CASE UNCHANGED vars
  BY <1>3 DEF TypeOK, vars, Length
<1> QED BY <1>1, <1>2, <1>3 DEF Next, AutomateStep

(* The fields of UdpFSM and its threads always have their types.           *)
THEOREM TypeCorrect == Spec => []TypeOK
  BY TypeInit, TypeStep, PTL DEF Spec

-----------------------------------------------------------------------------
(* No sequence of starts, failures and stops leaves a socket open that the *)
(* automate does not know any more (listen, closeListen).                  *)
LEMMA LeaksStep == ASSUME TypeOK, NoSocketLeaks, [Next]_vars PROVE NoSocketLeaks'
<1> USE DEF NoSocketLeaks
<1>1. \A b \in bound : b # None
  BY DEF TypeOK, None
<1>2. ASSUME NEW l \in Listener, sock[l] = None, sock' = Store(l, made + 1),
             bound' \subseteq bound \cup {made + 1}
      PROVE  NoSocketLeaks'
  <2>1. sock'[l] = made + 1 /\ \A m \in Listener \ {l} : sock'[m] = sock[m]
    BY <1>2 DEF Store, TypeOK
  <2> QED BY <1>1, <1>2, <2>1
<1>3. ASSUME NEW l \in Listener, ListenFails(l) PROVE NoSocketLeaks'
  BY <1>2, <1>3 DEF ListenFails
<1>4. ASSUME NEW l \in Listener, NEW t \in Thread, StartToListen(l, t) PROVE NoSocketLeaks'
  BY <1>2, <1>4 DEF StartToListen
<1>5. ASSUME CloseListen PROVE NoSocketLeaks'
  BY <1>5 DEF CloseListen
<1>6. CASE StopListeningMulticast
  <2>1. \A m \in Listener : sock'[m] = sock[m] \/ sock[m] = sock["multicast"]
    BY <1>6 DEF StopListeningMulticast, TypeOK
  <2> QED BY <1>6, <2>1 DEF StopListeningMulticast
<1>7. ASSUME UNCHANGED sock, bound' \subseteq bound PROVE NoSocketLeaks'
  BY <1>7
<1>8. CASE \E t \in Thread : Listen(t)
  BY <1>7, <1>8 DEF Listen, Test, Call, Read, ReadFails, WorkGetBuffer, WorkCopy, WorkSend,
                    ThreadStep, netVars
<1>9. CASE SetListening \/ Stopped \/ SendToUDPMulticastFails \/ UNCHANGED vars
  BY <1>7, <1>9 DEF SetListening, Stopped, SendToUDPMulticastFails, netVars, vars
<1> QED BY <1>3, <1>4, <1>5, <1>6, <1>8, <1>9
        DEF Next, StopListening, CloseForStop, Disconnect

THEOREM NoSocketIsLost == Spec => []NoSocketLeaks
<1>1. Init => NoSocketLeaks
  BY DEF Init, NoSocketLeaks
<1> QED BY <1>1, LeaksStep, TypeCorrect, PTL DEF Spec

-----------------------------------------------------------------------------
(* What one thread does to the others: nothing, but to the shared length.  *)
LEMMA ThreadsStep ==
  ASSUME TypeOK, NEW t \in Thread, Listen(t)
  PROVE  /\ \A u \in Thread \ {t} : thread'[u] = thread[u]
         /\ t \in Running /\ together' = together /\ ~crashed
  BY DEF TypeOK, Listen, Test, Call, Read, ReadFails, Returns, WorkGetBuffer, WorkCopy, WorkSend,
         ThreadStep, Running, Alive

(* What a step of the automate does to the threads: it creates one at most. *)
LEMMA AutomateThreads ==
  ASSUME TypeOK, AutomateStep \/ UNCHANGED vars
  PROVE  /\ receivedMessageLength' = receivedMessageLength /\ crashed' = crashed
         /\ \/ thread' = thread /\ together' = together
            \/ \E t \in Thread, r \in Record :
                 /\ thread' = [thread EXCEPT ![t] = r] /\ r.pc = "test"
                 /\ together' = (together \/ Running # {})
<1>1. ASSUME NEW l \in Listener, NEW t \in Thread, StartToListen(l, t)
      PROVE  \E r \in Record : thread' = [thread EXCEPT ![t] = r] /\ r.pc = "test"
  <2> DEFINE r == [NoThread EXCEPT !.of = l, !.pc = "test"]
  <2>1. r \in Record
    BY DEF Record, NoThread, Alive, None, Length
  <2>2. r.pc = "test" /\ thread' = [thread EXCEPT ![t] = r]
    BY <1>1 DEF StartToListen, NoThread
  <2> QED BY <2>1, <2>2
<1>2. CASE \E l \in Listener, t \in Thread : StartToListen(l, t)
  <2>1. PICK l \in Listener, t \in Thread : StartToListen(l, t)
    BY <1>2
  <2>2. PICK r \in Record : thread' = [thread EXCEPT ![t] = r] /\ r.pc = "test"
    BY <1>1, <2>1
  <2>3. /\ receivedMessageLength' = receivedMessageLength /\ crashed' = crashed
        /\ together' = (together \/ Running # {})
    BY <2>1 DEF StartToListen
  <2> QED BY <2>2, <2>3
<1>3. CASE \E l \in Listener : ListenFails(l)
  BY <1>3 DEF ListenFails
<1>4. CASE \/ SetListening \/ StopListening \/ Stopped \/ StopListeningMulticast \/ Disconnect
           \/ SendToUDPMulticastFails \/ UNCHANGED vars
  BY <1>4 DEF SetListening, StopListening, Stopped, StopListeningMulticast, Disconnect,
              SendToUDPMulticastFails, vars
<1> QED BY <1>2, <1>3, <1>4 DEF AutomateStep

LEMMA AloneStep == ASSUME TypeOK, Alone, [Next]_vars PROVE Alone'
<1>1. CASE AutomateStep \/ UNCHANGED vars
  <2>1. CASE thread' = thread /\ together' = together
    BY <2>1 DEF Alone, Running
  <2>2. ASSUME NEW t \in Thread, NEW r \in Record, thread' = [thread EXCEPT ![t] = r],
               together' = (together \/ Running # {})
        PROVE  Alone'
    BY <2>2 DEF Alone, Running, TypeOK
  <2> QED BY <1>1, <2>1, <2>2, AutomateThreads
<1>2. ASSUME NEW t \in Thread, Listen(t) PROVE Alone'
  BY <1>2, ThreadsStep DEF Alone, Running
<1> QED BY <1>1, <1>2 DEF Next, AutomateStep

(* The thread that steps: read gives it the length, Work passes it on.     *)
LEMMA OwnLengthStep ==
  ASSUME TypeOK, Alone, LengthInWork, NEW t \in Thread, Listen(t)
  PROVE  LengthInWork'
<1> SUFFICES ASSUME ~together', ~crashed', NEW u \in Thread
             PROVE  /\ thread'[u].pc \in {"work", "copy"} =>
                         receivedMessageLength' \in {thread'[u].own, SocketError}
                    /\ thread'[u].pc = "copy" => thread'[u].size = receivedMessageLength'
                    /\ thread'[u].pc = "send" =>
                         {thread'[u].size, thread'[u].copied, receivedMessageLength'}
                           = {thread'[u].own}
  BY DEF LengthInWork
<1>1. t \in Running /\ ~together /\ ~crashed
  BY ThreadsStep
<1>2. CASE u # t
  <2>1. thread'[u] = thread[u] /\ thread[u].pc \notin Alive
    BY <1>1, <1>2, ThreadsStep DEF Alone, Running
  <2> QED BY <2>1 DEF Alive
<1>3. CASE u = t
  <2>1. thread[t] \in Record
    BY DEF TypeOK, Record
  <2>2. CASE Test(t) \/ Call(t) \/ WorkSend(t)
    <3>1. CASE Test(t)
      <4>1. thread'[t].pc \in {"call", "ended"}
        BY <2>1, <3>1 DEF Test, TypeOK, NoThread, Record
      <4> QED BY <1>3, <4>1
    <3>2. CASE Call(t)
      <4>1. thread'[t].pc = "recv"
        BY <2>1, <3>2 DEF Call, TypeOK, Record
      <4> QED BY <1>3, <4>1
    <3>3. CASE WorkSend(t)
      <4>1. thread'[t].pc = "test"
        BY <3>3 DEF WorkSend, TypeOK, NoThread
      <4> QED BY <1>3, <4>1
    <3> QED BY <2>2, <3>1, <3>2, <3>3
  <2>3. CASE Read(t) \/ ReadFails(t)
    BY <1>3, <2>1, <2>3 DEF Read, ReadFails, Returns, ErrorLength, TypeOK, Record
  <2>4. CASE WorkGetBuffer(t)
    BY <1>1, <1>3, <2>1, <2>4 DEF WorkGetBuffer, ThreadStep, LengthInWork, TypeOK, Record
  <2>5. CASE WorkCopy(t)
    <3>1. /\ receivedMessageLength' = receivedMessageLength
          /\ receivedMessageLength # SocketError
          /\ thread[t].size = receivedMessageLength
          /\ thread[t].own = receivedMessageLength
      BY <1>1, <2>5 DEF WorkCopy, ThreadStep, LengthInWork
    <3>2. /\ thread'[t].pc = "send" /\ thread'[t].copied = receivedMessageLength
          /\ thread'[t].size = thread[t].size /\ thread'[t].own = thread[t].own
      BY <2>1, <2>5 DEF WorkCopy, TypeOK, Record
    <3> QED BY <1>3, <3>1, <3>2
  <2> QED BY <2>2, <2>3, <2>4, <2>5 DEF Listen
<1> QED BY <1>2, <1>3

LEMMA LengthStep ==
  ASSUME TypeOK, Alone, LengthInWork, [Next]_vars PROVE LengthInWork'
<1>1. CASE AutomateStep \/ UNCHANGED vars
  <2>1. receivedMessageLength' = receivedMessageLength /\ crashed' = crashed
    BY <1>1, AutomateThreads
  <2>2. CASE thread' = thread /\ together' = together
    BY <2>1, <2>2 DEF LengthInWork
  <2>3. ASSUME NEW t \in Thread, NEW r \in Record, r.pc = "test",
               thread' = [thread EXCEPT ![t] = r],
               together' = (together \/ Running # {})
        PROVE  LengthInWork'
    <3>1. \A u \in Thread : thread'[u] = IF u = t THEN r ELSE thread[u]
      BY <2>3 DEF TypeOK
    <3> QED BY <2>1, <2>3, <3>1 DEF LengthInWork
  <2> QED BY <1>1, <2>2, <2>3, AutomateThreads
<1>2. CASE \E t \in Thread : Listen(t)
  BY <1>2, OwnLengthStep
<1> QED BY <1>1, <1>2 DEF Next, AutomateStep

(* A lone listener hands over every message with its own length, although  *)
(* the length is a field that every listener writes (read, Work).          *)
THEOREM MessagesKeepTheirLength == Spec => []OwnLength
<1>1. Init => Alone /\ LengthInWork
  BY DEF Init, Alone, LengthInWork, Running, NoThread, Alive
<1>2. LengthInWork => OwnLength
  BY DEF LengthInWork, OwnLength
<1> QED BY <1>1, <1>2, AloneStep, LengthStep, TypeCorrect, PTL DEF Spec
=============================================================================
