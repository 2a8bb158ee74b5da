----------------------------- MODULE UdpListener -----------------------------
(***************************************************************************)
(* An automate that receives datagrams (class UdpFSM): a listener for its  *)
(* port and one for multicast, each a thread that reads a socket and hands *)
(* what it read to the automate's mailbox (Work).  The automate starts and *)
(* stops them, and the two threads share the length of the last datagram.  *)
(*                                                                         *)
(* The automate starts the multicast listener only when it is stopped:     *)
(* startToListenMulticast, unlike startToListen, does not test it.         *)
(***************************************************************************)
EXTENDS Integers, FiniteSets

CONSTANTS
  Threads,     \* bound: threads created in a behaviour
  Datagrams,   \* bound: datagrams received in a behaviour
  Sizes        \* lengths of datagrams

ASSUME UdpListenerAssumption ==
  /\ Threads \in Nat /\ Datagrams \in Nat
  /\ Sizes \subseteq Nat

Listener  == {"udp", "multicast"}
Thread    == 1 .. Threads
Socket    == 1 .. Threads + 1   \* one more for a bind that fails
None      == 0
SocketError == -1
Alive     == {"test", "call", "recv", "work", "copy", "send"}

VARIABLES
  listening,  \* listening, listeningMulticast: what the loops test
  sock,       \* sockToListen, sockToListenMulticast
  bound,      \* the sockets that are open and bound
  handle,     \* hThread, hThreadMulticast
  thread,     \* thread[t]: its listener, where it is, the socket it is blocked
              \* on, the length of its message and of its buffer
  receivedMessageLength,
  automate,   \* idle, in startToListen of a listener, or in stopListening
  crashed,
  together,   \* history: two threads have run at the same time
  made,       \* sockets made so far
  arrived     \* datagrams received so far

vars == <<listening, sock, bound, handle, thread, receivedMessageLength, automate,
          crashed, together, made, arrived>>

netVars == <<sock, bound, handle, made>>

NoThread  == [of |-> "udp", pc |-> "none", on |-> None, own |-> 0, size |-> 0, copied |-> 0]

(* The constructor sets sockToListen only; it leaves the flags as they are.*)
Init ==
  /\ listening \in [Listener -> BOOLEAN]
  /\ sock = [l \in Listener |-> None]
  /\ bound = {}
  /\ handle = [l \in Listener |-> None]
  /\ thread = [t \in Thread |-> NoThread]
  /\ receivedMessageLength = 0
  /\ automate = "idle"
  /\ crashed = FALSE /\ together = FALSE
  /\ made = 0 /\ arrived = 0

Running == {t \in Thread : thread[t].pc \in Alive}

-----------------------------------------------------------------------------
(* The automate.                                                           *)

(* Faulty variant: the field of the other listener is overwritten too.     *)
StoreBoth(l, s) == [m \in Listener |-> s]
Store(l, s) == [sock EXCEPT ![l] = s]

(* listen, listenMulticast: when bind fails the socket stays in the field, *)
(* so that the listener cannot be started before it is stopped.            *)
ListenFails(l) ==
  /\ ~crashed /\ automate = "idle" /\ sock[l] = None /\ made < Threads + 1
  /\ made' = made + 1
  /\ sock' = Store(l, made + 1)
  /\ UNCHANGED <<listening, bound, handle, thread, receivedMessageLength, automate,
                 crashed, together, arrived>>

(* startToListen, startToListenMulticast: the thread runs before the flag  *)
(* is set.                                                                 *)
StartToListen(l, t) ==
  /\ ~crashed /\ automate = "idle" /\ sock[l] = None /\ made < Threads + 1
  /\ thread[t] = NoThread /\ \A u \in 1 .. t - 1 : thread[u] # NoThread
  /\ made' = made + 1
  /\ sock' = Store(l, made + 1)
  /\ bound' = bound \cup {made + 1}
  /\ thread' = [thread EXCEPT ![t] = [NoThread EXCEPT !.of = l, !.pc = "test"]]
  /\ handle' = [handle EXCEPT ![l] = t]
  /\ together' = (together \/ Running # {})
  /\ automate' = l
  /\ UNCHANGED <<listening, receivedMessageLength, crashed, arrived>>

SetListening ==
  /\ ~crashed /\ automate \in Listener
  /\ listening' = [listening EXCEPT ![automate] = TRUE]
  /\ automate' = "idle"
  /\ UNCHANGED <<netVars, thread, receivedMessageLength, crashed, together, arrived>>

(* Faulty variant: the fields are cleared but nothing is closed.           *)
ForgetSockets == UNCHANGED bound /\ sock' = [l \in Listener |-> None]
CloseListen ==
  /\ bound' = bound \ {sock[l] : l \in Listener}
  /\ sock' = [l \in Listener |-> None]

(* Faulty variant: stopListening leaves the sockets open.                  *)
LeaveOpen == UNCHANGED <<bound, sock>>
CloseForStop == CloseListen

(* stopListening closes the sockets and then waits for both threads.       *)
StopListening ==
  /\ ~crashed /\ automate = "idle"
  /\ listening' = [l \in Listener |-> FALSE]
  /\ CloseForStop
  /\ automate' = "wait"
  /\ UNCHANGED <<handle, thread, receivedMessageLength, crashed, together, made, arrived>>

Stopped ==
  /\ ~crashed /\ automate = "wait"
  /\ \A l \in Listener : handle[l] # None => thread[handle[l]].pc \notin Alive
  /\ automate' = "idle"
  /\ UNCHANGED <<listening, netVars, thread, receivedMessageLength, crashed, together, arrived>>

(* It does not wait: its thread may see the flag set again.                *)
StopListeningMulticast ==
  /\ ~crashed /\ automate = "idle"
  /\ listening' = [listening EXCEPT !["multicast"] = FALSE]
  /\ handle' = [handle EXCEPT !["multicast"] = None]
  /\ bound' = bound \ {sock["multicast"]}
  /\ sock' = [sock EXCEPT !["multicast"] = None]
  /\ UNCHANGED <<thread, receivedMessageLength, automate, crashed, together, made, arrived>>

Disconnect ==
  /\ ~crashed /\ automate = "idle"
  /\ CloseListen
  /\ UNCHANGED <<listening, handle, thread, receivedMessageLength, automate, crashed,
                 together, made, arrived>>

(* A send that fails closes the socket but keeps it in the field.          *)
SendToUDPMulticastFails ==
  /\ ~crashed /\ automate = "idle" /\ sock["multicast"] \in bound
  /\ bound' = bound \ {sock["multicast"]}
  /\ UNCHANGED <<listening, sock, handle, thread, receivedMessageLength, automate, crashed,
                 together, made, arrived>>

-----------------------------------------------------------------------------
(* The threads, Listener and ListenerMulticast.                            *)
ThreadStep(t, pc) ==
  /\ ~crashed /\ thread[t].pc = pc
  /\ UNCHANGED <<listening, netVars, automate, together>>

Test(t) ==
  /\ ThreadStep(t, "test")
  /\ thread' = [thread EXCEPT ![t] =
       IF listening[@.of] THEN [@ EXCEPT !.pc = "call"] ELSE [NoThread EXCEPT !.pc = "ended"]]
  /\ UNCHANGED <<receivedMessageLength, crashed, arrived>>

Call(t) ==
  /\ ThreadStep(t, "call")
  /\ thread' = [thread EXCEPT ![t].pc = "recv", ![t].on = sock[thread[t].of]]
  /\ UNCHANGED <<receivedMessageLength, crashed, arrived>>

(* read, readMulticast: what recvfrom returns becomes the shared length.   *)
Returns(t, ret, own) ==
  /\ receivedMessageLength' = ret
  /\ thread' = [thread EXCEPT ![t].pc = "work", ![t].on = None, ![t].own = own]

Read(t) ==
  /\ ThreadStep(t, "recv") /\ thread[t].on \in bound /\ arrived < Datagrams
  /\ \E n \in Sizes : Returns(t, n, n)
  /\ arrived' = arrived + 1
  /\ UNCHANGED crashed

(* Faulty variant: the length of the last datagram is kept on an error.    *)
KeepLength == receivedMessageLength
ErrorLength == SocketError

ReadFails(t) ==
  /\ ThreadStep(t, "recv") /\ thread[t].on \notin bound
  /\ Returns(t, ErrorLength, 0)
  /\ UNCHANGED <<crashed, arrived>>

(* Work reads the length for the buffer, for the copy and for the message. *)
(* A copy of SOCKET_ERROR bytes ends the program.  The message then goes   *)
(* to the mailbox, with the length as it is by then.                       *)
WorkGetBuffer(t) ==
  /\ ThreadStep(t, "work")
  /\ thread' = [thread EXCEPT ![t].pc = "copy", ![t].size = receivedMessageLength]
  /\ UNCHANGED <<receivedMessageLength, crashed, arrived>>

WorkCopy(t) ==
  /\ ThreadStep(t, "copy")
  /\ crashed' = (receivedMessageLength = SocketError)
  /\ thread' = [thread EXCEPT ![t].pc = "send", ![t].copied = receivedMessageLength]
  /\ UNCHANGED <<receivedMessageLength, arrived>>

WorkSend(t) ==
  /\ ThreadStep(t, "send")
  /\ thread' = [thread EXCEPT ![t] = [NoThread EXCEPT !.of = thread[t].of, !.pc = "test"]]
  /\ UNCHANGED <<receivedMessageLength, crashed, arrived>>

Listen(t) ==
  \/ Test(t) \/ Call(t) \/ Read(t) \/ ReadFails(t)
  \/ WorkGetBuffer(t) \/ WorkCopy(t) \/ WorkSend(t)

-----------------------------------------------------------------------------
Next ==
  \/ \E l \in Listener : ListenFails(l) \/ \E t \in Thread : StartToListen(l, t)
  \/ SetListening \/ StopListening \/ Stopped
  \/ StopListeningMulticast \/ Disconnect \/ SendToUDPMulticastFails
  \/ \E t \in Thread : Listen(t)

Spec == Init /\ [][Next]_vars

(* The threads run when they can and the automate's call goes on; whether  *)
(* a datagram comes is up to the network.                                  *)
FairSpec ==
  /\ Spec
  /\ WF_vars(SetListening \/ Stopped)
  /\ \A t \in Thread :
       WF_vars(Test(t) \/ Call(t) \/ ReadFails(t)
               \/ WorkGetBuffer(t) \/ WorkCopy(t) \/ WorkSend(t))

-----------------------------------------------------------------------------
Length == Sizes \cup {0, SocketError}

(* Type invariant of the fields of UdpFSM and of its threads.              *)
TypeOK ==
  /\ listening \in [Listener -> BOOLEAN]
  /\ made \in Nat /\ sock \in [Listener -> 0 .. made] /\ bound \subseteq 1 .. made
  /\ \A l, m \in Listener : sock[l] # None /\ sock[l] = sock[m] => l = m
  /\ thread \in [Thread -> [of : Listener, pc : Alive \cup {"none", "ended"}, on : Nat,
                            own : Length, size : Length, copied : Length]]
  /\ handle \in [Listener -> Thread \cup {None}]
  /\ \A l \in Listener : handle[l] # None => thread[handle[l]].pc # "none"
  /\ receivedMessageLength \in Length
  /\ automate \in Listener \cup {"idle", "wait"}
  /\ crashed \in BOOLEAN /\ together \in BOOLEAN

(* A socket that is open is known to the automate, which can close it: no  *)
(* sequence of starts, failures and stops leaks one (listen, closeListen). *)
NoSocketLeaks == bound \subseteq {sock[l] : l \in Listener}

(* As long as two threads have not run at the same time, each message is   *)
(* handed over with its own length, in a buffer of that size, although the *)
(* length is a field of the automate (read, Work).                         *)
OwnLength ==
  \A t \in Thread :
    (thread[t].pc = "send" /\ ~together /\ ~crashed) =>
      {thread[t].size, thread[t].copied, receivedMessageLength} = {thread[t].own}

(* stopListening, which waits without a time limit, returns, unless the    *)
(* program ends: closing the sockets wakes the threads it waits for.       *)
StopReturns == (automate = "wait") ~> (automate # "wait" \/ crashed)
=============================================================================
