------------------------------- MODULE Messages -------------------------------
(***************************************************************************)
(* The messages of an automate: MessageHandler and KernelAPI, which keep   *)
(* the message being processed and the one under construction, the coder   *)
(* (stdMsg_pc8_pl8 or stdMsg_pc16_pl16), which has pointers of its own and *)
(* reads and writes the bytes of a message, and TBuffers, the pool of      *)
(* buffers in classes of different length, each a queue with a lock.       *)
(*                                                                         *)
(* A buffer is a function from offsets behind the message header to cells. *)
(* A number is its value in the first of its cells.  The automate is one   *)
(* thread, so an operation is one step.  Assertions about the order of     *)
(* calls are obligations of the automate and appear as guards.             *)
(***************************************************************************)
EXTENDS Integers, Sequences, FiniteSets, Functions, SequencesExt

CONSTANTS
  Stock,       \* the size classes: [length, buffers], in any order
  Codings,     \* the formats an automate may use
  Param,       \* parameters automates add: [code, data]
  Debug,       \* are assertions active?
  NoBuffer,    \* null pointer
  NoParam,     \* what a search returns when it finds nothing
  NoList, Unknown,
  MaxMail,     \* bound: messages on their way
  MaxParams    \* bound: parameters in a message

MSG_HEADER_LENGTH == 21

(* PARAM_HEADER_LENGTH, PARAM_LENGTH_OFFSET, which is also the width of a  *)
(* number, and what SetENDOfParams adds to the message length.             *)
Pc16 == [header |-> 4, width |-> 2, end |-> 2]
Pc8  == [header |-> 2, width |-> 1, end |-> 2]

Buffer == UNION {Range(Stock[i].buffers) : i \in DOMAIN Stock}

ASSUME MessagesAssumption ==
  /\ Stock \in Seq([length : Nat, buffers : Seq(Buffer)])
  /\ \A i \in DOMAIN Stock : IsInjective(Stock[i].buffers)
  /\ \A i, j \in DOMAIN Stock :
       i # j => /\ Stock[i].length # Stock[j].length
                /\ Range(Stock[i].buffers) \cap Range(Stock[j].buffers) = {}
  /\ NoBuffer \notin Buffer
  /\ Codings \subseteq {Pc8, Pc16}
  /\ Param \subseteq [code : Nat \ {0}, data : Seq(Nat)]
  /\ NoParam \notin Nat /\ Unknown \notin Nat /\ NoList \notin Seq(Param)
  /\ Debug \in BOOLEAN
  /\ MaxMail \in Nat /\ MaxParams \in Nat

(* RemoveParam writes an end marker without looking at the room there is.  *)
ASSUME RoomAssumption == \A i \in DOMAIN Stock : Stock[i].length >= MSG_HEADER_LENGTH + 2

Class   == DOMAIN Stock
ClassOf == [b \in Buffer |-> CHOOSE i \in Class : b \in Range(Stock[i].buffers)]
Length  == [b \in Buffer |-> Stock[ClassOf[b]].length]

ParamCode == {p.code : p \in Param}

(* A cell that was never written since the buffer left the pool.           *)
Junk == -1

VARIABLES
  coding,   \* the format of the automate's messages
  pool,     \* pool[i]: the free buffers of class i, first in first out
  msg,      \* msg[b]: the MSG_LENGTH field and the cells of buffer b
  current,  \* CurrentMessage of the MessageHandler
  new,      \* NewMessage of the MessageHandler
  coder,    \* CurrentMessage, NewMessage of the coder, and CurrentOffset,
            \* or Unknown when it is not from a search in current
  mail,     \* the mailbox the automate's messages go through
  found,    \* history: the offset the last search returned
  locked,   \* classes whose lock was taken and not released
  halted    \* a request for a buffer failed: assertion or exception

vars == <<coding, pool, msg, current, new, coder, mail, found, locked, halted>>

-----------------------------------------------------------------------------
(* TBuffers.                                                               *)

(* The classes are asked in the order of their lengths, by which the       *)
(* constructor sorts them, from the first that is long enough until one    *)
(* has a buffer (__BUFFER_ALLOCATION_VER1__).  GetFromHead of an empty     *)
(* queue returns with the queue's lock taken, which the same thread may    *)
(* take again; where assertions are active, TBufferQue::Get then fails.    *)
Shorter(i, j)     == Stock[i].length < Stock[j].length
Fitting(n)        == {i \in Class : n <= Stock[i].length}
Serving(n, p)     == {i \in Fitting(n) : p[i] # <<>>}
AskedInVain(n, p) ==
  {i \in Fitting(n) : /\ \A j \in Serving(n, p) : Shorter(i, j)
                      /\ Debug => \A j \in Fitting(n) \ {i} : Shorter(i, j)}
CanGet(n, p)      == Serving(n, p) # {} /\ (Debug => AskedInVain(n, p) = {})
Source(n, p)      == CHOOSE i \in Serving(n, p) :
                       \A j \in Serving(n, p) \ {i} : Shorter(i, j)
GetBuffer(n, p)   == Head(p[Source(n, p)])
Without(n, p)     == [p EXCEPT ![Source(n, p)] = Tail(@)]

(* Faulty variant: the buffer goes to the first class.                     *)
RetToFirstClass(b, p) == [p EXCEPT ![1] = Append(@, b)]
RetBuffer(b, p) == [p EXCEPT ![ClassOf[b]] = Append(@, b)]

(* Assertion or exception: the process ends.                               *)
Halt(n, p) == /\ halted' = TRUE
              /\ locked' = locked \cup AskedInVain(n, p)
              /\ UNCHANGED <<coding, pool, msg, current, new, coder, mail, found>>
Run  == ~halted
Quiet == found' = NoParam

-----------------------------------------------------------------------------
(* The bytes of a message: the cells written since its buffer left the     *)
(* pool.  What a buffer contained before does not matter.                  *)
Unwritten == [info |-> Junk, mem |-> <<>>]
Cell(m, i)     == IF i \in DOMAIN m THEN m[i] ELSE Junk
Cells(m, i, n) == [k \in 1 .. n |-> Cell(m, i + k - 1)]
Number(n)      == <<n>> \o [k \in 1 .. coding.width - 1 |-> 0]

Write(m, at, cells) ==
  [i \in DOMAIN m \cup at .. at + Len(cells) - 1 |->
     IF i \in at .. at + Len(cells) - 1 THEN cells[i - at + 1] ELSE m[i]]

Code(m, i) == Cell(m, i)
Size(m, i) == Cell(m, i + coding.width)

Stops(m, i) == Code(m, i) \in {0, Junk} \/ Size(m, i) = Junk

(* The offsets of the parameters from i on, and where the walk ends.       *)
Walk(m, i) ==
  LET from[k \in Int] ==
        IF Stops(m, k) THEN <<k>> ELSE <<k>> \o from[k + Size(m, k) + coding.header]
  IN from[i]
Offsets(m, i) == Front(Walk(m, i))
End(m)        == Last(Walk(m, 0))
Least(S)      == CHOOSE i \in S : \A j \in S : i <= j
ParamAt(m, i) == [code |-> Code(m, i), data |-> Cells(m, i + coding.header, Size(m, i))]

-----------------------------------------------------------------------------
(* The coder.                                                              *)

(* Faulty variant: CurrentOffset is not advanced past the parameter found. *)
FindStays(code, start) ==
  LET m    == msg[coder.current].mem
      hits == {i \in Range(Offsets(m, start)) : Code(m, i) = code}
  IN IF msg[coder.current].info = 0 THEN [at |-> NoParam, offset |-> start]
     ELSE IF hits = {} THEN [at |-> NoParam, offset |-> 0]
     ELSE [at |-> Least(hits), offset |-> Least(hits)]

(* Faulty variant: the header of the parameter found is counted twice.     *)
FindSkips(code, start) ==
  LET m    == msg[coder.current].mem
      hits == {i \in Range(Offsets(m, start)) : Code(m, i) = code}
  IN IF msg[coder.current].info = 0 THEN [at |-> NoParam, offset |-> start]
     ELSE IF hits = {} THEN [at |-> NoParam, offset |-> 0]
     ELSE LET i == Least(hits)
          IN [at |-> i, offset |-> i + Size(m, i) + 2 * coding.header]

(* The first parameter with that code from start on; CurrentOffset is left *)
(* behind it, or 0 when there is none.                                     *)
FindParam(code, start) ==
  LET m    == msg[coder.current].mem
      hits == {i \in Range(Offsets(m, start)) : Code(m, i) = code}
  IN IF msg[coder.current].info = 0 THEN [at |-> NoParam, offset |-> start]
     ELSE IF hits = {} THEN [at |-> NoParam, offset |-> 0]
     ELSE LET i == Least(hits)
          IN [at |-> i, offset |-> i + Size(m, i) + coding.header]

SetENDOfParams(w) == [info |-> w.info + coding.end, mem |-> Write(w.mem, w.info, Number(0))]

(* Where a parameter of that code belongs: in front of the first with a    *)
(* larger code, or at the end marker, which an empty message gets first.   *)
WithEnd(w) == IF w.info = 0 THEN SetENDOfParams(w) ELSE w
FindParamPlace(w, code) ==
  LET m     == WithEnd(w).mem
      after == {i \in Range(Offsets(m, 0)) : Code(m, i) > code}
  IN IF after = {} THEN End(m) ELSE Least(after)

(* stdMsg::AddParam: the rest of the message, with the end marker, moves   *)
(* up.                                                                     *)
InsertParam(w, p) ==
  LET v     == WithEnd(w)
      place == FindParamPlace(w, p.code)
      rest  == Cells(v.mem, place, v.info - place)
  IN [info |-> v.info + Len(p.data) + coding.header,
      mem  |-> Write(v.mem, place, Number(p.code) \o Number(Len(p.data)) \o p.data \o rest)]

-----------------------------------------------------------------------------
(* MessageHandler and KernelAPI.                                           *)
Init ==
  /\ coding \in Codings
  /\ pool = [i \in Class |-> Stock[i].buffers]
  /\ msg = [b \in Buffer |-> Unwritten]
  /\ current = NoBuffer /\ new = NoBuffer
  /\ coder = [current |-> NoBuffer, new |-> NoBuffer, offset |-> Unknown]
  /\ mail = <<>>
  /\ found = NoParam
  /\ locked = {}
  /\ halted = FALSE

(* FiniteStateMachine::Process begins with a message of the mailbox.       *)
ParseMessage ==
  /\ Run /\ current = NoBuffer /\ mail # <<>>
  /\ current' = Head(mail)
  /\ coder' = [coder EXCEPT !.current = Head(mail), !.offset = Unknown]
  /\ mail' = Tail(mail)
  /\ Quiet
  /\ UNCHANGED <<coding, pool, msg, new, locked, halted>>

SetNewMessage(b) == [coder EXCEPT !.new = b]

PrepareNewMessage ==
  /\ Run /\ new = NoBuffer
  /\ IF CanGet(MSG_HEADER_LENGTH, pool)
       THEN LET b == GetBuffer(MSG_HEADER_LENGTH, pool) IN
            /\ new' = b
            /\ pool' = Without(MSG_HEADER_LENGTH, pool)
            /\ msg' = [msg EXCEPT ![b].info = 0]
            /\ coder' = SetNewMessage(b)
            /\ locked' = locked \cup AskedInVain(MSG_HEADER_LENGTH, pool)
            /\ Quiet
            /\ UNCHANGED <<coding, current, mail, halted>>
       ELSE Halt(MSG_HEADER_LENGTH, pool)

(* Faulty variant: the margin leaves no room for the parameter's header.   *)
IsBufferSmallNoMargin(b, len) == Length[b] < msg[b].info + MSG_HEADER_LENGTH + len
(* The test of CheckBufferSize, for a parameter of that length.            *)
IsBufferSmall(b, len) == Length[b] <= msg[b].info + MSG_HEADER_LENGTH + len + 8

Copied(from) == [info |-> msg[from].info,
                 mem  |-> Write(Unwritten.mem, 0, Cells(msg[from].mem, 0, msg[from].info))]

(* AddParam, AddParamByte, AddParamWord, AddParamDWord.  CheckBufferSize   *)
(* first moves a message that has no room to a larger buffer.              *)
AddParam(p) ==
  LET small == IsBufferSmall(new, Len(p.data))
      want  == msg[new].info + MSG_HEADER_LENGTH + Len(p.data) + 10
      b     == IF small THEN GetBuffer(want, pool) ELSE new
      c     == IF small THEN SetNewMessage(b) ELSE coder
      grown == IF small THEN [msg EXCEPT ![b] = Copied(new), ![new] = Unwritten] ELSE msg
  IN
  /\ Run /\ new # NoBuffer
  /\ Len(Offsets(msg[new].mem, 0)) < MaxParams
  /\ IF small => CanGet(want, pool)
       THEN /\ new' = b
            /\ pool' = IF small THEN RetBuffer(new, Without(want, pool)) ELSE pool
            /\ msg' = [grown EXCEPT ![c.new] = InsertParam(@, p)]
            /\ coder' = [c EXCEPT !.offset = Unknown]
            /\ locked' = IF small THEN locked \cup AskedInVain(want, pool) ELSE locked
            /\ Quiet
            /\ UNCHANGED <<coding, current, mail, halted>>
       ELSE Halt(want, pool)

(* RemoveParam: FindParamPlace returns a place with a larger code or the   *)
(* end marker, so the comparison with the code fails and nothing is        *)
(* removed.  An empty message gets its end marker.                         *)
RemoveParam ==
  /\ Run /\ new # NoBuffer
  /\ msg' = [msg EXCEPT ![coder.new] = WithEnd(@)]
  /\ coder' = [coder EXCEPT !.offset = Unknown]
  /\ Quiet
  /\ UNCHANGED <<coding, pool, current, new, mail, locked, halted>>

(* Faulty variant: the message under construction is not given back.       *)
DropNew(p) == p
(* What was under construction is given back before a copy is made.        *)
ReturnNew(p) == IF new = NoBuffer THEN p ELSE RetBuffer(new, p)

(* CopyMessage, and CopyMessageInfo for a message not yet begun, into a    *)
(* buffer just long enough.                                                *)
CopyMessage ==
  LET want == msg[current].info + MSG_HEADER_LENGTH
      left == ReturnNew(pool)
      b    == GetBuffer(want, left)
  IN
  /\ Run /\ current # NoBuffer
  /\ IF CanGet(want, left)
       THEN /\ new' = b
            /\ pool' = Without(want, left)
            /\ coder' = SetNewMessage(b)
            /\ msg' = [a \in Buffer |-> CASE a = b   -> Copied(coder.current)
                                         [] a = new /\ new # b -> Unwritten
                                         [] OTHER   -> msg[a]]
            /\ locked' = locked \cup AskedInVain(want, left)
            /\ Quiet
            /\ UNCHANGED <<coding, current, mail, halted>>
       ELSE Halt(want, left)

(* SendMessage, SendMessageLeft, SendMessageRight, ReturnMsg.  The coder   *)
(* keeps its pointer to the message.                                       *)
SendMessage ==
  /\ Run /\ new # NoBuffer
  /\ Len(mail) < MaxMail
  /\ mail' = Append(mail, new)
  /\ new' = NoBuffer
  /\ Quiet
  /\ UNCHANGED <<coding, pool, msg, current, coder, locked, halted>>

(* The handler returned: ClearMessage gives the message back.              *)
ClearMessage ==
  /\ Run /\ current # NoBuffer
  /\ pool' = RetBuffer(current, pool)
  /\ msg' = [msg EXCEPT ![current] = Unwritten]
  /\ current' = NoBuffer
  /\ coder' = [coder EXCEPT !.offset = Unknown]
  /\ Quiet
  /\ UNCHANGED <<coding, new, mail, locked, halted>>

Find(code, start) ==
  LET f == FindParam(code, start) IN
  /\ found' = f.at
  /\ coder' = [coder EXCEPT !.offset = f.offset]
  /\ UNCHANGED <<coding, pool, msg, current, new, mail, locked, halted>>

GetParam(code) == Run /\ current # NoBuffer /\ Find(code, 0)

(* A caller goes on with a search; CurrentOffset is shared with the        *)
(* message under construction, so adding a parameter ends the search.      *)
GetNextParam(code) ==
  Run /\ current # NoBuffer /\ coder.offset # Unknown /\ Find(code, coder.offset)

Next ==
  \/ ParseMessage \/ PrepareNewMessage \/ CopyMessage \/ SendMessage \/ ClearMessage
  \/ \E p \in Param : AddParam(p)
  \/ RemoveParam
  \/ \E code \in ParamCode : GetParam(code)
  \/ \E code \in ParamCode : GetNextParam(code)

Spec == Init /\ [][Next]_vars

-----------------------------------------------------------------------------
(* Type invariant of the message handler, the coder and the pool.          *)
TypeOK ==
  /\ coding \in Codings
  /\ \A i \in Class : Range(pool[i]) \subseteq Buffer
  /\ \A b \in Buffer : msg[b].info \in Nat \cup {Junk}
  /\ {current, new, coder.current, coder.new} \subseteq Buffer \cup {NoBuffer}
  /\ coder.offset # Unknown => coder.offset \in 0 .. msg[current].info
  /\ Range(mail) \subseteq Buffer
  /\ locked \subseteq Class
  /\ halted \in BOOLEAN

InUse == ({current, new} \ {NoBuffer}) \cup Range(mail)

(* Nothing is written past the end of a buffer (AddParam after             *)
(* CheckBufferSize), and in every message the length field is what a walk  *)
(* over the parameters finds: the end marker is the last number of the     *)
(* message, whatever was inserted, grown, copied and sent.                 *)
WellFormed ==
  \A b \in InUse :
    LET m == msg[b].mem IN
    /\ \A i \in DOMAIN m : i < Length[b] - MSG_HEADER_LENGTH
    /\ msg[b].info # 0 => Code(m, End(m)) = 0 /\ End(m) + coding.end = msg[b].info

(* A buffer is in one place: free in the list of its own class, processed, *)
(* under construction, or on its way.  None is lost and none given back    *)
(* twice (the destructor of TBufferQue asserts that all came back).        *)
EveryBufferOnce ==
  \A b \in Buffer :
    LET free(i) == Cardinality({k \in DOMAIN pool[i] : pool[i][k] = b})
        used == Cardinality({k \in DOMAIN mail : mail[k] = b})
                  + (IF current = b THEN 1 ELSE 0) + (IF new = b THEN 1 ELSE 0)
    IN /\ free(ClassOf[b]) + used = 1
       /\ \A i \in Class \ {ClassOf[b]} : free(i) = 0

(* A class with as many buffers as there can be messages is never asked in *)
(* vain, however messages of other classes grow and take its buffers: no   *)
(* assertion fails for want of its buffers, and its lock is never left     *)
(* taken (buffersQueue.cpp:137).                                           *)
Ample(i) == Len(Stock[i].buffers) >= MaxMail + 2
EnoughBuffers == \A i \in Class : Ample(i) => i \notin locked

(* The lists the messages stand for.                                       *)
List(b) == IF b = NoBuffer THEN NoList
           ELSE IF msg[b].info = 0 THEN <<>>
           ELSE LET m == msg[b].mem
                    o == Offsets(m, 0) IN [k \in DOMAIN o |-> ParamAt(m, o[k])]
Passed  == IF msg[current].info = 0 THEN 0
           ELSE LET o == Offsets(msg[current].mem, 0)
                IN Cardinality({k \in DOMAIN o : o[k] < coder.offset})

PL == INSTANCE ParamLists WITH
        current  <- List(current),
        new      <- List(new),
        mail     <- [k \in DOMAIN mail |-> List(mail[k])],
        position <- IF coder.offset = Unknown THEN Unknown ELSE Passed,
        answer   <- IF found = NoParam THEN NoParam ELSE ParamAt(msg[current].mem, found)

(* Messages behave as sorted lists of parameters: what is added is found   *)
(* again, in order, by GetParam and GetNextParam of the receiver, across   *)
(* growing, copying and sending.                                           *)
ImplementsParamLists == PL!ListSpec
=============================================================================
