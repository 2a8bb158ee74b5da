------------------------------ MODULE ParamLists ------------------------------
(***************************************************************************)
(* What messages promise to an automate: a message is a list of            *)
(* parameters sorted by code, those of equal code in the order they were   *)
(* added.  The automate reads the message it is processing and builds      *)
(* another one.                                                            *)
(***************************************************************************)
EXTENDS Naturals, Sequences, FiniteSets

CONSTANTS
  Param,    \* parameters: records with a code and data
  NoParam,  \* the answer to a search that found nothing
  NoList,   \* there is no such message
  Unknown   \* no search in current to go on with

VARIABLES
  current,  \* the message being processed, or NoList
  new,      \* the message under construction, or NoList
  mail,     \* messages sent and not yet processed
  position, \* parameters of current the last search has passed, or Unknown
  answer    \* what the last search returned

vars == <<current, new, mail, position, answer>>

Quiet  == answer' = NoParam /\ UNCHANGED position
Forget == answer' = NoParam /\ position' = Unknown

Init == /\ current = NoList /\ new = NoList /\ mail = <<>>
        /\ position = Unknown /\ answer = NoParam

(* The parameter takes its place behind those of smaller or equal code.    *)
Insert(list, p) ==
  LET k == Cardinality({i \in DOMAIN list : list[i].code <= p.code})
  IN SubSeq(list, 1, k) \o <<p>> \o SubSeq(list, k + 1, Len(list))

Receive == /\ Forget
           /\ current = NoList /\ mail # <<>>
           /\ current' = Head(mail) /\ mail' = Tail(mail)
           /\ UNCHANGED new

Prepare == /\ Quiet
           /\ new = NoList /\ new' = <<>>
           /\ UNCHANGED <<current, mail>>

(* Adding a parameter ends a search.                                       *)
Add(p) == /\ Forget
          /\ new # NoList /\ new' = Insert(new, p)
          /\ UNCHANGED <<current, mail>>

Copy == /\ Quiet
        /\ current # NoList /\ new' = current
        /\ UNCHANGED <<current, mail>>

Send == /\ Quiet
        /\ new # NoList /\ new' = NoList
        /\ mail' = Append(mail, new)
        /\ UNCHANGED current

Clear == /\ Forget
         /\ current # NoList /\ current' = NoList
         /\ UNCHANGED <<new, mail>>

(* RemoveParam never removes anything, but ends a search.                  *)
Remove == Forget /\ UNCHANGED <<current, new, mail>>

(* The first parameter of that code behind the given position; a search    *)
(* that fails starts over.                                                 *)
Search(code, from) ==
  LET list == current
      hits == {i \in DOMAIN list : i > from /\ list[i].code = code} IN
  /\ IF hits = {} THEN answer' = NoParam /\ position' = 0
     ELSE LET i == CHOOSE k \in hits : \A l \in hits : k <= l
          IN answer' = list[i] /\ position' = i
  /\ UNCHANGED <<current, new, mail>>

First(code) == current # NoList /\ Search(code, 0)
More(code)  == current # NoList /\ position # Unknown /\ Search(code, position)

Next ==
  \/ Receive \/ Prepare \/ Copy \/ Send \/ Clear \/ Remove
  \/ \E p \in Param : Add(p)
  \/ \E code \in {p.code : p \in Param} : First(code) \/ More(code)

ListSpec == Init /\ [][Next]_vars
=============================================================================
