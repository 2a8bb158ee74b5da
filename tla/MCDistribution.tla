---------------------------- MODULE MCDistribution ----------------------------
EXTENDS Distribution

(* Server 3 has no automates and sends to those of 2 and, failing it, 1.   *)
MCEntries == <<[startId |-> 0, lastId |-> 0, compId |-> <<2, 1>>]>>
MCSent == [from : {3}, object : {0}, group : {Any, 2}]
            \cup [from : {3}, object : {Any}, group : {Any}]
=============================================================================
