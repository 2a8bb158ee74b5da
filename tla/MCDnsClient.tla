------------------------------ MODULE MCDnsClient ------------------------------
EXTENDS DnsClient

CONSTANTS n1, n2, a1, a2

MCName == {n1, n2}

(* The server answers a name with that name's address.                     *)
MCServerReply(n) == <<"address of", n>>

(* table.txt: a name, its address, another name, its address.              *)
MCTable      == <<n1, a1, n2, a2>>
NoTable      == {NoFile}
WithTable    == {NoFile, MCTable, <<>>}
=============================================================================
