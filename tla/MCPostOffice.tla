----------------------------- MODULE MCPostOffice -----------------------------
EXTENDS PostOffice

CONSTANTS b1, b2, b3, tmr

(* Two mailboxes, three buffers, and a thread besides the system thread.   *)
MCMbx    == {0, 1}
MCBuffer == {b1, b2, b3}
MCPoster == {tmr}
=============================================================================
