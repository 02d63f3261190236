----------------------------- MODULE MCWinLock ------------------------------
(* WinLock with three processes, and two tries for PENDING_BYTE.           *)
EXTENDS WinLock
CONSTANTS h1, h2, h3
=============================================================================
