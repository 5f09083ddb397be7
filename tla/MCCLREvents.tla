----------------------------- MODULE MCCLREvents -----------------------------
(***************************************************************************)
(* CLREvents with three threads, one of which raises a static event.       *)
(***************************************************************************)
EXTENDS CLREvents

CONSTANTS t1, t2, t3

MCThreads == {t1, t2, t3}
MCNullSenders == {t3}
=============================================================================
