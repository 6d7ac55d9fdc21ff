----------------------------- MODULE MCSignals -----------------------------
(***************************************************************************)
(* SIGINT in the first byte of a sigset_t and SIGALRM in the second;       *)
(* memset starts before, at the start of or within the set.                *)
(***************************************************************************)
EXTENDS Signals

MCSig == {2, 14}
MCLeftover == {-1, 0, 1}

=============================================================================
