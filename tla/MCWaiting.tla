----------------------------- MODULE MCWaiting -----------------------------
(* A small instance of Waiting for TLC. *)
EXTENDS Waiting

\* No budget at all, one shorter than a sleep, and ones that span several polls.
SomeBudgets == {-1, 0, 1, 4, 11}

\* One that spans several polls.
OneBudget == {4}
=============================================================================
