---------------------------- MODULE MCThroughput ----------------------------
(* Small instances of Throughput for TLC. *)
EXTENDS Throughput

\* Every log with the same documents in it.
Alike(kinds) == [p \in Proc |-> kinds]

\* One earlier session in every log: the per-port logs outlive a call.
RatedPriors == {Alike(<<"rated">>)}

\* As above; a failed session left last in one server's log; and a document that
\* server left unterminated when it was stopped.
MixedPriors ==
    {[Alike(<<"rated">>) EXCEPT ![<<"rx", N>>] = kinds] :
        kinds \in {<<"rated">>, <<"rated", "unrated">>, <<"rated", "open">>}}
=============================================================================
