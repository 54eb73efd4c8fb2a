---------------------------- MODULE MCVoteRequest ----------------------------
(* VoteRequest on small instances: two voters and two handlers in front of   *)
(* the outbox, and two workers behind it.                                    *)
EXTENDS VoteRequest, TLC

CONSTANTS v1, v2, q1, q2, w1, w2, b1, b2

(* Two voters post; nobody works on the jobs.                                *)
Posting == [voters |-> {v1, v2}, requests |-> {q1, q2}, workers |-> {}]
(* One voter posts and repeats; the confirmation meets two workers.          *)
Confirming == [voters |-> {v1}, requests |-> {q1, q2}, workers |-> {w1, w2}]
MCSettings == {Posting, Confirming}
=============================================================================
