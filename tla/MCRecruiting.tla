---------------------------- MODULE MCRecruiting ----------------------------
(***************************************************************************)
(* NotificationJobs for TLC.  The jobs of an application's moves and those *)
(* of its interview meet only in the workers that run them, so a behaviour *)
(* follows the ones or the others, the ones with two workers and the       *)
(* others with one.                                                        *)
(***************************************************************************)
EXTENDS NotificationJobs

CONSTANTS Alice, Bob

MCJob == {<<"confirm", 0>>, <<"invite", 0>>, <<"remind", 0>>}
           \union {<<"move", n>> : n \in 1..MaxMoves}
MCPanel == <<Alice, Bob>>

Interviewing == interview # "none"
Moving == moves # <<>> \/ job[<<"confirm", 0>>].state # "absent"
OneAtATime == Cardinality({j \in Job : job[j].state = "active"}) <= 1

MCNext == Next /\ (Interviewing => ~Moving /\ OneAtATime)'
MCSpec == Init /\ [][MCNext]_vars
=============================================================================
