------------------------------ MODULE MCFlow ------------------------------
(***************************************************************************)
(* Clients that keep to sessions of their own, in one of two ways: tests   *)
(* that run in parallel, or one client alone that also makes the calls     *)
(* that reach beyond a session.                                            *)
(***************************************************************************)
EXTENDS MCScenario

VARIABLE usage     \* "parallel" or "alone", for a whole behaviour

\* A second flow for the parallel tests of t2: three flows and a cap of two.
ParallelCalls == [t \in Thread |->
    IF t = "t1" THEN PrivateCalls[t]
    ELSE PrivateCalls[t] \cup {[Http("POST /o", "s2") EXCEPT !.scenario = {"once"}]}]

AloneCalls == [t \in Thread |-> IF t = "t1" THEN LoneCalls[t] ELSE {}]

\* Both keep clients apart, as the theorem on ImplementsFlow asks.
ASSUME ClientsApart(ParallelCalls) /\ ClientsApart(AloneCalls)

FlowCalls == [t \in Thread |-> AloneCalls[t] \cup ParallelCalls[t]]

Permitted == IF usage = "parallel" THEN ParallelCalls ELSE AloneCalls

FlowInit == Init /\ usage \in {"parallel", "alone"}

FlowNext ==
    /\ Next
    /\ \A t \in Thread : call'[t] \in Permitted[t] \cup {NoCall}
    /\ UNCHANGED usage

FlowSpec == FlowInit /\ [][FlowNext]_<<vars, usage>>

=============================================================================
