----------------------------- MODULE MCSidecar -----------------------------
(***************************************************************************)
(* Documents for TLC: every catalogue of two operations with every shape   *)
(* an entry can have, pairs of small scenarios with every mistake validate *)
(* looks for, and every machine with three states and two operations.      *)
(***************************************************************************)
EXTENDS SidecarLoad, TLC

Entry(store) == [store |-> store, reserved |-> FALSE]
Plain == Entry({})

Entries ==
    {Plain, [Plain EXCEPT !.reserved = TRUE]}
    \cup {Entry({[action |-> a, key |-> k, keyFrom |-> f]}) :
            a \in {"create", "read", "list"}, k \in BOOLEAN, f \in {"none", "pointer", "malformed"}}

\* A map from any subset of S to T.
Partial(S, T) == UNION {[D -> T] : D \in SUBSET S}

Doc(operations, scenarios) ==
    [readable |-> TRUE, version |-> 1, operations |-> operations, scenarios |-> scenarios]

Flow(name, initial, states) == [name |-> name, initial |-> initial, states |-> states]

OneStep == Flow(1, 1, 1 :> (1 :> {1}))

Catalogues == {Doc(ops, <<OneStep>>) : ops \in Partial({1, 2}, Entries)}

\* Names 1 and 2, initial states and targets that may be undeclared.
Flows == {Flow(n, i, 1 :> steps) :
            n \in {1, 2}, i \in {1, 2}, steps \in Partial({1, 2}, {{}, {1}, {2}})}
Mistakes == {Doc(1 :> Plain, scs) : scs \in Flows \X Flows}
            \cup {Doc(<<>>, <<>>), [Doc(<<>>, <<>>) EXCEPT !.readable = FALSE],
                  [Doc(<<>>, <<>>) EXCEPT !.version = 2]}

\* Every machine over states 1, 2 and 3 that starts in 1.
States == 1..3
Option(S) == {{}} \cup {{x} : x \in S}
Machines == {Doc(<<Plain, Plain>>, <<Flow(1, 1, m)>>) :
                m \in [States -> [{1, 2} -> Option(States)]]}

MCDocuments == Catalogues \cup Mistakes \cup Machines

=============================================================================
