-------------------------- MODULE SequentialStore --------------------------
(***************************************************************************)
(* What the store promises to one caller at a time, listings included:     *)
(* each namespace is the sequence of its live resources in creation order. *)
(* The capacity bounds all namespaces together, and is checked before the  *)
(* identifier.                                                             *)
(***************************************************************************)
EXTENDS Integers, Sequences, FiniteSets, SequencesExt

CONSTANTS Namespace, Requests, Limit

VARIABLES
    shelf,     \* namespace -> sequence of [id, value] in creation order
    pending,   \* the call in progress, or NoRequest
    answer     \* the answer to the last call

vars == <<shelf, pending, answer>>

NoRequest == [op |-> "none"]
Answer(status, body) == [status |-> status, body |-> body]
NoAnswer == Answer("none", <<>>)

\* The places on all shelves.
Places == UNION {{ns} \X DOMAIN shelf[ns] : ns \in Namespace}
Total == Cardinality(Places)
Values(s) == [i \in DOMAIN s |-> s[i].value]

Init ==
    /\ shelf = [ns \in Namespace |-> <<>>]
    /\ pending = NoRequest
    /\ answer = NoAnswer

Invoke ==
    \E r \in Requests :
        /\ pending = NoRequest
        /\ pending' = r
        /\ answer' = NoAnswer
        /\ UNCHANGED shelf

Called(op) == pending.op = op

Respond(status, body) ==
    /\ pending' = NoRequest
    /\ answer' = Answer(status, body)

\* The shelf a call is about and where on it the resource is.
Here == shelf[pending.key.namespace]
Place == {i \in DOMAIN Here : Here[i].id = pending.key.id}

Create ==
    /\ Called("create")
    /\ \/ /\ Total >= Limit
          /\ Respond("CapacityExceeded", <<>>)
          /\ UNCHANGED shelf
       \/ /\ Total < Limit /\ Place # {}
          /\ Respond("AlreadyExists", <<>>)
          /\ UNCHANGED shelf
       \/ /\ Total < Limit /\ Place = {}
          /\ Respond("Ok", <<>>)
          /\ shelf' = [shelf EXCEPT ![pending.key.namespace] =
                         Append(@, [id |-> pending.key.id, value |-> pending.value])]

\* A call on a resource that does not exist.
Miss ==
    /\ \E op \in {"read", "update", "delete"} : Called(op)
    /\ Place = {}
    /\ Respond("NotFound", <<>>)
    /\ UNCHANGED shelf

Read ==
    /\ Called("read")
    /\ \E i \in Place : Respond("Ok", <<Here[i].value>>)
    /\ UNCHANGED shelf

Update ==
    /\ Called("update")
    /\ Respond("Ok", <<>>)
    /\ \E i \in Place :
           shelf' = [shelf EXCEPT ![pending.key.namespace][i].value = pending.value]

Delete ==
    /\ Called("delete")
    /\ Respond("Ok", <<>>)
    /\ \E i \in Place :
           shelf' = [shelf EXCEPT ![pending.key.namespace] = RemoveAt(@, i)]

List ==
    /\ Called("list")
    /\ Respond("Ok", Values(shelf[pending.namespace]))
    /\ UNCHANGED shelf

Clear ==
    /\ Called("clear")
    /\ Respond("Ok", <<Total>>)
    /\ shelf' = [ns \in Namespace |-> <<>>]

Next == Invoke \/ Create \/ Miss \/ Read \/ Update \/ Delete \/ List \/ Clear

Spec == Init /\ [][Next]_vars

=============================================================================
