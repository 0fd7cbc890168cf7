---------------------------- MODULE LinearStore ----------------------------
(***************************************************************************)
(* What the store promises to concurrent callers: a table of at most Limit *)
(* entries and, per namespace, an index of identifiers.  A call on an      *)
(* entry takes effect on the table at one instant; what it owes the index  *)
(* is work of its own, done before the call returns.  A list reads the     *)
(* index of its namespace at one instant and holds it still, then looks up *)
(* one identifier after the other: it answers with the value each has at   *)
(* that moment, in the order of the index, and skips what is gone.         *)
(*                                                                         *)
(* An implementation has two liberties.  Calls of other threads that have  *)
(* not returned may each hold one slot, so a create may be refused up to   *)
(* Slack entries early; and a create that has found its namespace without  *)
(* an index may leave its identifier out of the one another create starts. *)
(***************************************************************************)
EXTENDS Integers, Sequences, FiniteSets

CONSTANTS Thread, Namespace, Requests, Limit

VARIABLES
    table,      \* key -> value, partial
    index,      \* namespace -> identifiers, in the order they were entered
    pending,    \* per thread: the call that has not taken effect
    work,       \* per thread: what is left to do on the index
    answer      \* per thread: the answer to its last call

vars == <<table, index, pending, work, answer>>

NoRequest == [op |-> "none"]
Answer(status, body) == [status |-> status, body |-> body]
NoAnswer == Answer("none", <<>>)

Slack == Cardinality(Thread) - 1

\* The identifiers other than id, in their order.
Retain(ids, id) ==
    LET F[i \in 0..Len(ids)] ==
            IF i = 0 THEN <<>>
            ELSE IF ids[i] # id THEN Append(F[i - 1], ids[i])
            ELSE F[i - 1]
    IN F[Len(ids)]

Init ==
    /\ table = [k \in {} |-> {}]
    /\ index = [ns \in Namespace |-> <<>>]
    /\ pending = [t \in Thread |-> NoRequest]
    /\ work = [t \in Thread |-> NoRequest]
    /\ answer = [t \in Thread |-> NoAnswer]

Invoke(t) ==
    \E r \in Requests :
        /\ pending[t] = NoRequest
        /\ work[t] = NoRequest
        /\ pending' = [pending EXCEPT ![t] = r]
        /\ answer' = [answer EXCEPT ![t] = NoAnswer]
        /\ UNCHANGED <<table, index, work>>

\* Thread t has called op and not been answered.
Called(t, op) == pending[t].op = op

Respond(t, status, body) ==
    /\ pending' = [pending EXCEPT ![t] = NoRequest]
    /\ answer' = [answer EXCEPT ![t] = Answer(status, body)]

Leave(t, rest) == work' = [work EXCEPT ![t] = rest]

-----------------------------------------------------------------------------
(* Calls on an entry *)

Taken(t) == pending[t].key \in DOMAIN table

Create(t) ==
    /\ Called(t, "create")
    /\ \/ /\ ~Taken(t)
          /\ Cardinality(DOMAIN table) < Limit
          /\ Respond(t, "Ok", <<>>)
          /\ table' = [k \in DOMAIN table \cup {pending[t].key} |->
                         IF k = pending[t].key THEN pending[t].value ELSE table[k]]
          /\ Leave(t, [op |-> "create", key |-> pending[t].key])
       \/ /\ Taken(t)
          /\ Respond(t, "AlreadyExists", <<>>)
          /\ UNCHANGED <<table, work>>
       \/ /\ Cardinality(DOMAIN table) + Slack >= Limit
          /\ Respond(t, "CapacityExceeded", <<>>)
          /\ UNCHANGED <<table, work>>
    /\ UNCHANGED index

\* A read, update or delete of a key that is absent.
Miss(t) ==
    /\ \E op \in {"read", "update", "delete"} : Called(t, op)
    /\ ~Taken(t)
    /\ Respond(t, "NotFound", <<>>)
    /\ UNCHANGED <<table, index, work>>

Read(t) ==
    /\ Called(t, "read")
    /\ Taken(t)
    /\ Respond(t, "Ok", <<table[pending[t].key]>>)
    /\ UNCHANGED <<table, index, work>>

Update(t) ==
    /\ Called(t, "update")
    /\ Taken(t)
    /\ Respond(t, "Ok", <<>>)
    /\ table' = [table EXCEPT ![pending[t].key] = pending[t].value]
    /\ UNCHANGED <<index, work>>

Delete(t) ==
    /\ Called(t, "delete")
    /\ Taken(t)
    /\ Respond(t, "Ok", <<>>)
    /\ table' = [k \in DOMAIN table \ {pending[t].key} |-> table[k]]
    /\ Leave(t, [op |-> "delete", key |-> pending[t].key])
    /\ UNCHANGED index

-----------------------------------------------------------------------------
(* The index *)

\* A list that is under way keeps the index of its namespace as it is.
Reading(ns) == \E t \in Thread : work[t].op = "list" /\ pending[t].namespace = ns

\* The work thread t has left, on an index nobody is reading.
Due(t, op) == work[t].op = op /\ ~Reading(work[t].key.namespace)

Index(t, ids) ==
    /\ index' = [index EXCEPT ![work[t].key.namespace] = ids]
    /\ Leave(t, NoRequest)
    /\ UNCHANGED <<table, pending, answer>>

Ids(t) == index[work[t].key.namespace]

Enter(t) == Due(t, "create") /\ Index(t, Append(Ids(t), work[t].key.id))

\* A create finds its namespace without an index, and is going to start one.
FindNone(t) ==
    /\ work[t].op = "create"
    /\ Ids(t) = <<>>
    /\ Leave(t, [op |-> "first", key |-> work[t].key])
    /\ UNCHANGED <<table, index, pending, answer>>

\* It does, or comes too late and leaves the index as it is.
Start(t) ==
    /\ Due(t, "first")
    /\ Index(t, Ids(t)) \/ (Ids(t) = <<>> /\ Index(t, <<work[t].key.id>>))

Prune(t) == Due(t, "delete") /\ Index(t, Retain(Ids(t), work[t].key.id))

-----------------------------------------------------------------------------
(* A list *)

Listing(rest, body) == [op |-> "list", rest |-> rest, body |-> body]

Open(t) ==
    /\ Called(t, "list")
    /\ work[t] = NoRequest
    /\ Leave(t, Listing(index[pending[t].namespace], <<>>))
    /\ UNCHANGED <<table, index, pending, answer>>

\* There is nothing to look up.
ListNone(t) ==
    /\ Called(t, "list")
    /\ work[t] = NoRequest
    /\ index[pending[t].namespace] = <<>>
    /\ Respond(t, "Ok", <<>>)
    /\ UNCHANGED <<table, index, work>>

LookUp(t) ==
    LET k == [namespace |-> pending[t].namespace, id |-> Head(work[t].rest)] IN
    /\ work[t].op = "list"
    /\ work[t].rest # <<>>
    /\ Leave(t, Listing(Tail(work[t].rest),
                        IF k \in DOMAIN table THEN Append(work[t].body, table[k])
                        ELSE work[t].body))
    /\ UNCHANGED <<table, index, pending, answer>>

Close(t) ==
    /\ work[t].op = "list"
    /\ work[t].rest = <<>>
    /\ Respond(t, "Ok", work[t].body)
    /\ Leave(t, NoRequest)
    /\ UNCHANGED <<table, index>>

-----------------------------------------------------------------------------
Next == \E t \in Thread :
    \/ Invoke(t)
    \/ Create(t) \/ Miss(t) \/ Read(t) \/ Update(t) \/ Delete(t)
    \/ Enter(t) \/ FindNone(t) \/ Start(t) \/ Prune(t)
    \/ Open(t) \/ ListNone(t) \/ LookUp(t) \/ Close(t)

Spec == Init /\ [][Next]_vars

=============================================================================
