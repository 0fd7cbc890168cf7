------------------------------- MODULE Store -------------------------------
(***************************************************************************)
(* The resource store of one scenario instance                             *)
(* (crates/specmock-core/src/store.rs): two concurrent hash maps and an    *)
(* atomic counter, shared by every request thread without a lock of its    *)
(* own.  One action is one atomic step of the code: one operation on one   *)
(* of the maps (scc locks the bucket of the key for its duration) or one   *)
(* atomic instruction on the counter.  Between two of them any other       *)
(* thread may run.                                                         *)
(***************************************************************************)
EXTENDS Integers, Sequences, FiniteSets, Functions

CONSTANTS
    Thread,      \* request threads calling into the store
    Namespace,   \* bound collection paths
    Id,          \* identifiers within a namespace
    Value,       \* stored payloads
    Limit,       \* the store's capacity
    WordSize,    \* modulus of the counter: 2^64 in the code
    Ops          \* the operations the threads call

AllOps == {"create", "read", "update", "delete", "list", "clear"}

ASSUME ThreadAssumption == IsFiniteSet(Thread)
ASSUME KeyAssumption == Namespace # {} /\ Id # {}
ASSUME LimitAssumption == Limit \in Nat /\ WordSize \in Nat /\ Limit < WordSize
ASSUME OpsAssumption == Ops \subseteq AllOps

VARIABLES
    entries,   \* key -> value, partial: a key is present iff it is in the domain
    order,     \* namespace -> identifiers in the order they were indexed, partial
    count,     \* the atomic counter of live entries
    pc,        \* per thread: the next atomic step of its call, or "idle"
    req,       \* per thread: the call in progress
    seen,      \* per thread: the counter value it loaded
    unread,    \* per thread: identifiers its list has still to look up
    acc,       \* per thread: values its list has collected
    unswept,   \* per thread: what its clear has still to visit
    ret        \* per thread: the answer of its last call

vars == <<entries, order, count, pc, req, seen, unread, acc, unswept, ret>>

-----------------------------------------------------------------------------
Key == [namespace : Namespace, id : Id]

NoRequest == [op |-> "none"]

\* The calls of the public interface, with the arguments each one takes.
Requests ==
    {r \in      [op : {"create", "update"}, key : Key, value : Value]
           \cup [op : {"read", "delete"}, key : Key]
           \cup [op : {"list"}, namespace : Namespace]
           \cup [op : {"clear"}] : r.op \in Ops}

NoAnswer == [status |-> "none", body |-> <<>>]
Answer(status, body) == [status |-> status, body |-> body]
Statuses == {"none", "Ok", "NotFound", "AlreadyExists", "CapacityExceeded"}

\* The first atomic step of a call.
Entry(op) ==
    CASE op = "create" -> "load"
      [] op = "read"   -> "read"
      [] op = "update" -> "update"
      [] op = "delete" -> "remove"
      [] op = "list"   -> "open"
      [] op = "clear"  -> "clear_load"

CreateSteps == {"load", "cas", "insert", "release", "contains", "order_insert", "order_push"}
DeleteSteps == {"remove", "uncount", "retain"}
ListSteps   == {"open", "look_up"}
ClearSteps  == {"clear_load", "sweep_entries", "sweep_order", "clear_store"}
Steps == {"idle", "read", "update"} \cup CreateSteps \cup DeleteSteps \cup ListSteps \cup ClearSteps

\* A list holds scc's entry guard on its namespace until it has looked up every
\* identifier, so no other operation touches that ordering entry meanwhile.
Guarded(ns) == \E t \in Thread : pc[t] = "look_up" /\ req[t].namespace = ns

Put(f, k, v) == [x \in DOMAIN f \cup {k} |-> IF x = k THEN v ELSE f[x]]
Drop(f, k) == Restrict(f, DOMAIN f \ {k})

Goto(t, step) == pc' = [pc EXCEPT ![t] = step]

Return(t, answer) ==
    /\ Goto(t, "idle")
    /\ ret' = [ret EXCEPT ![t] = answer]
    /\ req' = [req EXCEPT ![t] = NoRequest]

-----------------------------------------------------------------------------
Init ==
    /\ entries = [k \in {} |-> {}]
    /\ order = [ns \in {} |-> <<>>]
    /\ count = 0
    /\ pc = [t \in Thread |-> "idle"]
    /\ req = [t \in Thread |-> NoRequest]
    /\ seen = [t \in Thread |-> 0]
    /\ unread = [t \in Thread |-> <<>>]
    /\ acc = [t \in Thread |-> <<>>]
    /\ unswept = [t \in Thread |-> {}]
    /\ ret = [t \in Thread |-> NoAnswer]

Invoke(t, r) ==
    /\ pc[t] = "idle"
    /\ Goto(t, Entry(r.op))
    /\ req' = [req EXCEPT ![t] = r]
    /\ ret' = [ret EXCEPT ![t] = NoAnswer]
    /\ UNCHANGED <<entries, order, count, seen, unread, acc, unswept>>

-----------------------------------------------------------------------------
(* create *)

\* Load the counter; a full store refuses before anything is touched.
LoadCount(t) ==
    /\ pc[t] = "load"
    /\ \/ /\ count >= Limit
          /\ Return(t, Answer("CapacityExceeded", <<>>))
          /\ UNCHANGED seen
       \/ /\ count < Limit
          /\ seen' = [seen EXCEPT ![t] = count]
          /\ Goto(t, "cas")
          /\ UNCHANGED <<req, ret>>
    /\ UNCHANGED <<entries, order, count, unread, acc, unswept>>

\* Faulty variant: an increment that does not compare the counter again.
BlindIncrement(t) ==
    /\ pc[t] = "cas"
    /\ count' = (count + 1) % WordSize
    /\ seen' = [seen EXCEPT ![t] = 0]
    /\ Goto(t, "insert")
    /\ UNCHANGED <<entries, order, req, unread, acc, unswept, ret>>

\* Reserve a slot, or go round the loop when another thread moved the counter.
CompareExchange(t) ==
    /\ pc[t] = "cas"
    /\ \/ /\ count = seen[t]
          /\ count' = (count + 1) % WordSize
          /\ Goto(t, "insert")
       \/ /\ count # seen[t]
          /\ Goto(t, "load")
          /\ UNCHANGED count
    /\ seen' = [seen EXCEPT ![t] = 0]
    /\ UNCHANGED <<entries, order, req, unread, acc, unswept, ret>>

\* Faulty variant: a collision returns without giving its slot back.
CollisionKeepsSlot(t) ==
    LET k == req[t].key IN
    /\ pc[t] = "insert"
    /\ \/ /\ k \in DOMAIN entries
          /\ Return(t, Answer("AlreadyExists", <<>>))
          /\ UNCHANGED entries
       \/ /\ k \notin DOMAIN entries
          /\ entries' = Put(entries, k, req[t].value)
          /\ Goto(t, "contains")
          /\ UNCHANGED <<req, ret>>
    /\ UNCHANGED <<order, count, seen, unread, acc, unswept>>

\* insert_sync: the collision check and the write are one step.
InsertEntry(t) ==
    LET k == req[t].key IN
    /\ pc[t] = "insert"
    /\ \/ /\ k \in DOMAIN entries
          /\ Goto(t, "release")
          /\ UNCHANGED entries
       \/ /\ k \notin DOMAIN entries
          /\ entries' = Put(entries, k, req[t].value)
          /\ Goto(t, "contains")
    /\ UNCHANGED <<order, count, req, seen, unread, acc, unswept, ret>>

\* The collision is not a stored entry: give the reserved slot back.
ReleaseSlot(t) ==
    /\ pc[t] = "release"
    /\ count' = (count - 1) % WordSize
    /\ Return(t, Answer("AlreadyExists", <<>>))
    /\ UNCHANGED <<entries, order, seen, unread, acc, unswept>>

\* Does the namespace have an ordering entry yet?
ContainsOrder(t) ==
    LET ns == req[t].key.namespace IN
    /\ pc[t] = "contains"
    /\ ~Guarded(ns)
    /\ Goto(t, IF ns \in DOMAIN order THEN "order_push" ELSE "order_insert")
    /\ UNCHANGED <<entries, order, count, req, seen, unread, acc, unswept, ret>>

\* insert_sync(..).ok(): when the namespace has been indexed in the meantime the
\* insertion fails, and the failure is dropped.
InsertOrder(t) ==
    LET k == req[t].key IN
    /\ pc[t] = "order_insert"
    /\ ~Guarded(k.namespace)
    /\ order' = IF k.namespace \in DOMAIN order
                THEN order
                ELSE Put(order, k.namespace, <<k.id>>)
    /\ Return(t, Answer("Ok", <<>>))
    /\ UNCHANGED <<entries, count, seen, unread, acc, unswept>>

\* Faulty variant: the newest identifier goes first.
PushFront(t) ==
    LET k == req[t].key IN
    /\ pc[t] = "order_push"
    /\ ~Guarded(k.namespace)
    /\ order' = [order EXCEPT ![k.namespace] = <<k.id>> \o @]
    /\ Return(t, Answer("Ok", <<>>))
    /\ UNCHANGED <<entries, count, seen, unread, acc, unswept>>

\* update_sync(push): touches an existing ordering entry only.
PushOrder(t) ==
    LET k == req[t].key IN
    /\ pc[t] = "order_push"
    /\ ~Guarded(k.namespace)
    /\ order' = IF k.namespace \in DOMAIN order
                THEN [order EXCEPT ![k.namespace] = Append(@, k.id)]
                ELSE order
    /\ Return(t, Answer("Ok", <<>>))
    /\ UNCHANGED <<entries, count, seen, unread, acc, unswept>>

-----------------------------------------------------------------------------
(* read, update *)

Read(t) ==
    LET k == req[t].key IN
    /\ pc[t] = "read"
    /\ Return(t, IF k \in DOMAIN entries
                 THEN Answer("Ok", <<entries[k]>>)
                 ELSE Answer("NotFound", <<>>))
    /\ UNCHANGED <<entries, order, count, seen, unread, acc, unswept>>

Update(t) ==
    LET k == req[t].key IN
    /\ pc[t] = "update"
    /\ \/ /\ k \in DOMAIN entries
          /\ entries' = [entries EXCEPT ![k] = req[t].value]
          /\ Return(t, Answer("Ok", <<>>))
       \/ /\ k \notin DOMAIN entries
          /\ Return(t, Answer("NotFound", <<>>))
          /\ UNCHANGED entries
    /\ UNCHANGED <<order, count, seen, unread, acc, unswept>>

-----------------------------------------------------------------------------
(* delete *)

RemoveEntry(t) ==
    LET k == req[t].key IN
    /\ pc[t] = "remove"
    /\ \/ /\ k \in DOMAIN entries
          /\ entries' = Drop(entries, k)
          /\ Goto(t, "uncount")
          /\ UNCHANGED <<req, ret>>
       \/ /\ k \notin DOMAIN entries
          /\ Return(t, Answer("NotFound", <<>>))
          /\ UNCHANGED entries
    /\ UNCHANGED <<order, count, seen, unread, acc, unswept>>

Uncount(t) ==
    /\ pc[t] = "uncount"
    /\ count' = (count - 1) % WordSize
    /\ Goto(t, "retain")
    /\ UNCHANGED <<entries, order, req, seen, unread, acc, unswept, ret>>

\* Vec::retain(|existing| existing != id): every occurrence of id goes, the rest
\* keeps its order.
Retain(ids, id) ==
    LET F[i \in 0..Len(ids)] ==
            IF i = 0 THEN <<>>
            ELSE IF ids[i] # id THEN Append(F[i - 1], ids[i])
            ELSE F[i - 1]
    IN F[Len(ids)]

RetainOrder(t) ==
    LET k == req[t].key IN
    /\ pc[t] = "retain"
    /\ ~Guarded(k.namespace)
    /\ order' = IF k.namespace \in DOMAIN order
                THEN [order EXCEPT ![k.namespace] = Retain(@, k.id)]
                ELSE order
    /\ Return(t, Answer("Ok", <<>>))
    /\ UNCHANGED <<entries, count, seen, unread, acc, unswept>>

-----------------------------------------------------------------------------
(* list *)

\* Take the guard on the ordering entry, or answer at once when there is none.
OpenList(t) ==
    LET ns == req[t].namespace IN
    /\ pc[t] = "open"
    /\ ~Guarded(ns)
    /\ \/ /\ ns \in DOMAIN order
          /\ unread' = [unread EXCEPT ![t] = order[ns]]
          /\ acc' = [acc EXCEPT ![t] = <<>>]
          /\ Goto(t, "look_up")
          /\ UNCHANGED <<req, ret>>
       \/ /\ ns \notin DOMAIN order
          /\ Return(t, Answer("Ok", <<>>))
          /\ UNCHANGED <<unread, acc>>
    /\ UNCHANGED <<entries, order, count, seen, unswept>>

\* Faulty variant: an identifier that is gone ends the list.
StopAtAbsent(t) ==
    LET k == [namespace |-> req[t].namespace, id |-> Head(unread[t])] IN
    /\ pc[t] = "look_up"
    /\ unread[t] # <<>>
    /\ unread' = [unread EXCEPT ![t] = IF k \in DOMAIN entries THEN Tail(@) ELSE <<>>]
    /\ acc' = [acc EXCEPT ![t] = IF k \in DOMAIN entries
                                 THEN Append(@, entries[k])
                                 ELSE @]
    /\ UNCHANGED <<entries, order, count, pc, req, seen, unswept, ret>>

\* Look one identifier up; one that is absent from the entries is skipped.
LookUp(t) ==
    LET k == [namespace |-> req[t].namespace, id |-> Head(unread[t])] IN
    /\ pc[t] = "look_up"
    /\ unread[t] # <<>>
    /\ unread' = [unread EXCEPT ![t] = Tail(@)]
    /\ acc' = [acc EXCEPT ![t] = IF k \in DOMAIN entries
                                 THEN Append(@, entries[k])
                                 ELSE @]
    /\ UNCHANGED <<entries, order, count, pc, req, seen, unswept, ret>>

\* Collected: drop the guard and answer.
CloseList(t) ==
    /\ pc[t] = "look_up"
    /\ unread[t] = <<>>
    /\ Return(t, Answer("Ok", acc[t]))
    /\ acc' = [acc EXCEPT ![t] = <<>>]
    /\ UNCHANGED <<entries, order, count, seen, unread, unswept>>

-----------------------------------------------------------------------------
(* clear: each map is emptied bucket by bucket, in no particular order *)

ClearLoad(t) ==
    /\ pc[t] = "clear_load"
    /\ seen' = [seen EXCEPT ![t] = count]
    /\ unswept' = [unswept EXCEPT ![t] = Key]
    /\ Goto(t, "sweep_entries")
    /\ UNCHANGED <<entries, order, count, req, unread, acc, ret>>

SweepEntry(t, k) ==
    /\ pc[t] = "sweep_entries"
    /\ k \in unswept[t]
    /\ entries' = Drop(entries, k)
    /\ unswept' = [unswept EXCEPT ![t] = IF @ = {k} THEN Namespace ELSE @ \ {k}]
    /\ IF unswept[t] = {k} THEN Goto(t, "sweep_order") ELSE UNCHANGED pc
    /\ UNCHANGED <<order, count, req, seen, unread, acc, ret>>

SweepOrder(t, ns) ==
    /\ pc[t] = "sweep_order"
    /\ ns \in unswept[t]
    /\ ~Guarded(ns)
    /\ order' = Drop(order, ns)
    /\ unswept' = [unswept EXCEPT ![t] = @ \ {ns}]
    /\ IF unswept[t] = {ns} THEN Goto(t, "clear_store") ELSE UNCHANGED pc
    /\ UNCHANGED <<entries, count, req, seen, unread, acc, ret>>

ClearStore(t) ==
    /\ pc[t] = "clear_store"
    /\ count' = 0
    /\ Return(t, Answer("Ok", <<seen[t]>>))
    /\ seen' = [seen EXCEPT ![t] = 0]
    /\ UNCHANGED <<entries, order, unread, acc, unswept>>

-----------------------------------------------------------------------------
\* The next atomic step of the call thread t is in.
Step(t) ==
    \/ LoadCount(t) \/ CompareExchange(t) \/ InsertEntry(t) \/ ReleaseSlot(t)
    \/ ContainsOrder(t) \/ InsertOrder(t) \/ PushOrder(t)
    \/ Read(t) \/ Update(t)
    \/ RemoveEntry(t) \/ Uncount(t) \/ RetainOrder(t)
    \/ OpenList(t) \/ LookUp(t) \/ CloseList(t)
    \/ ClearLoad(t)
    \/ \E k \in Key : SweepEntry(t, k)
    \/ \E ns \in Namespace : SweepOrder(t, ns)
    \/ ClearStore(t)

Next == \E t \in Thread : Step(t) \/ \E r \in Requests : Invoke(t, r)

Spec == Init /\ [][Next]_vars

-----------------------------------------------------------------------------
(* Properties *)

IsPartialMap(f, S, T) == DOMAIN f \subseteq S /\ f \in [DOMAIN f -> T]

\* Every map, counter and per-thread variable holds a value of its Rust type.
TypeOK ==
    /\ IsPartialMap(entries, Key, Value)
    /\ IsPartialMap(order, Namespace, Seq(Id))
    /\ count \in 0..(WordSize - 1)
    /\ pc \in [Thread -> Steps]
    /\ req \in [Thread -> Requests \cup {NoRequest}]
    /\ seen \in [Thread -> 0..(WordSize - 1)]
    /\ unread \in [Thread -> Seq(Id)]
    /\ acc \in [Thread -> Seq(Value)]
    /\ unswept \in [Thread -> (SUBSET Key) \cup (SUBSET Namespace)]
    /\ ret \in [Thread -> [status : Statuses, body : Seq(Value) \cup Seq(Nat)]]

\* Threads whose call accounts for one unit of the counter that no entry backs:
\* a create between its reservation and its insertion (or the release of its
\* slot), a delete between the removal of its entry and the decrement.
SlotHolders == {t \in Thread : pc[t] \in {"insert", "release", "uncount"}}

\* The counter that gates create is exact in every interleaving of creates and
\* deletes: it counts the live entries and the slots held by calls in flight,
\* so it neither leaks a slot nor underflows (Store::create, Store::delete).
CountAccounting == count = Cardinality(DOMAIN entries) + Cardinality(SlotHolders)

\* Reserving before inserting keeps concurrent creates within the capacity that
\* Store::new was given.
CapacityRespected == Cardinality(DOMAIN entries) <= Limit

\* A thread is inside the call it was asked to make.
CallShape ==
    \A t \in Thread :
        /\ IF pc[t] = "idle" THEN req[t] = NoRequest ELSE req[t] \in Requests
        /\ pc[t] \in CreateSteps => req[t].op = "create"
        /\ pc[t] = "read" => req[t].op = "read"
        /\ pc[t] = "update" => req[t].op = "update"
        /\ pc[t] \in DeleteSteps => req[t].op = "delete"
        /\ pc[t] \in ListSteps => req[t].op = "list"
        /\ pc[t] \in ClearSteps => req[t].op = "clear"

\* The strengthening under which the accounting is inductive: the slot a create
\* is about to reserve is below the capacity it was compared with.
SlotsBounded ==
    /\ count <= Limit
    /\ \A t \in Thread : pc[t] = "cas" => seen[t] < Limit

Quiescent == \A t \in Thread : pc[t] = "idle"

\* store.rs, test concurrent_creates_all_land: every created resource is listed
\* once the creates have returned.
EveryEntryListed ==
    Quiescent => \A k \in DOMAIN entries :
                    /\ k.namespace \in DOMAIN order
                    /\ k.id \in Range(order[k.namespace])

-----------------------------------------------------------------------------
(* The store implements LinearStore.  A create takes effect when its entry *)
(* is inserted or found taken, a delete when its entry is removed; the     *)
(* rest of the call tidies up the counter and sees to the ordering index.  *)

SettledSteps ==
    {"release", "contains", "order_insert", "order_push", "uncount", "retain"}

PendingCall == [t \in Thread |-> IF pc[t] \in SettledSteps THEN NoRequest ELSE req[t]]

GivenAnswer == [t \in Thread |->
    IF pc[t] = "release" THEN Answer("AlreadyExists", <<>>)
    ELSE IF pc[t] \in SettledSteps THEN Answer("Ok", <<>>)
    ELSE ret[t]]

WorkLeft == [t \in Thread |->
    CASE pc[t] \in {"contains", "order_push"} -> [op |-> "create", key |-> req[t].key]
      [] pc[t] = "order_insert"              -> [op |-> "first", key |-> req[t].key]
      [] pc[t] \in {"uncount", "retain"}     -> [op |-> "delete", key |-> req[t].key]
      [] pc[t] = "look_up" -> [op |-> "list", rest |-> unread[t], body |-> acc[t]]
      [] OTHER -> NoRequest]

OrderIndex == [ns \in Namespace |-> IF ns \in DOMAIN order THEN order[ns] ELSE <<>>]

Linear == INSTANCE LinearStore
            WITH table <- entries, index <- OrderIndex, pending <- PendingCall,
                 work <- WorkLeft, answer <- GivenAnswer

\* Whatever the interleaving of create, read, update, delete and list, every call on
\* an entry is atomic, and a list follows the index as it was when the list began:
\* nothing is repeated, skipped or stale unless the index or the entry is so at that
\* moment, and the index misses only what LinearStore lets it miss.
Linearizable == Linear!Spec

-----------------------------------------------------------------------------
(* A store with one caller implements SequentialStore.  A create takes     *)
(* effect when it is indexed, a delete once its entry is gone, a clear     *)
(* once it has loaded the counter it answers with.                         *)

Caller == CHOOSE t \in Thread : TRUE
Deleting == pc[Caller] \in {"uncount", "retain"}
Clearing == pc[Caller] \in {"sweep_entries", "sweep_order", "clear_store"}

\* The identifiers of a namespace as a listing would have them.
Listing(ns) ==
    IF Clearing \/ ns \notin DOMAIN order THEN <<>>
    ELSE IF Deleting /\ req[Caller].key.namespace = ns THEN Retain(order[ns], req[Caller].key.id)
    ELSE order[ns]

Shelf == [ns \in Namespace |-> [i \in DOMAIN Listing(ns) |->
    [id |-> Listing(ns)[i], value |-> entries[[namespace |-> ns, id |-> Listing(ns)[i]]]]]]

CallerPending == IF Deleting \/ Clearing THEN NoRequest ELSE req[Caller]

CallerAnswer ==
    IF Deleting THEN Answer("Ok", <<>>)
    ELSE IF Clearing THEN Answer("Ok", <<seen[Caller]>>)
    ELSE ret[Caller]

Sequential == INSTANCE SequentialStore
                WITH shelf <- Shelf, pending <- CallerPending, answer <- CallerAnswer

\* With one caller the store keeps everything its documentation promises, the
\* creation order of a listing and the capacity across namespaces included.
ImplementsSequentialStore == Sequential!Spec

=============================================================================
