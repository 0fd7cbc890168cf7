---------------------------- MODULE StoreProofs ----------------------------
(***************************************************************************)
(* Theorems about Store, for every set of threads, namespaces, identifiers *)
(* and values and every capacity.                                          *)
(***************************************************************************)
EXTENDS Store, FiniteSetTheorems, FunctionTheorems, SequenceTheorems, LeastElement, TLAPS

-----------------------------------------------------------------------------
(* Vec::retain *)

\* F is the function that Retain(ids, id) evaluates, on the first n positions.
RetainUpTo(F, ids, id, n) ==
    F = [i \in 0..n |-> IF i = 0 THEN <<>>
                        ELSE IF ids[i] # id THEN Append(F[i - 1], ids[i])
                        ELSE F[i - 1]]

\* Two such functions agree: at the first position where they differ they would
\* be computed from equal values.
LEMMA RetainUnique ==
    ASSUME NEW ids, NEW id, NEW n \in Nat, NEW F, NEW G,
           RetainUpTo(F, ids, id, n), RetainUpTo(G, ids, id, n)
    PROVE  F = G
<1> DEFINE Differ == {i \in 0..n : F[i] # G[i]}
<1>1. \A i \in 0..n : F[i] = IF i = 0 THEN <<>>
                             ELSE IF ids[i] # id THEN Append(F[i - 1], ids[i])
                             ELSE F[i - 1]
  BY DEF RetainUpTo
<1>2. \A i \in 0..n : G[i] = IF i = 0 THEN <<>>
                             ELSE IF ids[i] # id THEN Append(G[i - 1], ids[i])
                             ELSE G[i - 1]
  BY DEF RetainUpTo
<1>3. Differ = {}
  <2> SUFFICES ASSUME Differ # {} PROVE FALSE
    OBVIOUS
  <2>1. PICK m \in Differ : \A y \in Differ : m <= y
    <3>1. Differ \subseteq Nat
      OBVIOUS
    <3> HIDE DEF Differ
    <3> QED BY <3>1, LeastNat
  <2>2. m # 0
    BY <1>1, <1>2, <2>1
  <2>3. m - 1 \in 0..n /\ F[m - 1] = G[m - 1]
    BY <2>1, <2>2
  <2> QED BY <2>1, <2>2, <2>3, <1>1, <1>2
<1>4. F = [i \in 0..n |-> F[i]] /\ G = [i \in 0..n |-> G[i]]
  BY DEF RetainUpTo
<1> QED BY <1>3, <1>4

\* Such a function exists for every prefix, and its values are sequences over the
\* elements of the argument that differ from id.
LEMMA RetainExists ==
    ASSUME NEW S, NEW ids \in Seq(S), NEW id
    PROVE  \A n \in 0..Len(ids) :
               \E F \in [0..n -> Seq(S \ {id})] : RetainUpTo(F, ids, id, n)
<1> DEFINE Good(n) == \E F \in [0..n -> Seq(S \ {id})] : RetainUpTo(F, ids, id, n)
           Bad == {n \in 0..Len(ids) : ~Good(n)}
<1>1. Good(0)
  <2>1. RetainUpTo([i \in 0..0 |-> <<>>], ids, id, 0)
    BY DEF RetainUpTo
  <2>2. [i \in 0..0 |-> <<>>] \in [0..0 -> Seq(S \ {id})]
    OBVIOUS
  <2> QED BY <2>1, <2>2
<1>2. ASSUME NEW n \in Nat, n + 1 \in 0..Len(ids), Good(n)
      PROVE  Good(n + 1)
  <2>1. PICK F \in [0..n -> Seq(S \ {id})] : RetainUpTo(F, ids, id, n)
    BY <1>2
  <2> DEFINE G == [i \in 0..(n + 1) |->
                     IF i = n + 1
                     THEN IF ids[n + 1] # id THEN Append(F[n], ids[n + 1]) ELSE F[n]
                     ELSE F[i]]
  <2>2. ids[n + 1] \in S
    BY <1>2
  <2>3. G \in [0..(n + 1) -> Seq(S \ {id})]
    BY <2>1, <2>2
  <2>4. \A i \in 0..n : F[i] = IF i = 0 THEN <<>>
                               ELSE IF ids[i] # id THEN Append(F[i - 1], ids[i])
                               ELSE F[i - 1]
    BY <2>1 DEF RetainUpTo
  <2>5. \A i \in 0..(n + 1) : G[i] = IF i = 0 THEN <<>>
                                     ELSE IF ids[i] # id THEN Append(G[i - 1], ids[i])
                                     ELSE G[i - 1]
    <3> TAKE i \in 0..(n + 1)
    <3>1. CASE i = n + 1
      <4>1. G[i] = IF ids[i] # id THEN Append(F[n], ids[i]) ELSE F[n]
        BY <3>1
      <4>2. G[i - 1] = F[n] /\ i # 0
        BY <3>1
      <4> QED BY <4>1, <4>2
    <3>2. CASE i = 0
      BY <3>2, <2>4
    <3>3. CASE i \in 1..n
      <4>1. G[i] = F[i] /\ G[i - 1] = F[i - 1] /\ i \in 0..n /\ i # 0
        BY <3>3
      <4> HIDE DEF G
      <4> QED BY <4>1, <2>4
    <3> QED BY <3>1, <3>2, <3>3
  <2>6. RetainUpTo(G, ids, id, n + 1)
    BY <2>5 DEF RetainUpTo
  <2> QED BY <2>3, <2>6
<1>3. Bad = {}
  <2> HIDE DEF Good
  <2> SUFFICES ASSUME Bad # {} PROVE FALSE
    OBVIOUS
  <2>1. PICK m \in Bad : \A y \in Bad : m <= y
    <3>1. Bad \subseteq Nat
      OBVIOUS
    <3> HIDE DEF Bad
    <3> QED BY <3>1, LeastNat
  <2>2. m # 0
    BY <1>1, <2>1
  <2>3. m - 1 \in Nat /\ m - 1 \in 0..Len(ids) /\ m - 1 \notin Bad
    BY <2>1, <2>2
  <2>4. Good(m - 1)
    BY <2>3
  <2>5. Good((m - 1) + 1)
    BY <2>3, <2>4, <1>2
  <2> QED BY <2>1, <2>5
<1> QED BY <1>3

\* What Vec::retain leaves is a sequence over the other identifiers: none of the
\* occurrences of the deleted one survives, however often it was indexed.
LEMMA RetainDropsId ==
    ASSUME NEW S, NEW ids \in Seq(S), NEW id
    PROVE  Retain(ids, id) \in Seq(S \ {id})
<1>1. PICK F \in [0..Len(ids) -> Seq(S \ {id})] : RetainUpTo(F, ids, id, Len(ids))
  <2>1. Len(ids) \in 0..Len(ids)
    OBVIOUS
  <2> QED BY <2>1, RetainExists
<1> DEFINE G == CHOOSE g : RetainUpTo(g, ids, id, Len(ids))
<1>2. RetainUpTo(G, ids, id, Len(ids))
  BY <1>1
<1>3. Retain(ids, id) = G[Len(ids)]
  BY DEF Retain, RetainUpTo
<1> HIDE DEF G
<1>4. G = F
  BY <1>1, <1>2, RetainUnique
<1> QED BY <1>1, <1>3, <1>4

-----------------------------------------------------------------------------
(* Types *)

\* The arguments each call carries.
LEMMA RequestShapes ==
    ASSUME NEW r \in Requests
    PROVE  /\ r # NoRequest
           /\ r.op \in Ops \cap AllOps
           /\ r.op \in {"create", "update"} => r.key \in Key /\ r.value \in Value
           /\ r.op \in {"read", "delete"} => r.key \in Key
           /\ r.op = "list" => r.namespace \in Namespace
  BY OpsAssumption DEF Requests, NoRequest, AllOps

LEMMA KeyShape ==
    ASSUME NEW k \in Key
    PROVE  k.namespace \in Namespace /\ k.id \in Id
  BY DEF Key

IndType == TypeOK /\ CallShape

\* The answer a returning call leaves is well formed.
LEMMA ReturnType ==
    ASSUME IndType, NEW t \in Thread,
           NEW status \in Statuses, NEW body \in Seq(Value) \cup Seq(Nat),
           Return(t, Answer(status, body))
    PROVE  /\ pc' \in [Thread -> Steps]
           /\ req' \in [Thread -> Requests \cup {NoRequest}]
           /\ ret' \in [Thread -> [status : Statuses, body : Seq(Value) \cup Seq(Nat)]]
           /\ CallShape'
<1>1. Answer(status, body) \in [status : Statuses, body : Seq(Value) \cup Seq(Nat)]
  BY DEF Answer
<1>2. pc' = [pc EXCEPT ![t] = "idle"] /\ req' = [req EXCEPT ![t] = NoRequest]
  BY DEF Return, Goto
<1>3. ret' = [ret EXCEPT ![t] = Answer(status, body)]
  BY DEF Return
<1>4. CallShape'
  BY <1>2 DEF IndType, TypeOK, CallShape, CreateSteps, DeleteSteps, ListSteps, ClearSteps
<1> QED BY <1>1, <1>2, <1>3, <1>4 DEF IndType, TypeOK, Steps

\* Most answers carry no body.
LEMMA ReturnPlainType ==
    ASSUME IndType, NEW t \in Thread, NEW status \in Statuses,
           Return(t, Answer(status, <<>>))
    PROVE  /\ pc' \in [Thread -> Steps]
           /\ req' \in [Thread -> Requests \cup {NoRequest}]
           /\ ret' \in [Thread -> [status : Statuses, body : Seq(Value) \cup Seq(Nat)]]
           /\ CallShape'
<1>1. <<>> \in Seq(Value) \cup Seq(Nat)
  OBVIOUS
<1> QED BY <1>1, ReturnType

\* A call that moves on without returning stays in the same operation.
LEMMA GotoType ==
    ASSUME IndType, NEW t \in Thread, NEW step \in Steps \ {"idle"}, Goto(t, step),
           UNCHANGED req, pc[t] # "idle",
           \/ pc[t] \in CreateSteps /\ step \in CreateSteps
           \/ pc[t] \in DeleteSteps /\ step \in DeleteSteps
           \/ pc[t] \in ListSteps /\ step \in ListSteps
           \/ pc[t] \in ClearSteps /\ step \in ClearSteps
    PROVE  /\ pc' \in [Thread -> Steps]
           /\ req' \in [Thread -> Requests \cup {NoRequest}]
           /\ CallShape'
<1>1. pc' = [pc EXCEPT ![t] = step] /\ req' = req
  BY DEF Goto
<1> QED BY <1>1 DEF IndType, TypeOK, CallShape, CreateSteps, DeleteSteps, ListSteps, ClearSteps

LEMMA PutType ==
    ASSUME NEW S, NEW T, NEW f, IsPartialMap(f, S, T), NEW k \in S, NEW v \in T
    PROVE  IsPartialMap(Put(f, k, v), S, T) /\ DOMAIN Put(f, k, v) = DOMAIN f \cup {k}
  BY DEF IsPartialMap, Put

LEMMA DropType ==
    ASSUME NEW S, NEW T, NEW f, IsPartialMap(f, S, T), NEW k
    PROVE  IsPartialMap(Drop(f, k), S, T) /\ DOMAIN Drop(f, k) = DOMAIN f \ {k}
  BY DEF IsPartialMap, Drop, Restrict

\* Each atomic step of create keeps the types.
LEMMA CreateKeepsTypes ==
    ASSUME IndType, NEW t \in Thread,
           \/ LoadCount(t) \/ CompareExchange(t) \/ InsertEntry(t) \/ ReleaseSlot(t)
           \/ ContainsOrder(t) \/ InsertOrder(t) \/ PushOrder(t)
    PROVE  IndType'
<1> USE LimitAssumption
<1>0. /\ pc[t] \in CreateSteps
      /\ req[t] \in Requests /\ req[t].op = "create"
      /\ req[t].key \in Key /\ req[t].value \in Value
      /\ req[t].key.namespace \in Namespace /\ req[t].key.id \in Id
  <2>1. pc[t] \in CreateSteps
    BY DEF LoadCount, CompareExchange, InsertEntry, ReleaseSlot, ContainsOrder,
           InsertOrder, PushOrder, CreateSteps
  <2>2. req[t] \in Requests /\ req[t].op = "create"
    BY <2>1 DEF IndType, CallShape, CreateSteps
  <2> QED BY <2>1, <2>2, RequestShapes, KeyShape
<1>1. CASE LoadCount(t)
  <2>1. CASE Return(t, Answer("CapacityExceeded", <<>>)) /\ UNCHANGED seen
    BY <1>1, <2>1, ReturnPlainType DEF LoadCount, IndType, TypeOK, Statuses
  <2>2. CASE seen' = [seen EXCEPT ![t] = count] /\ Goto(t, "cas") /\ UNCHANGED <<req, ret>>
    BY <1>0, <1>1, <2>2, GotoType DEF LoadCount, IndType, TypeOK, CreateSteps, Steps
  <2> QED BY <1>1, <2>1, <2>2 DEF LoadCount
<1>2. CASE CompareExchange(t)
  <2>1. count' \in 0..(WordSize - 1)
    BY <1>2 DEF CompareExchange, IndType, TypeOK
  <2>2. Goto(t, "insert") \/ Goto(t, "load")
    BY <1>2 DEF CompareExchange
  <2>3. seen' \in [Thread -> 0..(WordSize - 1)]
    BY <1>2 DEF CompareExchange, IndType, TypeOK
  <2>4. pc' \in [Thread -> Steps] /\ req' \in [Thread -> Requests \cup {NoRequest}] /\ CallShape'
    BY <1>0, <1>2, <2>2, GotoType DEF CompareExchange, CreateSteps, Steps
  <2> QED BY <1>2, <2>1, <2>3, <2>4 DEF CompareExchange, IndType, TypeOK
<1>3. CASE InsertEntry(t)
  <2>1. IsPartialMap(entries', Key, Value)
    <3>1. CASE entries' = entries
      BY <3>1 DEF IndType, TypeOK
    <3>2. CASE entries' = Put(entries, req[t].key, req[t].value)
      BY <1>0, <3>2, PutType DEF IndType, TypeOK
    <3> QED BY <1>3, <3>1, <3>2 DEF InsertEntry
  <2>2. Goto(t, "release") \/ Goto(t, "contains")
    BY <1>3 DEF InsertEntry
  <2> QED BY <1>0, <1>3, <2>1, <2>2, GotoType
          DEF InsertEntry, IndType, TypeOK, CreateSteps, Steps
<1>4. CASE ReleaseSlot(t)
  <2>1. count' \in 0..(WordSize - 1)
    BY <1>4 DEF ReleaseSlot, IndType, TypeOK
  <2> QED BY <1>4, <2>1, ReturnPlainType DEF ReleaseSlot, IndType, TypeOK, Statuses
<1>5. CASE ContainsOrder(t)
  <2>1. Goto(t, "order_push") \/ Goto(t, "order_insert")
    BY <1>5 DEF ContainsOrder
  <2> QED BY <1>0, <1>5, <2>1, GotoType
          DEF ContainsOrder, IndType, TypeOK, CreateSteps, Steps
<1>6. CASE InsertOrder(t)
  <2>1. IsPartialMap(order', Namespace, Seq(Id))
    <3>1. <<req[t].key.id>> \in Seq(Id)
      BY <1>0
    <3> QED BY <1>0, <1>6, <3>1, PutType DEF InsertOrder, IndType, TypeOK
  <2> QED BY <1>6, <2>1, ReturnPlainType DEF InsertOrder, IndType, TypeOK, Statuses
<1>7. CASE PushOrder(t)
  <2>1. IsPartialMap(order', Namespace, Seq(Id))
    <3> DEFINE ns == req[t].key.namespace
    <3>1. CASE ns \in DOMAIN order
      <4>1. order[ns] \in Seq(Id)
        BY <3>1 DEF IndType, TypeOK, IsPartialMap
      <4>2. Append(order[ns], req[t].key.id) \in Seq(Id)
        BY <1>0, <4>1
      <4>3. order' = [order EXCEPT ![ns] = Append(order[ns], req[t].key.id)]
        BY <1>7, <3>1 DEF PushOrder
      <4> QED BY <4>2, <4>3 DEF IndType, TypeOK, IsPartialMap
    <3>2. CASE ns \notin DOMAIN order
      BY <1>7, <3>2 DEF PushOrder, IndType, TypeOK
    <3> QED BY <3>1, <3>2
  <2> QED BY <1>7, <2>1, ReturnPlainType DEF PushOrder, IndType, TypeOK, Statuses
<1> QED BY <1>1, <1>2, <1>3, <1>4, <1>5, <1>6, <1>7

\* Reads, updates and the steps of delete keep the types.
LEMMA KeyedKeepsTypes ==
    ASSUME IndType, NEW t \in Thread,
           Read(t) \/ Update(t) \/ RemoveEntry(t) \/ Uncount(t) \/ RetainOrder(t)
    PROVE  IndType'
<1> USE LimitAssumption
<1>0. /\ req[t].key \in Key
      /\ req[t].key.namespace \in Namespace
      /\ pc[t] = "update" => req[t].value \in Value
  <2>1. pc[t] \in {"read", "update"} \cup DeleteSteps
    BY DEF Read, Update, RemoveEntry, Uncount, RetainOrder, DeleteSteps
  <2>2. /\ req[t] \in Requests /\ req[t].op \in {"read", "update", "delete"}
        /\ pc[t] = "update" => req[t].op = "update"
    BY <2>1 DEF IndType, CallShape, DeleteSteps
  <2> QED BY <2>2, RequestShapes, KeyShape
<1>1. CASE Read(t)
  <2>1. CASE req[t].key \in DOMAIN entries
    <3>1. Return(t, Answer("Ok", <<entries[req[t].key]>>))
      BY <1>1, <2>1 DEF Read
    <3>2. <<entries[req[t].key]>> \in Seq(Value) \cup Seq(Nat)
      BY <2>1 DEF IndType, TypeOK, IsPartialMap
    <3>3. "Ok" \in Statuses
      BY DEF Statuses
    <3> QED BY <1>1, <3>1, <3>2, <3>3, ReturnType DEF Read, IndType, TypeOK
  <2>2. CASE req[t].key \notin DOMAIN entries
    <3>1. Return(t, Answer("NotFound", <<>>))
      BY <1>1, <2>2 DEF Read
    <3> QED BY <1>1, <3>1, ReturnPlainType DEF Read, IndType, TypeOK, Statuses
  <2> QED BY <2>1, <2>2
<1>2. CASE Update(t)
  <2>1. IsPartialMap(entries', Key, Value)
    <3>1. CASE entries' = entries
      BY <3>1 DEF IndType, TypeOK
    <3>2. CASE entries' = [entries EXCEPT ![req[t].key] = req[t].value]
      BY <1>0, <1>2, <3>2 DEF Update, IndType, TypeOK, IsPartialMap
    <3> QED BY <1>2, <3>1, <3>2 DEF Update
  <2>2. \E status \in {"Ok", "NotFound"} : Return(t, Answer(status, <<>>))
    BY <1>2 DEF Update
  <2> QED BY <1>2, <2>1, <2>2, ReturnPlainType DEF Update, IndType, TypeOK, Statuses
<1>3. CASE RemoveEntry(t)
  <2>1. IsPartialMap(entries', Key, Value)
    <3>1. CASE entries' = entries
      BY <3>1 DEF IndType, TypeOK
    <3>2. CASE entries' = Drop(entries, req[t].key)
      BY <3>2, DropType DEF IndType, TypeOK
    <3> QED BY <1>3, <3>1, <3>2 DEF RemoveEntry
  <2>2. CASE Goto(t, "uncount") /\ UNCHANGED <<req, ret>>
    <3>1. pc' \in [Thread -> Steps] /\ req' \in [Thread -> Requests \cup {NoRequest}] /\ CallShape'
      BY <1>3, <2>2, GotoType DEF RemoveEntry, DeleteSteps, Steps
    <3> QED BY <1>3, <2>1, <2>2, <3>1 DEF RemoveEntry, IndType, TypeOK
  <2>3. CASE Return(t, Answer("NotFound", <<>>))
    BY <1>3, <2>1, <2>3, ReturnPlainType DEF RemoveEntry, IndType, TypeOK, Statuses
  <2> QED BY <1>3, <2>2, <2>3 DEF RemoveEntry
<1>4. CASE Uncount(t)
  <2>1. count' \in 0..(WordSize - 1)
    BY <1>4 DEF Uncount, IndType, TypeOK
  <2>2. pc' \in [Thread -> Steps] /\ req' \in [Thread -> Requests \cup {NoRequest}] /\ CallShape'
    BY <1>4, GotoType DEF Uncount, DeleteSteps, Steps
  <2> QED BY <1>4, <2>1, <2>2 DEF Uncount, IndType, TypeOK
<1>5. CASE RetainOrder(t)
  <2> DEFINE ns == req[t].key.namespace
  <2>1. IsPartialMap(order', Namespace, Seq(Id))
    <3>1. CASE ns \in DOMAIN order
      <4>1. order[ns] \in Seq(Id)
        BY <3>1 DEF IndType, TypeOK, IsPartialMap
      <4>2. Retain(order[ns], req[t].key.id) \in Seq(Id \ {req[t].key.id})
        BY <4>1, RetainDropsId
      <4>3. Retain(order[ns], req[t].key.id) \in Seq(Id)
        BY <4>2
      <4>4. order' = [order EXCEPT ![ns] = Retain(order[ns], req[t].key.id)]
        BY <1>5, <3>1 DEF RetainOrder
      <4> QED BY <4>3, <4>4 DEF IndType, TypeOK, IsPartialMap
    <3>2. CASE ns \notin DOMAIN order
      BY <1>5, <3>2 DEF RetainOrder, IndType, TypeOK
    <3> QED BY <3>1, <3>2
  <2> QED BY <1>5, <2>1, ReturnPlainType DEF RetainOrder, IndType, TypeOK, Statuses
<1> QED BY <1>1, <1>2, <1>3, <1>4, <1>5

\* The steps of list and of clear keep the types.
LEMMA ListClearKeepTypes ==
    ASSUME IndType, NEW t \in Thread,
           \/ OpenList(t) \/ LookUp(t) \/ CloseList(t)
           \/ ClearLoad(t) \/ ClearStore(t)
           \/ \E k \in Key : SweepEntry(t, k)
           \/ \E ns \in Namespace : SweepOrder(t, ns)
    PROVE  IndType'
<1> USE LimitAssumption
<1>1. CASE OpenList(t)
  <2>1. CASE req[t].namespace \in DOMAIN order
    <3>1. order[req[t].namespace] \in Seq(Id)
      BY <2>1 DEF IndType, TypeOK, IsPartialMap
    <3>2. unread' \in [Thread -> Seq(Id)] /\ acc' \in [Thread -> Seq(Value)]
      <4>1. <<>> \in Seq(Value)
        OBVIOUS
      <4>2. /\ unread' = [unread EXCEPT ![t] = order[req[t].namespace]]
            /\ acc' = [acc EXCEPT ![t] = <<>>]
        BY <1>1, <2>1 DEF OpenList
      <4> QED BY <3>1, <4>1, <4>2 DEF IndType, TypeOK
    <3>3. pc' \in [Thread -> Steps] /\ req' \in [Thread -> Requests \cup {NoRequest}] /\ CallShape'
      BY <1>1, <2>1, GotoType DEF OpenList, ListSteps, Steps
    <3> QED BY <1>1, <2>1, <3>2, <3>3 DEF OpenList, IndType, TypeOK
  <2>2. CASE req[t].namespace \notin DOMAIN order
    BY <1>1, <2>2, ReturnPlainType DEF OpenList, IndType, TypeOK, Statuses
  <2> QED BY <2>1, <2>2
<1>2. CASE LookUp(t)
  <2> DEFINE k == [namespace |-> req[t].namespace, id |-> Head(unread[t])]
  <2>1. unread[t] \in Seq(Id) /\ unread[t] # <<>> /\ acc[t] \in Seq(Value)
    BY <1>2 DEF LookUp, IndType, TypeOK
  <2>2. Tail(unread[t]) \in Seq(Id)
    BY <2>1
  <2>3. unread' \in [Thread -> Seq(Id)]
    BY <1>2, <2>2 DEF LookUp, IndType, TypeOK
  <2>4. ASSUME k \in DOMAIN entries PROVE Append(acc[t], entries[k]) \in Seq(Value)
    <3>1. entries[k] \in Value
      BY <2>4 DEF IndType, TypeOK, IsPartialMap
    <3> QED BY <2>1, <3>1
  <2>5. acc' \in [Thread -> Seq(Value)]
    <3>1. acc' = [acc EXCEPT ![t] = IF k \in DOMAIN entries
                                    THEN Append(acc[t], entries[k]) ELSE acc[t]]
      BY <1>2 DEF LookUp
    <3> HIDE DEF k
    <3> QED BY <2>1, <2>4, <3>1 DEF IndType, TypeOK
  <2> QED BY <1>2, <2>3, <2>5 DEF LookUp, IndType, TypeOK, CallShape
<1>3. CASE CloseList(t)
  <2>1. acc[t] \in Seq(Value) \cup Seq(Nat) /\ "Ok" \in Statuses
    BY DEF IndType, TypeOK, Statuses
  <2>2. acc' \in [Thread -> Seq(Value)]
    BY <1>3 DEF CloseList, IndType, TypeOK
  <2>3. Return(t, Answer("Ok", acc[t]))
    BY <1>3 DEF CloseList
  <2> QED BY <1>3, <2>1, <2>2, <2>3, ReturnType DEF CloseList, IndType, TypeOK
<1>4. CASE ClearLoad(t)
  <2>1. seen' \in [Thread -> 0..(WordSize - 1)]
    BY <1>4 DEF ClearLoad, IndType, TypeOK
  <2>2. pc' \in [Thread -> Steps] /\ req' \in [Thread -> Requests \cup {NoRequest}] /\ CallShape'
    BY <1>4, GotoType DEF ClearLoad, ClearSteps, Steps
  <2> QED BY <1>4, <2>1, <2>2 DEF ClearLoad, IndType, TypeOK
<1>5. CASE ClearStore(t)
  <2>1. <<seen[t]>> \in Seq(Value) \cup Seq(Nat) /\ "Ok" \in Statuses
    BY DEF IndType, TypeOK, Statuses
  <2>2. seen' \in [Thread -> 0..(WordSize - 1)] /\ count' \in 0..(WordSize - 1)
    BY <1>5 DEF ClearStore, IndType, TypeOK
  <2>3. Return(t, Answer("Ok", <<seen[t]>>))
    BY <1>5 DEF ClearStore
  <2> QED BY <1>5, <2>1, <2>2, <2>3, ReturnType DEF ClearStore, IndType, TypeOK
<1>6. ASSUME NEW k \in Key, SweepEntry(t, k) PROVE IndType'
  <2>1. IsPartialMap(entries', Key, Value)
    BY <1>6, DropType DEF SweepEntry, IndType, TypeOK
  <2>2. unswept' \in [Thread -> (SUBSET Key) \cup (SUBSET Namespace)]
    BY <1>6 DEF SweepEntry, IndType, TypeOK
  <2>3. CASE Goto(t, "sweep_order")
    <3>1. pc' \in [Thread -> Steps] /\ req' \in [Thread -> Requests \cup {NoRequest}] /\ CallShape'
      BY <1>6, <2>3, GotoType DEF SweepEntry, ClearSteps, Steps
    <3> QED BY <1>6, <2>1, <2>2, <3>1 DEF SweepEntry, IndType, TypeOK
  <2>4. CASE UNCHANGED pc
    BY <1>6, <2>1, <2>2, <2>4 DEF SweepEntry, IndType, TypeOK, CallShape
  <2> QED BY <1>6, <2>3, <2>4 DEF SweepEntry
<1>7. ASSUME NEW ns \in Namespace, SweepOrder(t, ns) PROVE IndType'
  <2>1. IsPartialMap(order', Namespace, Seq(Id))
    BY <1>7, DropType DEF SweepOrder, IndType, TypeOK
  <2>2. unswept' \in [Thread -> (SUBSET Key) \cup (SUBSET Namespace)]
    BY <1>7 DEF SweepOrder, IndType, TypeOK
  <2>3. CASE Goto(t, "clear_store")
    <3>1. pc' \in [Thread -> Steps] /\ req' \in [Thread -> Requests \cup {NoRequest}] /\ CallShape'
      BY <1>7, <2>3, GotoType DEF SweepOrder, ClearSteps, Steps
    <3> QED BY <1>7, <2>1, <2>2, <3>1 DEF SweepOrder, IndType, TypeOK
  <2>4. CASE UNCHANGED pc
    BY <1>7, <2>1, <2>2, <2>4 DEF SweepOrder, IndType, TypeOK, CallShape
  <2> QED BY <1>7, <2>3, <2>4 DEF SweepOrder
<1> QED BY <1>1, <1>2, <1>3, <1>4, <1>5, <1>6, <1>7

LEMMA InvokeKeepsTypes ==
    ASSUME IndType, NEW t \in Thread, NEW r \in Requests, Invoke(t, r)
    PROVE  IndType'
<1>1. r.op \in AllOps
  BY RequestShapes
<1>2. Entry(r.op) \in Steps
  BY <1>1 DEF AllOps, Entry, Steps, CreateSteps, DeleteSteps, ListSteps, ClearSteps
<1>3. pc' = [pc EXCEPT ![t] = Entry(r.op)] /\ req' = [req EXCEPT ![t] = r]
  BY DEF Invoke, Goto
<1>4. NoAnswer \in [status : Statuses, body : Seq(Value) \cup Seq(Nat)]
  <2>1. <<>> \in Seq(Value)
    OBVIOUS
  <2> QED BY <2>1 DEF NoAnswer, Statuses
<1>5. ret' \in [Thread -> [status : Statuses, body : Seq(Value) \cup Seq(Nat)]]
  BY <1>4 DEF Invoke, IndType, TypeOK
<1>6. CallShape'
  <2> SUFFICES ASSUME NEW u \in Thread PROVE CallShape!(u)'
    BY DEF CallShape
  <2>1. CASE u # t
    BY <1>3, <2>1 DEF IndType, TypeOK, CallShape
  <2>2. CASE u = t
    BY <1>1, <1>3, <2>2 DEF IndType, TypeOK, AllOps, Entry,
       CreateSteps, DeleteSteps, ListSteps, ClearSteps
  <2> QED BY <2>1, <2>2
<1> QED BY <1>2, <1>3, <1>5, <1>6 DEF Invoke, IndType, TypeOK

LEMMA InitTypes == Init => IndType
<1> SUFFICES ASSUME Init PROVE IndType
  OBVIOUS
<1>1. NoAnswer \in [status : Statuses, body : Seq(Value) \cup Seq(Nat)]
  <2>1. <<>> \in Seq(Value)
    OBVIOUS
  <2> QED BY <2>1 DEF NoAnswer, Statuses
<1>2. IsPartialMap(entries, Key, Value) /\ IsPartialMap(order, Namespace, Seq(Id))
  BY DEF Init, IsPartialMap
<1> QED BY <1>1, <1>2, LimitAssumption
        DEF Init, IndType, TypeOK, CallShape, Steps, CreateSteps, DeleteSteps, ListSteps, ClearSteps

LEMMA NextKeepsTypes == IndType /\ [Next]_vars => IndType'
<1> SUFFICES ASSUME IndType, [Next]_vars PROVE IndType'
  OBVIOUS
<1>1. ASSUME NEW t \in Thread, Step(t) PROVE IndType'
  BY <1>1, CreateKeepsTypes, KeyedKeepsTypes, ListClearKeepTypes DEF Step
<1>2. ASSUME NEW t \in Thread, NEW r \in Requests, Invoke(t, r) PROVE IndType'
  BY <1>2, InvokeKeepsTypes
<1>3. CASE UNCHANGED vars
  BY <1>3 DEF vars, IndType, TypeOK, CallShape
<1> QED BY <1>1, <1>2, <1>3 DEF Next

\* Whatever the threads call, in any interleaving, every variable of the store
\* keeps its type; a delete that races a create leaves a well-formed index.
THEOREM TypeCorrect == Spec => []TypeOK
<1>1. IndType => TypeOK
  BY DEF IndType
<1> QED BY <1>1, InitTypes, NextKeepsTypes, PTL DEF Spec

-----------------------------------------------------------------------------
(* The counter *)

SlotSteps == {"insert", "release", "uncount"}

LEMMA ModSmall ==
    ASSUME NEW a \in Nat, NEW b \in Nat, a < b
    PROVE  a % b = a
  OBVIOUS

\* How moving one thread changes the set of slot holders.
LEMMA HoldersChange ==
    ASSUME NEW t \in Thread, NEW step, pc \in [Thread -> Steps], Goto(t, step)
    PROVE  /\ IsFiniteSet(SlotHolders) /\ Cardinality(SlotHolders) \in Nat
           /\ IsFiniteSet(SlotHolders')
           /\ pc[t] \notin SlotSteps /\ step \in SlotSteps =>
                Cardinality(SlotHolders') = Cardinality(SlotHolders) + 1
           /\ pc[t] \in SlotSteps /\ step \notin SlotSteps =>
                Cardinality(SlotHolders') = Cardinality(SlotHolders) - 1
           /\ (pc[t] \in SlotSteps <=> step \in SlotSteps) =>
                Cardinality(SlotHolders') = Cardinality(SlotHolders)
<1>1. pc' = [pc EXCEPT ![t] = step]
  BY DEF Goto
<1>2. IsFiniteSet(SlotHolders)
  BY ThreadAssumption, FS_Subset DEF SlotHolders
<1>3. Cardinality(SlotHolders) \in Nat
  BY <1>2, FS_CardinalityType
<1>4. IsFiniteSet(SlotHolders')
  <2>1. SlotHolders' \subseteq Thread
    BY DEF SlotHolders
  <2> QED BY <2>1, ThreadAssumption, FS_Subset
<1>5. ASSUME pc[t] \notin SlotSteps, step \in SlotSteps
      PROVE  Cardinality(SlotHolders') = Cardinality(SlotHolders) + 1
  <2>1. SlotHolders' = SlotHolders \cup {t} /\ t \notin SlotHolders
    BY <1>1, <1>5 DEF SlotHolders, SlotSteps
  <2> QED BY <1>2, <2>1, FS_AddElement
<1>6. ASSUME pc[t] \in SlotSteps, step \notin SlotSteps
      PROVE  Cardinality(SlotHolders') = Cardinality(SlotHolders) - 1
  <2>1. SlotHolders' = SlotHolders \ {t} /\ t \in SlotHolders
    BY <1>1, <1>6 DEF SlotHolders, SlotSteps
  <2> QED BY <1>2, <2>1, FS_RemoveElement
<1>7. ASSUME pc[t] \in SlotSteps <=> step \in SlotSteps
      PROVE  Cardinality(SlotHolders') = Cardinality(SlotHolders)
  <2>1. SlotHolders' = SlotHolders
    BY <1>1, <1>7 DEF SlotHolders, SlotSteps
  <2> QED BY <2>1
<1> QED BY <1>2, <1>3, <1>4, <1>5, <1>6, <1>7

\* The inductive invariant of the counter.
CountInv ==
    /\ IndType
    /\ IsFiniteSet(DOMAIN entries)
    /\ CountAccounting
    /\ SlotsBounded

LEMMA CreateKeepsCount ==
    ASSUME CountInv, NEW t \in Thread,
           \/ LoadCount(t) \/ CompareExchange(t) \/ InsertEntry(t) \/ ReleaseSlot(t)
           \/ ContainsOrder(t) \/ InsertOrder(t) \/ PushOrder(t)
    PROVE  CountInv'
<1> USE LimitAssumption
<1>0. IndType' /\ pc \in [Thread -> Steps] /\ count \in Nat /\ Cardinality(DOMAIN entries) \in Nat
  <2>1. IndType /\ IsFiniteSet(DOMAIN entries)
    BY DEF CountInv
  <2>2. IndType'
    BY <2>1, CreateKeepsTypes
  <2>3. Cardinality(DOMAIN entries) \in Nat
    BY <2>1, FS_CardinalityType
  <2>4. count \in 0..(WordSize - 1) /\ pc \in [Thread -> Steps]
    BY <2>1 DEF IndType, TypeOK
  <2>5. count \in Nat
    BY <2>4
  <2> QED BY <2>2, <2>3, <2>4, <2>5
<1>1. CASE LoadCount(t)
  <2>1. \/ Goto(t, "idle") /\ UNCHANGED seen
        \/ Goto(t, "cas") /\ seen' = [seen EXCEPT ![t] = count] /\ count < Limit
    BY <1>1 DEF LoadCount, Return
  <2>2. Cardinality(SlotHolders') = Cardinality(SlotHolders)
    BY <1>0, <1>1, <2>1, HoldersChange DEF LoadCount, SlotSteps
  <2>3. SlotsBounded'
    BY <1>0, <1>1, <2>1 DEF LoadCount, Return, Goto, CountInv, SlotsBounded, IndType, TypeOK
  <2> QED BY <1>0, <1>1, <2>2, <2>3 DEF LoadCount, CountInv, CountAccounting
<1>2. CASE CompareExchange(t)
  <2>1. CASE count # seen[t]
    <3>1. Cardinality(SlotHolders') = Cardinality(SlotHolders)
      BY <1>0, <1>2, <2>1, HoldersChange DEF CompareExchange, SlotSteps
    <3>2. SlotsBounded'
      BY <1>0, <1>2, <2>1 DEF CompareExchange, Goto, CountInv, SlotsBounded, IndType, TypeOK
    <3> QED BY <1>0, <1>2, <2>1, <3>1, <3>2 DEF CompareExchange, CountInv, CountAccounting
  <2>2. CASE count = seen[t]
    <3>1. Cardinality(SlotHolders') = Cardinality(SlotHolders) + 1
      BY <1>0, <1>2, <2>2, HoldersChange DEF CompareExchange, SlotSteps
    <3>2. count < Limit
      BY <1>2, <2>2 DEF CompareExchange, CountInv, SlotsBounded
    <3>3. count' = count + 1
      BY <1>0, <1>2, <2>2, <3>2, ModSmall DEF CompareExchange
    <3>4. SlotsBounded'
      BY <1>0, <1>2, <2>2, <3>2, <3>3 DEF CompareExchange, Goto, CountInv, SlotsBounded, IndType, TypeOK
    <3>5. CountAccounting'
      <4>1. entries' = entries /\ Cardinality(SlotHolders) \in Nat
        BY <1>0, <1>2, <2>2, HoldersChange DEF CompareExchange
      <4> QED BY <1>0, <3>1, <3>3, <4>1 DEF CountInv, CountAccounting
    <3> QED BY <1>0, <1>2, <3>4, <3>5 DEF CompareExchange, CountInv
  <2> QED BY <2>1, <2>2
<1>3. CASE InsertEntry(t)
  <2>0. SlotsBounded'
    BY <1>0, <1>3 DEF InsertEntry, Goto, CountInv, SlotsBounded, IndType, TypeOK
  <2>1. CASE req[t].key \in DOMAIN entries
    <3>1. Cardinality(SlotHolders') = Cardinality(SlotHolders)
      BY <1>0, <1>3, <2>1, HoldersChange DEF InsertEntry, SlotSteps
    <3> QED BY <1>0, <1>3, <2>0, <2>1, <3>1 DEF InsertEntry, CountInv, CountAccounting
  <2>2. CASE req[t].key \notin DOMAIN entries
    <3>1. Cardinality(SlotHolders') = Cardinality(SlotHolders) - 1 /\ Cardinality(SlotHolders) \in Nat
      BY <1>0, <1>3, <2>2, HoldersChange DEF InsertEntry, SlotSteps
    <3>2. DOMAIN entries' = DOMAIN entries \cup {req[t].key}
      BY <1>3, <2>2 DEF InsertEntry, Put
    <3>3. /\ IsFiniteSet(DOMAIN entries')
          /\ Cardinality(DOMAIN entries') = Cardinality(DOMAIN entries) + 1
      BY <2>2, <3>2, FS_AddElement DEF CountInv
    <3>4. CountAccounting'
      <4>1. count' = count
        BY <1>3 DEF InsertEntry
      <4> QED BY <1>0, <3>1, <3>3, <4>1 DEF CountInv, CountAccounting
    <3> QED BY <1>0, <2>0, <3>3, <3>4 DEF CountInv
  <2> QED BY <2>1, <2>2
<1>4. CASE ReleaseSlot(t)
  <2>1. Cardinality(SlotHolders') = Cardinality(SlotHolders) - 1 /\ Cardinality(SlotHolders) \in Nat
    BY <1>0, <1>4, HoldersChange DEF ReleaseSlot, Return, SlotSteps
  <2>2. t \in SlotHolders
    BY <1>4 DEF ReleaseSlot, SlotHolders
  <2>3. count >= 1
    <3>1. Cardinality(SlotHolders) # 0
      BY <1>0, <1>4, <2>2, HoldersChange, FS_EmptySet DEF ReleaseSlot, Return
    <3> QED BY <1>0, <2>1, <3>1 DEF CountInv, CountAccounting
  <2>4. count' = count - 1
    BY <1>0, <1>4, <2>3, ModSmall DEF ReleaseSlot, CountInv, SlotsBounded
  <2>5. SlotsBounded'
    BY <1>0, <1>4, <2>3, <2>4 DEF ReleaseSlot, Return, Goto, CountInv, SlotsBounded, IndType, TypeOK
  <2>6. CountAccounting'
    <3>1. entries' = entries
      BY <1>4 DEF ReleaseSlot
    <3> QED BY <1>0, <2>1, <2>4, <3>1 DEF CountInv, CountAccounting
  <2> QED BY <1>0, <1>4, <2>5, <2>6 DEF ReleaseSlot, CountInv
<1>5. CASE ContainsOrder(t) \/ InsertOrder(t) \/ PushOrder(t)
  <2>1. /\ UNCHANGED <<entries, count, seen>>
        /\ \E step \in {"idle", "order_push", "order_insert"} : Goto(t, step)
        /\ pc[t] \notin SlotSteps
    BY <1>5 DEF ContainsOrder, InsertOrder, PushOrder, Return, SlotSteps
  <2>2. PICK step \in {"idle", "order_push", "order_insert"} : Goto(t, step)
    BY <2>1
  <2>3. Cardinality(SlotHolders') = Cardinality(SlotHolders)
    BY <1>0, <2>1, <2>2, HoldersChange DEF SlotSteps
  <2>4. SlotsBounded'
    BY <1>0, <2>1, <2>2 DEF Goto, CountInv, SlotsBounded, IndType, TypeOK
  <2> QED BY <1>0, <2>1, <2>3, <2>4 DEF CountInv, CountAccounting
<1> QED BY <1>1, <1>2, <1>3, <1>4, <1>5

LEMMA KeyedKeepsCount ==
    ASSUME CountInv, NEW t \in Thread,
           \/ Read(t) \/ Update(t) \/ RemoveEntry(t) \/ Uncount(t) \/ RetainOrder(t)
           \/ OpenList(t) \/ LookUp(t) \/ CloseList(t)
    PROVE  CountInv'
<1> USE LimitAssumption
<1>0. IndType' /\ pc \in [Thread -> Steps] /\ count \in Nat /\ Cardinality(DOMAIN entries) \in Nat
  <2>1. IndType /\ IsFiniteSet(DOMAIN entries)
    BY DEF CountInv
  <2>2. IndType'
    BY <2>1, KeyedKeepsTypes, ListClearKeepTypes
  <2>3. Cardinality(DOMAIN entries) \in Nat
    BY <2>1, FS_CardinalityType
  <2>4. count \in 0..(WordSize - 1) /\ pc \in [Thread -> Steps]
    BY <2>1 DEF IndType, TypeOK
  <2>5. count \in Nat
    BY <2>4
  <2> QED BY <2>2, <2>3, <2>4, <2>5
<1>1. CASE RemoveEntry(t) /\ req[t].key \in DOMAIN entries
  <2>1. Goto(t, "uncount") /\ pc[t] = "remove" /\ count' = count /\ seen' = seen
    BY <1>1 DEF RemoveEntry
  <2>2. Cardinality(SlotHolders') = Cardinality(SlotHolders) + 1 /\ Cardinality(SlotHolders) \in Nat
    BY <1>0, <2>1, HoldersChange DEF SlotSteps
  <2>3. DOMAIN entries' = DOMAIN entries \ {req[t].key}
    BY <1>1 DEF RemoveEntry, Drop, Restrict
  <2>4. /\ IsFiniteSet(DOMAIN entries')
        /\ Cardinality(DOMAIN entries') = Cardinality(DOMAIN entries) - 1
    BY <1>1, <2>3, FS_RemoveElement DEF CountInv
  <2>5. SlotsBounded'
    BY <1>0, <2>1 DEF Goto, CountInv, SlotsBounded, IndType, TypeOK
  <2>6. CountAccounting'
    BY <1>0, <2>1, <2>2, <2>4 DEF CountInv, CountAccounting
  <2> QED BY <1>0, <2>4, <2>5, <2>6 DEF CountInv
<1>2. CASE Uncount(t)
  <2>1. Goto(t, "retain") /\ pc[t] = "uncount" /\ entries' = entries /\ seen' = seen
    BY <1>2 DEF Uncount
  <2>2. Cardinality(SlotHolders') = Cardinality(SlotHolders) - 1 /\ Cardinality(SlotHolders) \in Nat
    BY <1>0, <2>1, HoldersChange DEF SlotSteps
  <2>3. count >= 1
    <3>1. t \in SlotHolders /\ IsFiniteSet(SlotHolders)
      BY <1>0, <2>1, HoldersChange DEF SlotHolders
    <3>2. Cardinality(SlotHolders) # 0
      BY <3>1, FS_EmptySet
    <3> QED BY <1>0, <2>2, <3>2 DEF CountInv, CountAccounting
  <2>4. count' = count - 1
    BY <1>0, <1>2, <2>3, ModSmall DEF Uncount, CountInv, SlotsBounded
  <2>5. SlotsBounded'
    BY <1>0, <2>1, <2>3, <2>4 DEF Goto, CountInv, SlotsBounded, IndType, TypeOK
  <2>6. CountAccounting'
    BY <1>0, <2>1, <2>2, <2>4 DEF CountInv, CountAccounting
  <2> QED BY <1>0, <2>1, <2>5, <2>6 DEF CountInv
<1>3. CASE \/ Read(t) \/ Update(t) \/ RetainOrder(t) \/ OpenList(t) \/ LookUp(t) \/ CloseList(t)
           \/ RemoveEntry(t) /\ req[t].key \notin DOMAIN entries
  <2>1. /\ DOMAIN entries' = DOMAIN entries /\ count' = count /\ seen' = seen
        /\ pc[t] \notin SlotSteps
    BY <1>3 DEF Read, Update, RetainOrder, OpenList, LookUp, CloseList, RemoveEntry, SlotSteps
  <2>2. PICK step \in {"idle", "look_up"} : Goto(t, step)
    BY <1>0, <1>3 DEF Read, Update, RetainOrder, OpenList, LookUp, CloseList, RemoveEntry, Return, Goto
  <2>3. Cardinality(SlotHolders') = Cardinality(SlotHolders)
    BY <1>0, <2>1, <2>2, HoldersChange DEF SlotSteps
  <2>4. SlotsBounded'
    BY <1>0, <2>1, <2>2 DEF Goto, CountInv, SlotsBounded, IndType, TypeOK
  <2> QED BY <1>0, <2>1, <2>3, <2>4 DEF CountInv, CountAccounting
<1> QED BY <1>1, <1>2, <1>3

LEMMA InitCount == Init => CountInv
<1> SUFFICES ASSUME Init PROVE CountInv
  OBVIOUS
<1>1. IndType
  BY InitTypes
<1>2. DOMAIN entries = {} /\ SlotHolders = {} /\ count = 0
  BY DEF Init, SlotHolders
<1>3. SlotsBounded
  BY LimitAssumption DEF Init, SlotsBounded
<1> QED BY <1>1, <1>2, <1>3, FS_EmptySet DEF CountInv, CountAccounting

\* The beginning of a call holds no slot.
LEMMA InvokeKeepsCount ==
    ASSUME CountInv, NEW t \in Thread, NEW r \in Requests, Invoke(t, r)
    PROVE  CountInv'
<1>0. IndType'
  BY InvokeKeepsTypes DEF CountInv
<1>1. r.op \in AllOps
  BY RequestShapes
<1>2. Entry(r.op) \notin SlotSteps \cup {"cas"}
  BY <1>1 DEF AllOps, Entry, SlotSteps
<1>3. pc[t] = "idle" /\ Goto(t, Entry(r.op)) /\ entries' = entries /\ count' = count /\ seen' = seen
  BY DEF Invoke
<1>4. pc \in [Thread -> Steps]
  BY DEF CountInv, IndType, TypeOK
<1>5. Cardinality(SlotHolders') = Cardinality(SlotHolders)
  BY <1>2, <1>3, <1>4, HoldersChange DEF SlotSteps
<1>6. SlotsBounded'
  BY <1>2, <1>3, <1>4 DEF Goto, CountInv, SlotsBounded
<1> QED BY <1>0, <1>3, <1>5, <1>6 DEF CountInv, CountAccounting

\* Without clear among the calls, no thread is in one.
LEMMA NextKeepsCount ==
    ASSUME "clear" \notin Ops
    PROVE  CountInv /\ [Next]_vars => CountInv'
<1> SUFFICES ASSUME CountInv, [Next]_vars PROVE CountInv'
  OBVIOUS
<1>1. \A t \in Thread : pc[t] \notin ClearSteps
  BY RequestShapes DEF CountInv, IndType, CallShape, ClearSteps
<1>2. ASSUME NEW t \in Thread, Step(t) PROVE CountInv'
  <2>1. /\ ~ClearLoad(t) /\ ~ClearStore(t)
        /\ \A k \in Key : ~SweepEntry(t, k)
        /\ \A ns \in Namespace : ~SweepOrder(t, ns)
    BY <1>1 DEF ClearLoad, ClearStore, SweepEntry, SweepOrder, ClearSteps
  <2> QED BY <1>2, <2>1, CreateKeepsCount, KeyedKeepsCount DEF Step
<1>3. ASSUME NEW t \in Thread, NEW r \in Requests, Invoke(t, r) PROVE CountInv'
  BY <1>3, InvokeKeepsCount
<1>4. CASE UNCHANGED vars
  <2>1. IndType'
    BY <1>4, NextKeepsTypes DEF CountInv
  <2> QED BY <1>4, <2>1 DEF vars, CountInv, CountAccounting, SlotHolders, SlotsBounded
<1> QED BY <1>2, <1>3, <1>4 DEF Next

\* As long as the store is not cleared, its counter is exact in every state: live
\* entries plus the slots of calls in flight.
THEOREM CounterIsExact ==
    ASSUME "clear" \notin Ops
    PROVE  Spec => []CountAccounting
<1>1. CountInv => CountAccounting
  BY DEF CountInv
<1> QED BY <1>1, InitCount, NextKeepsCount, PTL DEF Spec

\* As long as the store is not cleared, it never holds more entries than the limit
\* it was built with, however many creates race.
THEOREM CapacityHolds ==
    ASSUME "clear" \notin Ops
    PROVE  Spec => []CapacityRespected
<1>1. CountInv => CapacityRespected
  <2> SUFFICES ASSUME CountInv PROVE CapacityRespected
    OBVIOUS
  <2>1. Cardinality(DOMAIN entries) \in Nat
    BY FS_CardinalityType DEF CountInv
  <2>2. Cardinality(SlotHolders) \in Nat
    BY ThreadAssumption, FS_Subset, FS_CardinalityType DEF SlotHolders
  <2> QED BY <2>1, <2>2, LimitAssumption DEF CountInv, CountAccounting, SlotsBounded, CapacityRespected
<1> QED BY <1>1, InitCount, NextKeepsCount, PTL DEF Spec

-----------------------------------------------------------------------------
(* Linearizability *)

\* What a thread at step s of call r, with a in its answer slot, looks like from
\* the outside.
CallSeen(s, r) == IF s \in SettledSteps THEN NoRequest ELSE r
AnswerSeen(s, a) == IF s = "release" THEN Answer("AlreadyExists", <<>>)
                    ELSE IF s \in SettledSteps THEN Answer("Ok", <<>>)
                    ELSE a

\* What it has left to do on the index, with u to look up and b collected.
WorkSeen(s, r, u, b) ==
    CASE s \in {"contains", "order_push"} -> [op |-> "create", key |-> r.key]
      [] s = "order_insert"              -> [op |-> "first", key |-> r.key]
      [] s \in {"uncount", "retain"}     -> [op |-> "delete", key |-> r.key]
      [] s = "look_up" -> [op |-> "list", rest |-> u, body |-> b]
      [] OTHER -> NoRequest

WorkSteps == {"contains", "order_push", "order_insert", "uncount", "retain", "look_up"}

LEMMA WorkIs ==
    ASSUME NEW s, NEW r, NEW u, NEW b
    PROVE  /\ s \notin WorkSteps => WorkSeen(s, r, u, b) = NoRequest
           /\ s \in {"contains", "order_push"} =>
                WorkSeen(s, r, u, b) = [op |-> "create", key |-> r.key]
           /\ s = "order_insert" => WorkSeen(s, r, u, b) = [op |-> "first", key |-> r.key]
           /\ s \in {"uncount", "retain"} => WorkSeen(s, r, u, b) = [op |-> "delete", key |-> r.key]
           /\ s = "look_up" => WorkSeen(s, r, u, b) = [op |-> "list", rest |-> u, body |-> b]
           /\ WorkSeen(s, r, u, b).op = "list" => s = "look_up"
  BY DEF WorkSeen, WorkSteps, NoRequest

LEMMA SeenNow ==
    ASSUME NEW t \in Thread
    PROVE  /\ PendingCall[t] = CallSeen(pc[t], req[t])
           /\ GivenAnswer[t] = AnswerSeen(pc[t], ret[t])
           /\ WorkLeft[t] = WorkSeen(pc[t], req[t], unread[t], acc[t])
  BY DEF PendingCall, GivenAnswer, WorkLeft, CallSeen, AnswerSeen, WorkSeen

\* A step of one thread leaves the other threads alone.
OthersKeep(t) ==
    \A u \in Thread \ {t} : /\ pc'[u] = pc[u] /\ req'[u] = req[u] /\ ret'[u] = ret[u]
                            /\ unread'[u] = unread[u] /\ acc'[u] = acc[u]

\* So it changes what is seen of that thread only.
LEMMA SeenNext ==
    ASSUME NEW t \in Thread, OthersKeep(t)
    PROVE  /\ PendingCall' = [PendingCall EXCEPT ![t] = CallSeen(pc'[t], req'[t])]
           /\ GivenAnswer' = [GivenAnswer EXCEPT ![t] = AnswerSeen(pc'[t], ret'[t])]
           /\ WorkLeft' = [WorkLeft EXCEPT ![t] = WorkSeen(pc'[t], req'[t], unread'[t], acc'[t])]
<1>1. /\ PendingCall' = [u \in Thread |-> CallSeen(pc'[u], req'[u])]
      /\ GivenAnswer' = [u \in Thread |-> AnswerSeen(pc'[u], ret'[u])]
      /\ WorkLeft' = [u \in Thread |-> WorkSeen(pc'[u], req'[u], unread'[u], acc'[u])]
  BY DEF PendingCall, GivenAnswer, WorkLeft, CallSeen, AnswerSeen, WorkSeen
<1>2. /\ PendingCall = [u \in Thread |-> CallSeen(pc[u], req[u])]
      /\ GivenAnswer = [u \in Thread |-> AnswerSeen(pc[u], ret[u])]
      /\ WorkLeft = [u \in Thread |-> WorkSeen(pc[u], req[u], unread[u], acc[u])]
  BY DEF PendingCall, GivenAnswer, WorkLeft, CallSeen, AnswerSeen, WorkSeen
<1> QED BY <1>1, <1>2 DEF OthersKeep

\* A step that does not touch the ordering leaves the index as it is.
LEMMA IndexSame == order' = order => OrderIndex' = OrderIndex
  BY DEF OrderIndex

\* A thread that has no work before and after a step leaves the work as it is.
LEMMA WorkSame ==
    ASSUME NEW t \in Thread, OthersKeep(t), pc[t] \notin WorkSteps, pc'[t] \notin WorkSteps
    PROVE  WorkLeft' = WorkLeft
<1>1. WorkLeft[t] = NoRequest /\ WorkLeft' = [WorkLeft EXCEPT ![t] = NoRequest]
  BY SeenNow, SeenNext, WorkIs
<1>2. WorkLeft' = [WorkLeft EXCEPT ![t] = WorkLeft[t]]
  BY <1>1
<1> QED BY <1>2 DEF WorkLeft

\* A step that changes neither what is seen nor the entries and their ordering stutters.
LEMMA SeenSame ==
    ASSUME NEW t \in Thread, OthersKeep(t),
           CallSeen(pc'[t], req'[t]) = CallSeen(pc[t], req[t]),
           AnswerSeen(pc'[t], ret'[t]) = AnswerSeen(pc[t], ret[t]),
           WorkSeen(pc'[t], req'[t], unread'[t], acc'[t]) = WorkSeen(pc[t], req[t], unread[t], acc[t]),
           entries' = entries, order' = order
    PROVE  UNCHANGED Linear!vars
<1>1. /\ PendingCall' = [PendingCall EXCEPT ![t] = PendingCall[t]]
      /\ GivenAnswer' = [GivenAnswer EXCEPT ![t] = GivenAnswer[t]]
      /\ WorkLeft' = [WorkLeft EXCEPT ![t] = WorkLeft[t]]
  BY SeenNow, SeenNext
<1>2. PendingCall' = PendingCall /\ GivenAnswer' = GivenAnswer
  BY <1>1 DEF PendingCall, GivenAnswer
<1>3. WorkLeft' = WorkLeft
  BY <1>1 DEF WorkLeft
<1> QED BY <1>2, <1>3, IndexSame DEF Linear!vars

\* Before its call settles a thread is seen in that call.
LEMMA CalledNow ==
    ASSUME NEW t \in Thread, NEW op, pc[t] \notin SettledSteps, req[t].op = op
    PROVE  PendingCall[t] = req[t] /\ Linear!Called(t, op)
  BY SeenNow DEF CallSeen, Linear!Called

\* A return before the call settles is the abstract response, and leaves no work.
LEMMA ReturnResponds ==
    ASSUME IndType, NEW t \in Thread, NEW status, NEW body,
           Return(t, Answer(status, body)),
           \A u \in Thread \ {t} : unread'[u] = unread[u] /\ acc'[u] = acc[u]
    PROVE  /\ OthersKeep(t) /\ pc'[t] = "idle" /\ Linear!Respond(t, status, body)
           /\ WorkLeft' = [WorkLeft EXCEPT ![t] = NoRequest]
           /\ pc[t] \notin WorkSteps => WorkLeft' = WorkLeft
<1>1. /\ OthersKeep(t)
      /\ pc'[t] = "idle" /\ req'[t] = NoRequest /\ ret'[t] = Answer(status, body)
  BY DEF Return, Goto, OthersKeep, IndType, TypeOK
<1>2. /\ PendingCall' = [PendingCall EXCEPT ![t] = CallSeen("idle", NoRequest)]
      /\ GivenAnswer' = [GivenAnswer EXCEPT ![t] = AnswerSeen("idle", Answer(status, body))]
  BY <1>1, SeenNext
<1>3. WorkLeft' = [WorkLeft EXCEPT ![t] = NoRequest]
  BY <1>1, SeenNext, WorkIs DEF WorkSteps
<1>4. pc[t] \notin WorkSteps => WorkLeft' = WorkLeft
  BY <1>1, WorkSame DEF WorkSteps
<1> QED BY <1>1, <1>2, <1>3, <1>4 DEF CallSeen, AnswerSeen, SettledSteps, Linear!Respond,
                          Linear!NoRequest, NoRequest, Answer, Linear!Answer

\* So is the step at which a call settles, and it leaves what WorkSeen says.
LEMMA SettleResponds ==
    ASSUME IndType, NEW t \in Thread, NEW s \in SettledSteps, Goto(t, s),
           UNCHANGED <<req, ret, unread, acc>>
    PROVE  /\ Linear!Respond(t, IF s = "release" THEN "AlreadyExists" ELSE "Ok", <<>>)
           /\ WorkLeft' = [WorkLeft EXCEPT ![t] = WorkSeen(s, req[t], unread[t], acc[t])]
           /\ pc[t] \notin WorkSteps /\ s = "release" => WorkLeft' = WorkLeft
<1>1. /\ OthersKeep(t) /\ pc'[t] = s /\ req'[t] = req[t] /\ ret'[t] = ret[t]
      /\ unread'[t] = unread[t] /\ acc'[t] = acc[t]
  BY DEF Goto, OthersKeep, IndType, TypeOK
<1>2. /\ PendingCall' = [PendingCall EXCEPT ![t] = CallSeen(s, req[t])]
      /\ GivenAnswer' = [GivenAnswer EXCEPT ![t] = AnswerSeen(s, ret[t])]
      /\ WorkLeft' = [WorkLeft EXCEPT ![t] = WorkSeen(s, req[t], unread[t], acc[t])]
  BY <1>1, SeenNext
<1>3. pc[t] \notin WorkSteps /\ s = "release" => WorkLeft' = WorkLeft
  BY <1>1, WorkSame DEF WorkSteps
<1> QED BY <1>2, <1>3 DEF CallSeen, AnswerSeen, Linear!Respond, Linear!NoRequest,
                    NoRequest, Answer, Linear!Answer

\* The facts about the counter that the abstract capacity conditions need.
LEMMA RoomWhileHolding ==
    ASSUME CountInv, NEW t \in Thread
    PROVE  /\ t \in SlotHolders => Cardinality(DOMAIN entries) < Limit
           /\ t \notin SlotHolders /\ count >= Limit =>
                Cardinality(DOMAIN entries) + (Cardinality(Thread) - 1) >= Limit
<1> USE LimitAssumption
<1>1. /\ Cardinality(DOMAIN entries) \in Nat
      /\ count = Cardinality(DOMAIN entries) + Cardinality(SlotHolders)
      /\ count <= Limit
  BY FS_CardinalityType DEF CountInv, CountAccounting, SlotsBounded
<1>2. /\ IsFiniteSet(SlotHolders) /\ Cardinality(SlotHolders) \in Nat
      /\ Cardinality(Thread) \in Nat
  BY ThreadAssumption, FS_Subset, FS_CardinalityType DEF SlotHolders
<1>3. ASSUME t \in SlotHolders PROVE Cardinality(SlotHolders) # 0
  BY <1>2, <1>3, FS_EmptySet
<1>4. ASSUME t \notin SlotHolders PROVE Cardinality(SlotHolders) <= Cardinality(Thread) - 1
  <2>1. SlotHolders \in SUBSET (Thread \ {t})
    BY <1>4 DEF SlotHolders
  <2>2. IsFiniteSet(Thread \ {t}) /\ Cardinality(Thread \ {t}) = Cardinality(Thread) - 1
    BY ThreadAssumption, FS_RemoveElement
  <2>3. Cardinality(SlotHolders) <= Cardinality(Thread \ {t})
    BY <2>1, <2>2, FS_Subset
  <2> QED BY <2>2, <2>3
<1> QED BY <1>1, <1>2, <1>3, <1>4

\* LinearStore counts with the same operator, and prunes with the same one.
LEMMA SameOperators ==
    /\ \A S : Linear!Cardinality(S) = Cardinality(S)
    /\ \A ids, id : Linear!Retain(ids, id) = Retain(ids, id)
  BY DEF Linear!Cardinality, Cardinality, Linear!Retain, Retain

\* A thread about to append to an index has found one, and an index that is there stays
\* while the store is not cleared.
IndexFound == \A t \in Thread : pc[t] = "order_push" => req[t].key.namespace \in DOMAIN order

LinearInv == CountInv /\ IndexFound

LEMMA IndexStays ==
    ASSUME CountInv, "clear" \notin Ops, [Next]_vars
    PROVE  DOMAIN order \subseteq DOMAIN order'
<1>1. \A t \in Thread : pc[t] \notin ClearSteps
  BY RequestShapes DEF CountInv, IndType, CallShape, ClearSteps
<1>2. ASSUME NEW t \in Thread, Step(t) PROVE DOMAIN order \subseteq DOMAIN order'
  <2>1. \A ns \in Namespace : ~SweepOrder(t, ns)
    BY <1>1 DEF SweepOrder, ClearSteps
  <2>2. CASE InsertOrder(t) \/ PushOrder(t) \/ RetainOrder(t)
    BY <2>2 DEF InsertOrder, PushOrder, RetainOrder, Put
  <2>3. CASE order' = order
    BY <2>3
  <2>4. \/ InsertOrder(t) \/ PushOrder(t) \/ RetainOrder(t)
        \/ order' = order
    BY <1>2, <2>1 DEF Step, LoadCount, CompareExchange, InsertEntry, ReleaseSlot, ContainsOrder,
           Read, Update, RemoveEntry, Uncount, OpenList, LookUp, CloseList, ClearLoad,
           SweepEntry, ClearStore
  <2> QED BY <2>2, <2>3, <2>4
<1>3. ASSUME NEW t \in Thread, NEW r \in Requests, Invoke(t, r) PROVE order' = order
  BY <1>3 DEF Invoke
<1>4. CASE UNCHANGED vars
  BY <1>4 DEF vars
<1> QED BY <1>2, <1>3, <1>4 DEF Next

LEMMA IndexFoundKept ==
    ASSUME CountInv, IndexFound, "clear" \notin Ops, [Next]_vars
    PROVE  IndexFound'
<1>1. DOMAIN order \subseteq DOMAIN order'
  BY IndexStays
<1>2. IndType
  BY DEF CountInv
<1>3. ASSUME NEW t \in Thread, NEW u \in Thread, Step(t) \/ \E r \in Requests : Invoke(t, r),
             pc'[u] = "order_push"
      PROVE  req'[u].key.namespace \in DOMAIN order'
  <2>1. CASE u # t
    <3>1. pc'[u] = pc[u] /\ req'[u] = req[u]
      BY <1>2, <1>3, <2>1 DEF Step, Invoke, Return, Goto, IndType, TypeOK, LoadCount, CompareExchange,
           InsertEntry, ReleaseSlot, ContainsOrder, InsertOrder, PushOrder, Read, Update, RemoveEntry,
           Uncount, RetainOrder, OpenList, LookUp, CloseList, ClearLoad, SweepEntry, SweepOrder,
           ClearStore
    <3> QED BY <1>1, <1>3, <3>1 DEF IndexFound
  <2>2. CASE u = t
    <3>1. \/ ContainsOrder(t)
          \/ pc[t] = "order_push" /\ req'[t] = req[t]
      <4>1. CASE Step(t)
        BY <1>2, <1>3, <2>2, <4>1 DEF Step, Return, Goto, IndType, TypeOK, LoadCount, CompareExchange,
           InsertEntry, ReleaseSlot, InsertOrder, PushOrder, Read, Update, RemoveEntry,
           Uncount, RetainOrder, OpenList, LookUp, CloseList, ClearLoad, SweepEntry, SweepOrder,
           ClearStore
      <4>2. ASSUME NEW r \in Requests, Invoke(t, r) PROVE FALSE
        <5>1. pc'[t] = Entry(r.op)
          BY <1>2, <4>2 DEF Invoke, Goto, IndType, TypeOK
        <5> QED BY <1>3, <2>2, <5>1, RequestShapes DEF Entry, AllOps
      <4> QED BY <1>3, <4>1, <4>2
    <3>2. CASE ContainsOrder(t)
      <4>1. req'[t] = req[t] /\ order' = order /\ req[t].key.namespace \in DOMAIN order
        BY <1>2, <1>3, <2>2, <3>2 DEF ContainsOrder, Goto, IndType, TypeOK
      <4> QED BY <2>2, <4>1
    <3>3. CASE pc[t] = "order_push" /\ req'[t] = req[t]
      BY <1>1, <2>2, <3>3 DEF IndexFound
    <3> QED BY <3>1, <3>2, <3>3
  <2> QED BY <2>1, <2>2
<1>4. CASE UNCHANGED vars
  BY <1>4 DEF vars, IndexFound
<1> QED BY <1>3, <1>4 DEF Next, IndexFound

\* The namespace of the entry a call works on, and what the index has for it.
LEMMA IdsAre ==
    ASSUME IndType, NEW t \in Thread, pc[t] \in CreateSteps \cup DeleteSteps,
           WorkLeft[t].key = req[t].key
    PROVE  /\ req[t].key.namespace \in Namespace /\ req[t].key.id \in Id
           /\ Linear!Ids(t) = IF req[t].key.namespace \in DOMAIN order
                              THEN order[req[t].key.namespace] ELSE <<>>
<1>1. req[t] \in Requests /\ req[t].op \in {"create", "delete"}
  BY DEF IndType, CallShape, CreateSteps, DeleteSteps
<1>2. req[t].key \in Key
  BY <1>1, RequestShapes
<1>3. req[t].key.namespace \in Namespace /\ req[t].key.id \in Id
  BY <1>2 DEF Key
<1> QED BY <1>3 DEF Linear!Ids, OrderIndex

\* Nobody is reading the index of a namespace that is not guarded.
LEMMA NobodyReads ==
    ASSUME NEW ns, ~Guarded(ns)
    PROVE  ~Linear!Reading(ns)
<1> SUFFICES ASSUME NEW u \in Thread, WorkLeft[u].op = "list", PendingCall[u].namespace = ns
             PROVE  FALSE
  BY DEF Linear!Reading
<1>1. pc[u] = "look_up"
  BY SeenNow, WorkIs
<1>2. PendingCall[u] = req[u]
  BY <1>1, SeenNow DEF CallSeen, SettledSteps
<1> QED BY <1>1, <1>2 DEF Guarded

\* The end of a call that has settled changes nothing else that is seen.
LEMMA WorkServed ==
    ASSUME IndType, NEW t \in Thread,
           pc[t] \in {"order_push", "order_insert", "retain"},
           Return(t, Answer("Ok", <<>>)), UNCHANGED <<entries, unread, acc>>
    PROVE  /\ WorkLeft[t].key = req[t].key
           /\ Linear!Leave(t, Linear!NoRequest)
           /\ UNCHANGED <<entries, PendingCall, GivenAnswer>>
<1>1. /\ OthersKeep(t) /\ pc'[t] = "idle"
      /\ req'[t] = NoRequest /\ ret'[t] = Answer("Ok", <<>>)
  BY DEF Return, Goto, OthersKeep, IndType, TypeOK
<1>2. WorkLeft[t].key = req[t].key
  BY SeenNow, WorkIs
<1>3. WorkLeft' = [WorkLeft EXCEPT ![t] = NoRequest]
  BY <1>1, SeenNext, WorkIs DEF WorkSteps
<1>4. /\ PendingCall' = [PendingCall EXCEPT ![t] = PendingCall[t]]
      /\ GivenAnswer' = [GivenAnswer EXCEPT ![t] = GivenAnswer[t]]
  BY <1>1, SeenNow, SeenNext DEF CallSeen, AnswerSeen, SettledSteps
<1>5. PendingCall' = PendingCall /\ GivenAnswer' = GivenAnswer
  BY <1>4 DEF PendingCall, GivenAnswer
<1> QED BY <1>2, <1>3, <1>5 DEF Linear!Leave, Linear!NoRequest, NoRequest

\* Every step of create is a response of LinearStore, a step on its index or a stutter.
LEMMA CreateSimulates ==
    ASSUME LinearInv, NEW t \in Thread,
           \/ LoadCount(t) \/ CompareExchange(t) \/ InsertEntry(t) \/ ReleaseSlot(t)
           \/ ContainsOrder(t) \/ InsertOrder(t) \/ PushOrder(t)
    PROVE  \/ Linear!Create(t) \/ Linear!FindNone(t) \/ Linear!Start(t) \/ Linear!Enter(t)
           \/ UNCHANGED Linear!vars
<1>0. CountInv /\ IndType /\ req[t].op = "create"
  BY DEF LinearInv, CountInv, IndType, CallShape, CreateSteps, LoadCount, CompareExchange,
         InsertEntry, ReleaseSlot, ContainsOrder, InsertOrder, PushOrder
<1>1. CASE LoadCount(t)
  <2>1. pc[t] = "load" /\ UNCHANGED <<entries, order, unread, acc>>
    BY <1>1 DEF LoadCount
  <2>2. CASE count >= Limit /\ Return(t, Answer("CapacityExceeded", <<>>))
    <3>1. /\ Linear!Called(t, "create") /\ Linear!Respond(t, "CapacityExceeded", <<>>)
          /\ WorkLeft' = WorkLeft
      BY <1>0, <2>1, <2>2, CalledNow, ReturnResponds DEF SettledSteps, WorkSteps
    <3>2. Cardinality(DOMAIN entries) + Linear!Slack >= Limit
      <4>1. t \notin SlotHolders
        BY <2>1 DEF SlotHolders
      <4>2. Cardinality(DOMAIN entries) + (Cardinality(Thread) - 1) >= Limit
        BY <1>0, <2>2, <4>1, RoomWhileHolding
      <4> QED BY <4>2, SameOperators DEF Linear!Slack
    <3> QED BY <2>1, <3>1, <3>2, SameOperators, IndexSame DEF Linear!Create
  <2>3. CASE Goto(t, "cas") /\ UNCHANGED <<req, ret>>
    <3>1. OthersKeep(t) /\ pc'[t] = "cas" /\ req'[t] = req[t] /\ ret'[t] = ret[t]
      BY <1>0, <2>1, <2>3 DEF Goto, OthersKeep, IndType, TypeOK
    <3>2. WorkSeen(pc'[t], req'[t], unread'[t], acc'[t]) = WorkSeen(pc[t], req[t], unread[t], acc[t])
      BY <2>1, <3>1, WorkIs DEF WorkSteps
    <3> QED BY <2>1, <3>1, <3>2, SeenSame DEF CallSeen, AnswerSeen, SettledSteps
  <2> QED BY <1>1, <2>2, <2>3 DEF LoadCount
<1>2. CASE CompareExchange(t)
  <2>1. /\ OthersKeep(t) /\ pc[t] = "cas" /\ pc'[t] \in {"insert", "load"}
        /\ req'[t] = req[t] /\ ret'[t] = ret[t] /\ entries' = entries /\ order' = order
    BY <1>0, <1>2 DEF CompareExchange, Goto, OthersKeep, IndType, TypeOK
  <2>2. WorkSeen(pc'[t], req'[t], unread'[t], acc'[t]) = WorkSeen(pc[t], req[t], unread[t], acc[t])
    BY <2>1, WorkIs DEF WorkSteps
  <2> QED BY <2>1, <2>2, SeenSame DEF CallSeen, AnswerSeen, SettledSteps
<1>3. CASE InsertEntry(t)
  <2>1. pc[t] = "insert" /\ UNCHANGED <<req, ret, order, unread, acc>>
    BY <1>3 DEF InsertEntry
  <2>2. Linear!Called(t, "create") /\ PendingCall[t] = req[t]
    BY <1>0, <2>1, CalledNow DEF SettledSteps
  <2>3. CASE req[t].key \in DOMAIN entries
    <3>1. Goto(t, "release") /\ entries' = entries
      BY <1>3, <2>3 DEF InsertEntry
    <3>2. Linear!Respond(t, "AlreadyExists", <<>>) /\ WorkLeft' = WorkLeft
      BY <1>0, <2>1, <3>1, SettleResponds DEF SettledSteps, WorkSteps
    <3>3. Linear!Taken(t)
      BY <2>2, <2>3 DEF Linear!Taken
    <3> QED BY <2>1, <2>2, <3>1, <3>2, <3>3, IndexSame DEF Linear!Create
  <2>4. CASE req[t].key \notin DOMAIN entries
    <3>1. Goto(t, "contains") /\ entries' = Put(entries, req[t].key, req[t].value)
      BY <1>3, <2>4 DEF InsertEntry
    <3>2. /\ Linear!Respond(t, "Ok", <<>>)
          /\ WorkLeft' = [WorkLeft EXCEPT ![t] = WorkSeen("contains", req[t], unread[t], acc[t])]
      BY <1>0, <2>1, <3>1, SettleResponds DEF SettledSteps
    <3>3. Linear!Leave(t, [op |-> "create", key |-> PendingCall[t].key])
      <4>1. WorkSeen("contains", req[t], unread[t], acc[t]) = [op |-> "create", key |-> req[t].key]
        BY WorkIs
      <4> QED BY <2>2, <3>2, <4>1 DEF Linear!Leave
    <3>4. ~Linear!Taken(t)
      BY <2>2, <2>4 DEF Linear!Taken
    <3>5. Cardinality(DOMAIN entries) < Limit
      BY <1>0, <2>1, RoomWhileHolding DEF SlotHolders
    <3>6. entries' = [k \in DOMAIN entries \cup {PendingCall[t].key} |->
                        IF k = PendingCall[t].key THEN PendingCall[t].value ELSE entries[k]]
      BY <2>2, <3>1 DEF Put
    <3> QED BY <2>1, <2>2, <3>2, <3>3, <3>4, <3>5, <3>6, SameOperators, IndexSame DEF Linear!Create
  <2> QED BY <2>3, <2>4
<1>4. CASE ReleaseSlot(t)
  <2>1. /\ OthersKeep(t) /\ pc[t] = "release" /\ pc'[t] = "idle" /\ entries' = entries
        /\ req'[t] = NoRequest /\ ret'[t] = Answer("AlreadyExists", <<>>) /\ order' = order
    BY <1>0, <1>4 DEF ReleaseSlot, Return, Goto, OthersKeep, IndType, TypeOK
  <2>2. WorkSeen(pc'[t], req'[t], unread'[t], acc'[t]) = WorkSeen(pc[t], req[t], unread[t], acc[t])
    BY <2>1, WorkIs DEF WorkSteps
  <2> QED BY <2>1, <2>2, SeenSame DEF CallSeen, AnswerSeen, SettledSteps
<1>5. CASE ContainsOrder(t)
  <2>1. /\ OthersKeep(t) /\ pc[t] = "contains"
        /\ pc'[t] = IF req[t].key.namespace \in DOMAIN order THEN "order_push" ELSE "order_insert"
        /\ req'[t] = req[t] /\ ret'[t] = ret[t] /\ entries' = entries /\ order' = order
    BY <1>0, <1>5 DEF ContainsOrder, Goto, OthersKeep, IndType, TypeOK
  <2>2. CASE req[t].key.namespace \in DOMAIN order
    <3>1. WorkSeen(pc'[t], req'[t], unread'[t], acc'[t]) = WorkSeen(pc[t], req[t], unread[t], acc[t])
      BY <2>1, <2>2, WorkIs
    <3> QED BY <2>1, <2>2, <3>1, SeenSame DEF CallSeen, AnswerSeen, SettledSteps
  <2>3. CASE req[t].key.namespace \notin DOMAIN order
    <3>1. WorkLeft[t] = [op |-> "create", key |-> req[t].key]
      BY <2>1, SeenNow, WorkIs
    <3>2. WorkLeft' = [WorkLeft EXCEPT ![t] = [op |-> "first", key |-> req[t].key]]
      BY <2>1, <2>3, SeenNext, WorkIs
    <3>3. Linear!Ids(t) = <<>>
      BY <1>0, <2>1, <2>3, <3>1, IdsAre DEF CreateSteps
    <3>4. /\ PendingCall' = [PendingCall EXCEPT ![t] = PendingCall[t]]
          /\ GivenAnswer' = [GivenAnswer EXCEPT ![t] = GivenAnswer[t]]
      BY <2>1, <2>3, SeenNow, SeenNext DEF CallSeen, AnswerSeen, SettledSteps
    <3>5. PendingCall' = PendingCall /\ GivenAnswer' = GivenAnswer
      BY <3>4 DEF PendingCall, GivenAnswer
    <3> QED BY <2>1, <3>1, <3>2, <3>3, <3>5, IndexSame DEF Linear!FindNone, Linear!Leave
  <2> QED BY <2>2, <2>3
<1>6. CASE InsertOrder(t)
  <2> DEFINE ns == req[t].key.namespace
  <2>1. /\ pc[t] = "order_insert" /\ ~Guarded(ns) /\ Return(t, Answer("Ok", <<>>))
        /\ UNCHANGED <<entries, unread, acc>>
        /\ order' = IF ns \in DOMAIN order THEN order ELSE Put(order, ns, <<req[t].key.id>>)
    BY <1>6 DEF InsertOrder
  <2>2. WorkLeft[t] = [op |-> "first", key |-> req[t].key]
    BY <2>1, SeenNow, WorkIs
  <2>3. /\ ns \in Namespace
        /\ Linear!Ids(t) = IF ns \in DOMAIN order THEN order[ns] ELSE <<>>
    BY <1>0, <2>1, <2>2, IdsAre DEF CreateSteps
  <2>4. Linear!Due(t, "first")
    BY <2>1, <2>2, NobodyReads DEF Linear!Due
  <2>5. CASE ns \in DOMAIN order
    <3>1. OrderIndex' = [OrderIndex EXCEPT ![ns] = Linear!Ids(t)]
      BY <2>1, <2>3, <2>5 DEF OrderIndex
    <3>2. Linear!Index(t, Linear!Ids(t))
      BY <1>0, <2>1, <3>1, WorkServed DEF Linear!Index
    <3> QED BY <2>4, <3>2 DEF Linear!Start
  <2>6. CASE ns \notin DOMAIN order
    <3>1. OrderIndex' = [OrderIndex EXCEPT ![ns] = <<req[t].key.id>>]
      BY <2>1, <2>3, <2>6 DEF OrderIndex, Put
    <3>2. Linear!Index(t, <<WorkLeft[t].key.id>>)
      BY <1>0, <2>1, <2>2, <3>1, WorkServed DEF Linear!Index
    <3> QED BY <2>3, <2>4, <2>6, <3>2 DEF Linear!Start
  <2> QED BY <2>5, <2>6
<1>7. CASE PushOrder(t)
  <2> DEFINE ns == req[t].key.namespace
  <2>1. /\ pc[t] = "order_push" /\ ~Guarded(ns) /\ Return(t, Answer("Ok", <<>>))
        /\ UNCHANGED <<entries, unread, acc>>
        /\ ns \in DOMAIN order
        /\ order' = [order EXCEPT ![ns] = Append(@, req[t].key.id)]
    BY <1>7 DEF PushOrder, LinearInv, IndexFound
  <2>2. WorkLeft[t] = [op |-> "create", key |-> req[t].key]
    BY <2>1, SeenNow, WorkIs
  <2>3. ns \in Namespace /\ Linear!Ids(t) = order[ns]
    BY <1>0, <2>1, <2>2, IdsAre DEF CreateSteps
  <2>4. Linear!Due(t, "create")
    BY <2>1, <2>2, NobodyReads DEF Linear!Due
  <2>5. OrderIndex' = [OrderIndex EXCEPT ![ns] = Append(Linear!Ids(t), req[t].key.id)]
    BY <2>1, <2>3 DEF OrderIndex
  <2>6. Linear!Index(t, Append(Linear!Ids(t), WorkLeft[t].key.id))
    BY <1>0, <2>1, <2>2, <2>5, WorkServed DEF Linear!Index
  <2> QED BY <2>4, <2>6 DEF Linear!Enter
<1> QED BY <1>1, <1>2, <1>3, <1>4, <1>5, <1>6, <1>7

\* So is every step of a read, an update or a delete.
LEMMA KeyedSimulates ==
    ASSUME LinearInv, NEW t \in Thread,
           Read(t) \/ Update(t) \/ RemoveEntry(t) \/ Uncount(t) \/ RetainOrder(t)
    PROVE  \/ Linear!Read(t) \/ Linear!Update(t) \/ Linear!Delete(t) \/ Linear!Miss(t)
           \/ Linear!Prune(t)
           \/ UNCHANGED Linear!vars
<1>0. IndType
  BY DEF LinearInv, CountInv
<1>1. CASE Read(t)
  <2>1. pc[t] = "read" /\ UNCHANGED <<entries, order, unread, acc>> /\ req[t].op = "read"
    BY <1>0, <1>1 DEF Read, IndType, CallShape
  <2>2. Linear!Called(t, "read") /\ PendingCall[t] = req[t] /\ pc[t] \notin WorkSteps
    BY <2>1, CalledNow DEF SettledSteps, WorkSteps
  <2>3. CASE req[t].key \in DOMAIN entries
    <3>1. Linear!Respond(t, "Ok", <<entries[PendingCall[t].key]>>) /\ WorkLeft' = WorkLeft
      BY <1>0, <1>1, <2>1, <2>2, <2>3, ReturnResponds DEF Read
    <3> QED BY <2>1, <2>2, <2>3, <3>1, IndexSame DEF Linear!Read, Linear!Taken
  <2>4. CASE req[t].key \notin DOMAIN entries
    <3>1. Linear!Respond(t, "NotFound", <<>>) /\ WorkLeft' = WorkLeft
      BY <1>0, <1>1, <2>1, <2>2, <2>4, ReturnResponds DEF Read
    <3> QED BY <2>1, <2>2, <2>4, <3>1, IndexSame DEF Linear!Miss, Linear!Taken
  <2> QED BY <2>3, <2>4
<1>2. CASE Update(t)
  <2>1. pc[t] = "update" /\ req[t].op = "update" /\ UNCHANGED <<order, unread, acc>>
    BY <1>0, <1>2 DEF Update, IndType, CallShape
  <2>2. Linear!Called(t, "update") /\ PendingCall[t] = req[t] /\ pc[t] \notin WorkSteps
    BY <2>1, CalledNow DEF SettledSteps, WorkSteps
  <2>3. CASE req[t].key \in DOMAIN entries
    <3>1. /\ Linear!Respond(t, "Ok", <<>>) /\ entries' = [entries EXCEPT ![req[t].key] = req[t].value]
          /\ WorkLeft' = WorkLeft
      BY <1>0, <1>2, <2>1, <2>2, <2>3, ReturnResponds DEF Update
    <3> QED BY <2>1, <2>2, <2>3, <3>1, IndexSame DEF Linear!Update, Linear!Taken
  <2>4. CASE req[t].key \notin DOMAIN entries
    <3>1. Linear!Respond(t, "NotFound", <<>>) /\ entries' = entries /\ WorkLeft' = WorkLeft
      BY <1>0, <1>2, <2>1, <2>2, <2>4, ReturnResponds DEF Update
    <3> QED BY <2>1, <2>2, <2>4, <3>1, IndexSame DEF Linear!Miss, Linear!Taken
  <2> QED BY <2>3, <2>4
<1>3. CASE RemoveEntry(t)
  <2>1. pc[t] = "remove" /\ req[t].op = "delete" /\ UNCHANGED <<order, unread, acc>>
    BY <1>0, <1>3 DEF RemoveEntry, IndType, CallShape, DeleteSteps
  <2>2. Linear!Called(t, "delete") /\ PendingCall[t] = req[t] /\ pc[t] \notin WorkSteps
    BY <2>1, CalledNow DEF SettledSteps, WorkSteps
  <2>3. CASE req[t].key \in DOMAIN entries
    <3>1. /\ Goto(t, "uncount") /\ UNCHANGED <<req, ret>>
          /\ entries' = [k \in DOMAIN entries \ {req[t].key} |-> entries[k]]
      BY <1>3, <2>3 DEF RemoveEntry, Drop, Restrict
    <3>2. /\ Linear!Respond(t, "Ok", <<>>)
          /\ WorkLeft' = [WorkLeft EXCEPT ![t] = WorkSeen("uncount", req[t], unread[t], acc[t])]
      BY <1>0, <2>1, <3>1, SettleResponds DEF SettledSteps
    <3>3. Linear!Leave(t, [op |-> "delete", key |-> PendingCall[t].key])
      <4>1. WorkSeen("uncount", req[t], unread[t], acc[t]) = [op |-> "delete", key |-> req[t].key]
        BY WorkIs
      <4> QED BY <2>2, <3>2, <4>1 DEF Linear!Leave
    <3> QED BY <2>1, <2>2, <2>3, <3>1, <3>2, <3>3, IndexSame DEF Linear!Delete, Linear!Taken
  <2>4. CASE req[t].key \notin DOMAIN entries
    <3>1. Linear!Respond(t, "NotFound", <<>>) /\ entries' = entries /\ WorkLeft' = WorkLeft
      BY <1>0, <1>3, <2>1, <2>2, <2>4, ReturnResponds DEF RemoveEntry
    <3> QED BY <2>1, <2>2, <2>4, <3>1, IndexSame DEF Linear!Miss, Linear!Taken
  <2> QED BY <2>3, <2>4
<1>4. CASE Uncount(t)
  <2>1. /\ OthersKeep(t) /\ pc[t] = "uncount" /\ pc'[t] = "retain"
        /\ req'[t] = req[t] /\ ret'[t] = ret[t] /\ entries' = entries /\ order' = order
    BY <1>0, <1>4 DEF Uncount, Goto, OthersKeep, IndType, TypeOK
  <2>2. WorkSeen(pc'[t], req'[t], unread'[t], acc'[t]) = WorkSeen(pc[t], req[t], unread[t], acc[t])
    BY <2>1, WorkIs
  <2> QED BY <2>1, <2>2, SeenSame DEF CallSeen, AnswerSeen, SettledSteps
<1>5. CASE RetainOrder(t)
  <2> DEFINE ns == req[t].key.namespace
             id == req[t].key.id
  <2>1. /\ pc[t] = "retain" /\ ~Guarded(ns) /\ Return(t, Answer("Ok", <<>>))
        /\ UNCHANGED <<entries, unread, acc>>
        /\ order' = IF ns \in DOMAIN order THEN [order EXCEPT ![ns] = Retain(@, id)] ELSE order
    BY <1>5 DEF RetainOrder
  <2>2. WorkLeft[t] = [op |-> "delete", key |-> req[t].key]
    BY <2>1, SeenNow, WorkIs
  <2>3. /\ ns \in Namespace
        /\ Linear!Ids(t) = IF ns \in DOMAIN order THEN order[ns] ELSE <<>>
    BY <1>0, <2>1, <2>2, IdsAre DEF DeleteSteps
  <2>4. Linear!Due(t, "delete")
    BY <2>1, <2>2, NobodyReads DEF Linear!Due
  <2>5. Retain(<<>>, id) = <<>>
    <3>1. <<>> \in Seq({})
      OBVIOUS
    <3>2. Retain(<<>>, id) \in Seq({} \ {id})
      BY <3>1, RetainDropsId
    <3>3. ASSUME NEW s \in Seq({} \ {id}) PROVE s = <<>>
      <4>1. \A i \in 1..Len(s) : s[i] \in {}
        OBVIOUS
      <4>2. Len(s) = 0
        BY <4>1
      <4> QED BY <4>2
    <3> QED BY <3>2, <3>3
  <2>6. OrderIndex' = [OrderIndex EXCEPT ![ns] = Retain(Linear!Ids(t), id)]
    <3>1. CASE ns \in DOMAIN order
      BY <2>1, <2>3, <3>1 DEF OrderIndex
    <3>2. CASE ns \notin DOMAIN order
      BY <2>1, <2>3, <2>5, <3>2 DEF OrderIndex
    <3> QED BY <3>1, <3>2
  <2>7. Linear!Index(t, Linear!Retain(Linear!Ids(t), WorkLeft[t].key.id))
    BY <1>0, <2>1, <2>2, <2>6, WorkServed, SameOperators DEF Linear!Index
  <2> QED BY <2>4, <2>7 DEF Linear!Prune
<1> QED BY <1>1, <1>2, <1>3, <1>4, <1>5

\* So is every step of a list.
LEMMA ListSimulates ==
    ASSUME LinearInv, NEW t \in Thread, OpenList(t) \/ LookUp(t) \/ CloseList(t)
    PROVE  Linear!Open(t) \/ Linear!ListNone(t) \/ Linear!LookUp(t) \/ Linear!Close(t)
<1>0. IndType
  BY DEF LinearInv, CountInv
<1>1. /\ pc[t] \in ListSteps /\ req[t].op = "list" /\ req[t].namespace \in Namespace
      /\ PendingCall[t] = req[t] /\ Linear!Called(t, "list")
  <2>1. pc[t] \in ListSteps /\ req[t].op = "list"
    BY <1>0 DEF OpenList, LookUp, CloseList, ListSteps, IndType, CallShape
  <2>2. req[t] \in Requests
    BY <1>0, <2>1 DEF IndType, CallShape, ListSteps
  <2>3. req[t].namespace \in Namespace
    BY <2>1, <2>2, RequestShapes
  <2> QED BY <2>1, <2>3, CalledNow DEF ListSteps, SettledSteps
<1>2. ASSUME OthersKeep(t), pc'[t] = "look_up", UNCHANGED <<req, ret>>
      PROVE  /\ PendingCall' = PendingCall /\ GivenAnswer' = GivenAnswer
             /\ Linear!Leave(t, Linear!Listing(unread'[t], acc'[t]))
  <2>1. /\ PendingCall' = [PendingCall EXCEPT ![t] = PendingCall[t]]
        /\ GivenAnswer' = [GivenAnswer EXCEPT ![t] = GivenAnswer[t]]
    BY <1>1, <1>2, SeenNow, SeenNext DEF CallSeen, AnswerSeen, ListSteps, SettledSteps
  <2>2. WorkLeft' = [WorkLeft EXCEPT ![t] = [op |-> "list", rest |-> unread'[t], body |-> acc'[t]]]
    BY <1>2, SeenNext, WorkIs
  <2> QED BY <2>1, <2>2 DEF PendingCall, GivenAnswer, Linear!Leave, Linear!Listing
<1>3. CASE OpenList(t)
  <2> DEFINE ns == req[t].namespace
  <2>1. pc[t] = "open" /\ UNCHANGED <<entries, order>> /\ WorkLeft[t] = NoRequest
    BY <1>3, SeenNow, WorkIs DEF OpenList, WorkSteps
  <2>2. CASE ns \in DOMAIN order
    <3>1. /\ unread' = [unread EXCEPT ![t] = order[ns]] /\ acc' = [acc EXCEPT ![t] = <<>>]
          /\ Goto(t, "look_up") /\ UNCHANGED <<req, ret>>
      BY <1>3, <2>2 DEF OpenList
    <3>2. OthersKeep(t) /\ pc'[t] = "look_up" /\ unread'[t] = order[ns] /\ acc'[t] = <<>>
      BY <1>0, <3>1 DEF Goto, OthersKeep, IndType, TypeOK
    <3>3. OrderIndex[PendingCall[t].namespace] = order[ns]
      BY <1>1, <2>2 DEF OrderIndex
    <3>4. /\ PendingCall' = PendingCall /\ GivenAnswer' = GivenAnswer
          /\ Linear!Leave(t, Linear!Listing(OrderIndex[PendingCall[t].namespace], <<>>))
      BY <1>2, <3>1, <3>2, <3>3
    <3> QED BY <1>1, <2>1, <3>4, IndexSame DEF Linear!Open, Linear!NoRequest, NoRequest
  <2>3. CASE ns \notin DOMAIN order
    <3>1. Return(t, Answer("Ok", <<>>)) /\ UNCHANGED <<unread, acc>>
      BY <1>3, <2>3 DEF OpenList
    <3>2. Linear!Respond(t, "Ok", <<>>) /\ WorkLeft' = WorkLeft
      BY <1>0, <2>1, <3>1, ReturnResponds DEF WorkSteps
    <3>3. OrderIndex[PendingCall[t].namespace] = <<>>
      BY <1>1, <2>3 DEF OrderIndex
    <3> QED BY <1>1, <2>1, <3>2, <3>3, IndexSame DEF Linear!ListNone, Linear!NoRequest, NoRequest
  <2> QED BY <2>2, <2>3
<1>4. CASE LookUp(t)
  <2> DEFINE k == [namespace |-> req[t].namespace, id |-> Head(unread[t])]
             found == IF k \in DOMAIN entries THEN Append(acc[t], entries[k]) ELSE acc[t]
  <2>1. /\ pc[t] = "look_up" /\ unread[t] # <<>> /\ UNCHANGED <<entries, order, req, ret>>
        /\ unread' = [unread EXCEPT ![t] = Tail(unread[t])] /\ acc' = [acc EXCEPT ![t] = found]
        /\ pc' = pc
    BY <1>4 DEF LookUp
  <2>2. OthersKeep(t) /\ pc'[t] = "look_up" /\ unread'[t] = Tail(unread[t]) /\ acc'[t] = found
    BY <1>0, <2>1 DEF OthersKeep, IndType, TypeOK
  <2>3. WorkLeft[t] = [op |-> "list", rest |-> unread[t], body |-> acc[t]]
    BY <2>1, SeenNow, WorkIs
  <2>4. /\ PendingCall' = PendingCall /\ GivenAnswer' = GivenAnswer
        /\ Linear!Leave(t, Linear!Listing(Tail(unread[t]), found))
    BY <1>2, <2>1, <2>2
  <2>5. WorkLeft[t].op = "list" /\ WorkLeft[t].rest = unread[t] /\ WorkLeft[t].body = acc[t]
    BY <2>3
  <2> QED BY <1>1, <2>1, <2>4, <2>5, IndexSame DEF Linear!LookUp
<1>5. CASE CloseList(t)
  <2>1. /\ pc[t] = "look_up" /\ unread[t] = <<>> /\ Return(t, Answer("Ok", acc[t]))
        /\ acc' = [acc EXCEPT ![t] = <<>>] /\ UNCHANGED <<entries, order, unread>>
    BY <1>5 DEF CloseList
  <2>2. WorkLeft[t] = [op |-> "list", rest |-> unread[t], body |-> acc[t]]
    BY <2>1, SeenNow, WorkIs
  <2>3. WorkLeft[t].op = "list" /\ WorkLeft[t].rest = <<>> /\ WorkLeft[t].body = acc[t]
    BY <2>1, <2>2
  <2>4. \A u \in Thread \ {t} : unread'[u] = unread[u] /\ acc'[u] = acc[u]
    BY <1>0, <2>1 DEF IndType, TypeOK
  <2>5. Linear!Respond(t, "Ok", acc[t]) /\ WorkLeft' = [WorkLeft EXCEPT ![t] = NoRequest]
    BY <1>0, <2>1, <2>4, ReturnResponds
  <2> QED BY <2>1, <2>3, <2>5, IndexSame DEF Linear!Close, Linear!Leave, Linear!NoRequest, NoRequest
<1> QED BY <1>3, <1>4, <1>5

\* The operations of the store are linearizable for any number of threads: as long as the
\* store is not cleared, every interleaving of the atomic steps of create, read, update,
\* delete and list is a behaviour of LinearStore.
THEOREM StoreIsLinearizable ==
    ASSUME "clear" \notin Ops
    PROVE  Spec => Linearizable
<1>1. Init => Linear!Init
  BY DEF Init, Linear!Init, PendingCall, GivenAnswer, WorkLeft, OrderIndex, SettledSteps,
         NoRequest, NoAnswer, Linear!NoRequest, Linear!NoAnswer, Linear!Answer
<1>2. Init => IndexFound
  BY DEF Init, IndexFound
<1>3. LinearInv /\ [Next]_vars => [Linear!Next]_(Linear!vars)
  <2> SUFFICES ASSUME LinearInv, [Next]_vars PROVE [Linear!Next]_(Linear!vars)
    OBVIOUS
  <2>0. CountInv /\ IndType
    BY DEF LinearInv, CountInv
  <2>1. \A t \in Thread : pc[t] \notin ClearSteps
    BY <2>0, RequestShapes DEF IndType, CallShape, ClearSteps
  <2>2. ASSUME NEW t \in Thread, Step(t) PROVE [Linear!Next]_(Linear!vars)
    <3>1. /\ ~ClearLoad(t) /\ ~ClearStore(t)
          /\ \A k \in Key : ~SweepEntry(t, k)
          /\ \A ns \in Namespace : ~SweepOrder(t, ns)
      BY <2>1 DEF ClearLoad, ClearStore, SweepEntry, SweepOrder, ClearSteps
    <3>2. \/ Linear!Create(t) \/ Linear!FindNone(t) \/ Linear!Start(t) \/ Linear!Enter(t)
          \/ Linear!Read(t) \/ Linear!Update(t) \/ Linear!Delete(t) \/ Linear!Miss(t)
          \/ Linear!Prune(t)
          \/ Linear!Open(t) \/ Linear!ListNone(t) \/ Linear!LookUp(t) \/ Linear!Close(t)
          \/ UNCHANGED Linear!vars
      BY <2>2, <3>1, CreateSimulates, KeyedSimulates, ListSimulates DEF Step
    <3> QED BY <3>2 DEF Linear!Next
  <2>3. ASSUME NEW t \in Thread, NEW r \in Requests, Invoke(t, r) PROVE Linear!Next
    <3>0. Entry(r.op) \notin SettledSteps /\ Entry(r.op) \notin WorkSteps
      BY RequestShapes DEF Entry, SettledSteps, WorkSteps, AllOps
    <3>1. /\ OthersKeep(t) /\ pc[t] = "idle" /\ pc'[t] = Entry(r.op)
          /\ req'[t] = r /\ ret'[t] = NoAnswer /\ entries' = entries /\ order' = order
      BY <2>0, <2>3 DEF Invoke, Goto, OthersKeep, IndType, TypeOK
    <3>2. /\ PendingCall' = [PendingCall EXCEPT ![t] = r]
          /\ GivenAnswer' = [GivenAnswer EXCEPT ![t] = NoAnswer]
      BY <3>0, <3>1, SeenNext DEF CallSeen, AnswerSeen, SettledSteps
    <3>3. PendingCall[t] = NoRequest
      BY <2>0, <3>1, SeenNow DEF CallSeen, SettledSteps, IndType, CallShape
    <3>4. WorkLeft[t] = NoRequest /\ WorkLeft' = WorkLeft
      BY <3>0, <3>1, SeenNow, WorkIs, WorkSame DEF WorkSteps
    <3>5. Linear!Invoke(t)
      BY <3>1, <3>2, <3>3, <3>4, IndexSame DEF Linear!Invoke, Linear!NoRequest, Linear!NoAnswer,
                              Linear!Answer, NoRequest, NoAnswer
    <3> QED BY <3>5 DEF Linear!Next
  <2>4. CASE UNCHANGED vars
    BY <2>4 DEF vars, Linear!vars, PendingCall, GivenAnswer, WorkLeft, OrderIndex
  <2> QED BY <2>2, <2>3, <2>4 DEF Next
<1>4. CountInv /\ IndexFound /\ [Next]_vars => IndexFound'
  BY IndexFoundKept
<1> QED BY <1>1, <1>2, <1>3, <1>4, InitCount, NextKeepsCount, PTL
      DEF Spec, Linearizable, Linear!Spec, LinearInv

-----------------------------------------------------------------------------
(* Sequences with one element removed *)

\* What Append adds is last, and the rest stays where it was.
LEMMA AppendIs ==
    ASSUME NEW S, NEW s \in Seq(S), NEW e \in S
    PROVE  /\ Append(s, e) \in Seq(S) /\ Len(Append(s, e)) = Len(s) + 1
           /\ \A i \in 1..Len(s) : Append(s, e)[i] = s[i]
           /\ Append(s, e)[Len(s) + 1] = e
  OBVIOUS

Without(s, p) == [j \in 1..(Len(s) - 1) |-> IF j < p THEN s[j] ELSE s[j + 1]]

\* RemoveAt of the abstract store is defined by concatenation.
LEMMA RemoveAtIs ==
    ASSUME NEW S, NEW s \in Seq(S), NEW p \in 1..Len(s)
    PROVE  Sequential!RemoveAt(s, p) = Without(s, p)
<1> DEFINE front == SubSeq(s, 1, p - 1)
           back == SubSeq(s, p + 1, Len(s))
<1>0. Len(s) \in Nat /\ \A i \in 1..Len(s) : s[i] \in S
  OBVIOUS
<1>1. /\ front \in Seq(S) /\ Len(front) = p - 1
      /\ \A i \in 1..(p - 1) : front[i] = s[i]
  <2>1. 1 \in Int /\ p - 1 \in Int /\ \A i \in 1..(p - 1) : s[i] \in S
    BY <1>0
  <2>2. /\ front \in Seq(S)
        /\ Len(front) = IF 1 <= p - 1 THEN (p - 1) - 1 + 1 ELSE 0
        /\ \A i \in 1..((p - 1) - 1 + 1) : front[i] = s[1 + i - 1]
    BY <2>1, SubSeqProperties
  <2> HIDE DEF front
  <2> QED BY <1>0, <2>2
<1>2. /\ back \in Seq(S) /\ Len(back) = Len(s) - p
      /\ \A i \in 1..(Len(s) - p) : back[i] = s[p + i]
  <2>1. p + 1 \in Int /\ Len(s) \in Int /\ \A i \in (p + 1)..Len(s) : s[i] \in S
    BY <1>0
  <2>2. /\ back \in Seq(S)
        /\ Len(back) = IF p + 1 <= Len(s) THEN Len(s) - (p + 1) + 1 ELSE 0
        /\ \A i \in 1..(Len(s) - (p + 1) + 1) : back[i] = s[(p + 1) + i - 1]
    BY <2>1, SubSeqProperties
  <2> HIDE DEF back
  <2> QED BY <1>0, <2>2
<1> HIDE DEF front, back
<1>3. /\ front \o back \in Seq(S)
      /\ Len(front \o back) = Len(s) - 1
      /\ \A i \in 1..(Len(s) - 1) : (front \o back)[i] = IF i < p THEN s[i] ELSE s[i + 1]
  <2>1. /\ front \o back \in Seq(S)
        /\ Len(front \o back) = Len(front) + Len(back)
        /\ \A i \in 1..(Len(front) + Len(back)) :
              (front \o back)[i] = IF i <= Len(front) THEN front[i] ELSE back[i - Len(front)]
    BY <1>1, <1>2, ConcatProperties
  <2>2. ASSUME NEW i \in 1..(Len(s) - 1)
        PROVE (front \o back)[i] = IF i < p THEN s[i] ELSE s[i + 1]
    <3>1. CASE i < p
      BY <1>0, <1>1, <1>2, <2>1, <3>1
    <3>2. CASE ~(i < p)
      <4>1. i - (p - 1) \in 1..(Len(s) - p) /\ p + (i - (p - 1)) = i + 1
        BY <1>0, <3>2
      <4>2. (front \o back)[i] = back[i - (p - 1)]
        BY <1>0, <1>1, <1>2, <2>1, <3>2
      <4> QED BY <1>2, <3>2, <4>1, <4>2
    <3> QED BY <3>1, <3>2
  <2> QED BY <1>0, <1>1, <1>2, <2>1, <2>2
<1>4. /\ Without(s, p) \in Seq(S) /\ Len(Without(s, p)) = Len(s) - 1
      /\ \A i \in 1..(Len(s) - 1) : Without(s, p)[i] = IF i < p THEN s[i] ELSE s[i + 1]
  <2>1. /\ Len(s) - 1 \in Nat
        /\ \A i \in 1..(Len(s) - 1) : (IF i < p THEN s[i] ELSE s[i + 1]) \in S
    BY <1>0
  <2> QED BY <2>1 DEF Without
<1>5. Sequential!RemoveAt(s, p) = front \o back
  BY DEF Sequential!RemoveAt, front, back
<1>6. front \o back = Without(s, p)
  BY <1>3, <1>4, SeqEqual
<1> QED BY <1>5, <1>6

\* Where an identifier is listed once, Vec::retain removes that place.
LEMMA RetainRemoves ==
    ASSUME NEW S, NEW ids \in Seq(S), NEW p \in 1..Len(ids),
           \A i \in 1..Len(ids) : ids[i] = ids[p] => i = p
    PROVE  Retain(ids, ids[p]) = Without(ids, p)
<1> DEFINE n == Len(ids)
           kept(j) == IF j < p THEN j ELSE j - 1
           Part(j) == [x \in 1..kept(j) |-> IF x < p THEN ids[x] ELSE ids[x + 1]]
           F == [j \in 0..n |-> Part(j)]
<1>0. n \in Nat /\ \A i \in 1..n : ids[i] \in S
  OBVIOUS
<1>1. ASSUME NEW j \in 0..n PROVE Part(j) \in Seq(S) /\ Len(Part(j)) = kept(j)
  <2>1. kept(j) \in Nat /\ \A x \in 1..kept(j) : (IF x < p THEN ids[x] ELSE ids[x + 1]) \in S
    BY <1>0
  <2> QED BY <2>1
<1>2. Part(0) = <<>>
  <2>1. Part(0) \in Seq(S) /\ Len(Part(0)) = 0
    BY <1>0, <1>1
  <2> HIDE DEF Part
  <2> QED BY <2>1, EmptySeq
<1>3. ASSUME NEW j \in 1..n
      PROVE  Part(j) = IF ids[j] # ids[p] THEN Append(Part(j - 1), ids[j]) ELSE Part(j - 1)
  <2>1. CASE j = p
    <3>1. kept(j) = kept(j - 1)
      BY <2>1
    <3> QED BY <2>1, <3>1
  <2>2. CASE j # p
    <3>1. ids[j] # ids[p]
      BY <2>2
    <3>2. kept(j) = kept(j - 1) + 1 /\ kept(j - 1) \in Nat
      BY <1>0, <2>2
    <3>3. (IF kept(j) < p THEN ids[kept(j)] ELSE ids[kept(j) + 1]) = ids[j]
      BY <1>0, <2>2
    <3>4. Part(j - 1) \in Seq(S) /\ Len(Part(j - 1)) = kept(j - 1)
      BY <1>1
    <3>5. \A x \in 1..kept(j - 1) : Part(j)[x] = Part(j - 1)[x]
      BY <1>0, <3>2
    <3>6. Part(j)[kept(j)] = ids[j]
      BY <1>0, <3>2, <3>3
    <3>7. Part(j) \in Seq(S) /\ Len(Part(j)) = kept(j)
      BY <1>1
    <3>8. ids[j] \in S
      BY <1>0
    <3> HIDE DEF Part, kept
    <3>9. Part(j) = Append(Part(j - 1), ids[j])
      <4>1. /\ Append(Part(j - 1), ids[j]) \in Seq(S)
            /\ Len(Append(Part(j - 1), ids[j])) = kept(j)
        BY <3>2, <3>4, <3>8, AppendIs
      <4>2. \A x \in 1..kept(j) : Part(j)[x] = Append(Part(j - 1), ids[j])[x]
        <5>1. /\ \A x \in 1..kept(j - 1) : Append(Part(j - 1), ids[j])[x] = Part(j - 1)[x]
              /\ Append(Part(j - 1), ids[j])[kept(j)] = ids[j]
          BY <3>2, <3>4, <3>8, AppendIs
        <5>2. \A x \in 1..kept(j) : x \in 1..kept(j - 1) \/ x = kept(j)
          BY <3>2
        <5> QED BY <3>5, <3>6, <5>1, <5>2
      <4> QED BY <3>7, <4>1, <4>2, SeqEqual
    <3> QED BY <3>1, <3>9
  <2> QED BY <2>1, <2>2
<1> HIDE DEF Part
<1>4. RetainUpTo(F, ids, ids[p], n)
  <2>1. \A j \in 0..n : F[j] = IF j = 0 THEN <<>>
                               ELSE IF ids[j] # ids[p] THEN Append(F[j - 1], ids[j])
                               ELSE F[j - 1]
    <3> TAKE j \in 0..n
    <3>1. CASE j = 0
      BY <1>2, <3>1
    <3>2. CASE j \in 1..n
      <4>1. F[j] = Part(j) /\ F[j - 1] = Part(j - 1) /\ j # 0
        BY <1>0, <3>2
      <4>2. Part(j) = IF ids[j] # ids[p] THEN Append(Part(j - 1), ids[j]) ELSE Part(j - 1)
        BY <1>3, <3>2
      <4> HIDE DEF F
      <4> QED BY <4>1, <4>2
    <3>3. j = 0 \/ j \in 1..n
      BY <1>0
    <3> HIDE DEF F, n
    <3> QED BY <3>1, <3>2, <3>3
  <2> QED BY <2>1 DEF RetainUpTo
<1> DEFINE G == CHOOSE g : RetainUpTo(g, ids, ids[p], n)
<1>5. RetainUpTo(G, ids, ids[p], n)
  BY <1>4
<1>6. Retain(ids, ids[p]) = G[n]
  BY DEF Retain, RetainUpTo
<1>7. F[n] = Part(n)
  BY <1>0
<1> HIDE DEF G, F
<1>8. G = F
  BY <1>0, <1>4, <1>5, RetainUnique
<1>9. Part(n) = Without(ids, p)
  <2>1. kept(n) = n - 1
    BY <1>0
  <2> QED BY <2>1 DEF Part, Without
<1> QED BY <1>6, <1>7, <1>8, <1>9

\* It leaves the other identifiers, each once if it was listed once.
LEMMA WithoutHas ==
    ASSUME NEW S, NEW ids \in Seq(S), NEW p \in 1..Len(ids),
           \A i, j \in 1..Len(ids) : ids[i] = ids[j] => i = j
    PROVE  /\ Without(ids, p) \in Seq(S) /\ Len(Without(ids, p)) = Len(ids) - 1
           /\ \A i, j \in 1..(Len(ids) - 1) : Without(ids, p)[i] = Without(ids, p)[j] => i = j
           /\ \A x : (\E i \in 1..(Len(ids) - 1) : Without(ids, p)[i] = x)
                       <=> x # ids[p] /\ \E i \in 1..Len(ids) : ids[i] = x
<1>0. Len(ids) \in Nat /\ \A i \in 1..Len(ids) : ids[i] \in S
  OBVIOUS
<1>1. Without(ids, p) \in Seq(S) /\ Len(Without(ids, p)) = Len(ids) - 1
  <2>1. /\ Len(ids) - 1 \in Nat
        /\ \A j \in 1..(Len(ids) - 1) : (IF j < p THEN ids[j] ELSE ids[j + 1]) \in S
    BY <1>0
  <2> QED BY <2>1 DEF Without
<1> DEFINE place(j) == IF j < p THEN j ELSE j + 1
<1>2. \A j \in 1..(Len(ids) - 1) : Without(ids, p)[j] = ids[place(j)]
                                   /\ place(j) \in 1..Len(ids) /\ place(j) # p
  BY <1>0 DEF Without
<1>3. \A i, j \in 1..(Len(ids) - 1) : place(i) = place(j) => i = j
  BY <1>0
<1>4. \A q \in 1..Len(ids) : q # p => \E j \in 1..(Len(ids) - 1) : place(j) = q
  <2> TAKE q \in 1..Len(ids)
  <2>1. CASE q < p
    BY <1>0, <2>1
  <2>2. CASE q > p
    <3>1. q - 1 \in 1..(Len(ids) - 1) /\ place(q - 1) = q
      BY <1>0, <2>2
    <3> QED BY <3>1
  <2> QED BY <1>0, <2>1, <2>2
<1> HIDE DEF place
<1> QED BY <1>1, <1>2, <1>3, <1>4

-----------------------------------------------------------------------------
(* One caller *)

KeyOf(ns, id) == [namespace |-> ns, id |-> id]

DeletingSteps == {"uncount", "retain"}
ClearingSteps == {"sweep_entries", "sweep_order", "clear_store"}
IndexingSteps == {"contains", "order_insert", "order_push"}

\* The identifiers indexed under ns in o, and the shelf of ids in e.
Plain(o, ns) == IF ns \in DOMAIN o THEN o[ns] ELSE <<>>
Shelved(e, ids, ns) ==
    [i \in DOMAIN ids |-> [id |-> ids[i], value |-> e[KeyOf(ns, ids[i])]]]
PlainShelf(e, o) == [ns \in Namespace |-> Shelved(e, Plain(o, ns), ns)]

\* The mapping, in a state in which the caller is at step s of call r.
ListingOf(s, r, o, ns) ==
    IF s \in ClearingSteps \/ ns \notin DOMAIN o THEN <<>>
    ELSE IF s \in DeletingSteps /\ r.key.namespace = ns THEN Retain(o[ns], r.key.id)
    ELSE o[ns]
ShelfOf(s, r, e, o) == [ns \in Namespace |-> Shelved(e, ListingOf(s, r, o, ns), ns)]
PendingOf(s, r) == IF s \in DeletingSteps \cup ClearingSteps THEN NoRequest ELSE r
AnswerOf(s, n, a) ==
    IF s \in DeletingSteps THEN Answer("Ok", <<>>)
    ELSE IF s \in ClearingSteps THEN Answer("Ok", <<n>>)
    ELSE a

\* The caller of the mapping is the one thread there is.
LEMMA CallerIs ==
    ASSUME NEW c, Thread = {c}
    PROVE  Caller = c
  BY DEF Caller

\* What the mapping shows, now and after a step.
LEMMA View ==
    ASSUME NEW c, Thread = {c}
    PROVE  /\ Shelf = ShelfOf(pc[c], req[c], entries, order)
           /\ Shelf' = ShelfOf(pc'[c], req'[c], entries', order')
           /\ CallerPending = PendingOf(pc[c], req[c])
           /\ CallerPending' = PendingOf(pc'[c], req'[c])
           /\ CallerAnswer = AnswerOf(pc[c], seen[c], ret[c])
           /\ CallerAnswer' = AnswerOf(pc'[c], seen'[c], ret'[c])
<1>1. Caller = c
  BY CallerIs
<1>2. /\ Deleting = (pc[c] \in DeletingSteps) /\ Clearing = (pc[c] \in ClearingSteps)
      /\ Deleting' = (pc'[c] \in DeletingSteps) /\ Clearing' = (pc'[c] \in ClearingSteps)
  BY <1>1 DEF Deleting, Clearing, DeletingSteps, ClearingSteps
<1>3. ASSUME NEW ns \in Namespace
      PROVE  /\ Listing(ns) = ListingOf(pc[c], req[c], order, ns)
             /\ Listing(ns)' = ListingOf(pc'[c], req'[c], order', ns)
  BY <1>1, <1>2 DEF Listing, ListingOf
<1>4. Shelf = ShelfOf(pc[c], req[c], entries, order)
  BY <1>3 DEF Shelf, ShelfOf, Shelved, KeyOf
<1>5. Shelf' = ShelfOf(pc'[c], req'[c], entries', order')
  BY <1>3 DEF Shelf, ShelfOf, Shelved, KeyOf
<1> QED BY <1>1, <1>2, <1>4, <1>5 DEF CallerPending, CallerAnswer, PendingOf, AnswerOf

\* Outside delete and clear the shelves are the index as it is.
LEMMA PlainView ==
    ASSUME NEW s, s \notin DeletingSteps \cup ClearingSteps, NEW r, NEW e, NEW o
    PROVE  ShelfOf(s, r, e, o) = PlainShelf(e, o)
<1>1. ASSUME NEW ns PROVE ListingOf(s, r, o, ns) = Plain(o, ns)
  BY DEF ListingOf, Plain
<1> QED BY <1>1 DEF ShelfOf, PlainShelf

-----------------------------------------------------------------------------
(* The invariant *)

Indexed(k) ==
    /\ k.namespace \in DOMAIN order
    /\ \E i \in DOMAIN order[k.namespace] : order[k.namespace][i] = k.id

\* The index names every live resource once, but for the one that the call in
\* progress has stored and not indexed yet or removed and not pruned yet.
NamedOnce == \A ns \in DOMAIN order :
                \A i, j \in DOMAIN order[ns] : order[ns][i] = order[ns][j] => i = j
IndexExact(c) ==
    pc[c] \notin ClearingSteps => \A k \in Key :
        Indexed(k) <=> \/ k \in DOMAIN entries /\ ~(pc[c] \in IndexingSteps /\ k = req[c].key)
                       \/ pc[c] \in DeletingSteps /\ k = req[c].key

\* What a call has found out stays true until it acts on it.
StillTrue(c) ==
    LET k == req[c].key IN
    /\ pc[c] \in IndexingSteps \cup {"release"} => k \in DOMAIN entries
    /\ pc[c] \in IndexingSteps => entries[k] = req[c].value
    /\ pc[c] = "order_insert" => k.namespace \notin DOMAIN order
    /\ pc[c] = "order_push" => k.namespace \in DOMAIN order
    /\ pc[c] = "cas" => seen[c] = count
    /\ pc[c] \in DeletingSteps => k \notin DOMAIN entries

\* A clear leaves behind only what it has still to visit.
Swept(c) ==
    /\ pc[c] = "sweep_entries" => DOMAIN entries \subseteq unswept[c]
    /\ pc[c] = "sweep_order" => DOMAIN entries = {} /\ DOMAIN order \subseteq unswept[c]
    /\ pc[c] = "clear_store" => DOMAIN entries = {} /\ DOMAIN order = {}

\* A list has collected the front of the index and has the rest to look up.
Collected(c) == pc[c] = "look_up" =>
    LET ns == req[c].namespace IN
    /\ ns \in DOMAIN order
    /\ Len(acc[c]) + Len(unread[c]) = Len(order[ns])
    /\ \A i \in 1..Len(acc[c]) : acc[c][i] = entries[KeyOf(ns, order[ns][i])]
    /\ \A i \in 1..Len(unread[c]) : unread[c][i] = order[ns][Len(acc[c]) + i]

OneInv(c) ==
    /\ IndType
    /\ IsFiniteSet(DOMAIN entries)
    /\ SlotsBounded
    /\ pc[c] \notin ClearingSteps => CountAccounting
    /\ NamedOnce
    /\ IndexExact(c)
    /\ StillTrue(c)
    /\ Swept(c)
    /\ Collected(c)

\* The types the proofs below need again and again.
LEMMA OneTypes ==
    ASSUME IndType, NEW c \in Thread
    PROVE  /\ DOMAIN entries \subseteq Key /\ \A k \in DOMAIN entries : entries[k] \in Value
           /\ DOMAIN order \subseteq Namespace /\ \A ns \in DOMAIN order : order[ns] \in Seq(Id)
           /\ pc[c] \in Steps /\ count \in Nat /\ seen[c] \in Nat
           /\ unread[c] \in Seq(Id) /\ acc[c] \in Seq(Value)
           /\ pc \in [Thread -> Steps] /\ DOMAIN pc = Thread /\ DOMAIN req = Thread
           /\ DOMAIN ret = Thread /\ DOMAIN seen = Thread /\ DOMAIN acc = Thread
           /\ DOMAIN unread = Thread /\ DOMAIN unswept = Thread
  BY DEF IndType, TypeOK, IsPartialMap

\* A call in progress has the arguments its steps use.
LEMMA CallArguments ==
    ASSUME IndType, NEW c \in Thread
    PROVE  /\ pc[c] \in CreateSteps \cup DeleteSteps \cup {"read", "update"} =>
                req[c].key \in Key /\ req[c].key.namespace \in Namespace /\ req[c].key.id \in Id
           /\ pc[c] \in CreateSteps \cup {"update"} => req[c].value \in Value
           /\ pc[c] \in ListSteps => req[c].namespace \in Namespace
<1>1. pc[c] \in CreateSteps \cup DeleteSteps \cup {"read", "update"} \cup ListSteps => pc[c] # "idle"
  BY DEF CreateSteps, DeleteSteps, ListSteps
<1>2. pc[c] # "idle" => req[c] \in Requests
  BY DEF IndType, CallShape
<1> QED BY <1>1, <1>2, RequestShapes, KeyShape DEF IndType, CallShape

\* A key is its namespace and identifier.
LEMMA KeyIs ==
    ASSUME NEW k \in Key
    PROVE  k = KeyOf(k.namespace, k.id)
  BY DEF Key, KeyOf

\* KeyOf makes a key.
LEMMA KeyOfIs ==
    ASSUME NEW ns \in Namespace, NEW id \in Id
    PROVE  KeyOf(ns, id) \in Key /\ KeyOf(ns, id).namespace = ns /\ KeyOf(ns, id).id = id
  BY DEF Key, KeyOf

\* Keys that agree on both are one key.
LEMMA KeysAgree ==
    ASSUME NEW k \in Key, NEW l \in Key, k.namespace = l.namespace, k.id = l.id
    PROVE  k = l
  BY KeyIs

\* With one thread the slots held are one or none.
LEMMA OneSlot ==
    ASSUME NEW c, Thread = {c}, IndType
    PROVE  Cardinality(SlotHolders) = IF pc[c] \in {"insert", "release", "uncount"} THEN 1 ELSE 0
<1>1. CASE pc[c] \in {"insert", "release", "uncount"}
  <2>1. SlotHolders = {c}
    BY <1>1 DEF SlotHolders
  <2> QED BY <1>1, <2>1, FS_Singleton
<1>2. CASE pc[c] \notin {"insert", "release", "uncount"}
  <2>1. SlotHolders = {}
    BY <1>2 DEF SlotHolders
  <2> QED BY <1>2, <2>1, FS_EmptySet
<1> QED BY <1>1, <1>2

-----------------------------------------------------------------------------
(* It is inductive *)

Index(c) == NamedOnce /\ IndexExact(c) /\ StillTrue(c) /\ Swept(c) /\ Collected(c)

\* A step that changes neither what is stored nor what is indexed, between two
\* steps at which the index is exact, keeps the index exact.
LEMMA QuietKeeps ==
    ASSUME NEW c, OneInv(c), order' = order, DOMAIN entries' = DOMAIN entries,
           pc[c] \notin IndexingSteps \cup DeletingSteps \cup ClearingSteps,
           pc'[c] \notin IndexingSteps \cup DeletingSteps \cup ClearingSteps
    PROVE  NamedOnce' /\ IndexExact(c)' /\ Swept(c)'
<1>1. NamedOnce'
  BY DEF OneInv, NamedOnce
<1>2. \A k : Indexed(k)' = Indexed(k)
  BY DEF Indexed
<1>3. IndexExact(c)'
  BY <1>2 DEF OneInv, IndexExact
<1>4. Swept(c)'
  BY DEF Swept, ClearingSteps
<1> QED BY <1>1, <1>3, <1>4

\* The last step of a create puts its identifier at the end of the namespace.
LEMMA IndexGrows ==
    ASSUME NEW c, Thread = {c}, OneInv(c), InsertOrder(c) \/ PushOrder(c)
    PROVE  LET k == req[c].key
               ids == Plain(order, k.namespace) IN
           /\ pc[c] \in {"order_insert", "order_push"} /\ entries' = entries
           /\ Return(c, Answer("Ok", <<>>))
           /\ ids \in Seq(Id)
           /\ order' = Put(order, k.namespace, Append(ids, k.id))
<1> DEFINE k == req[c].key
           ns == k.namespace
<1>0. c \in Thread /\ IndType /\ \A m \in DOMAIN order : order[m] \in Seq(Id)
  BY OneTypes DEF OneInv
<1>1. CASE InsertOrder(c)
  <2>1. /\ pc[c] = "order_insert" /\ entries' = entries /\ ns \notin DOMAIN order
        /\ Return(c, Answer("Ok", <<>>))
    BY <1>1 DEF InsertOrder, OneInv, StillTrue
  <2>2. order' = Put(order, ns, <<k.id>>)
    BY <1>1, <2>1 DEF InsertOrder
  <2>3. Plain(order, ns) = <<>> /\ <<>> \in Seq(Id) /\ Append(<<>>, k.id) = <<k.id>>
    BY <2>1 DEF Plain
  <2> QED BY <2>1, <2>2, <2>3
<1>2. CASE PushOrder(c)
  <2>1. /\ pc[c] = "order_push" /\ entries' = entries /\ ns \in DOMAIN order
        /\ Return(c, Answer("Ok", <<>>))
    BY <1>2 DEF PushOrder, OneInv, StillTrue
  <2>2. order' = [order EXCEPT ![ns] = Append(order[ns], k.id)]
    BY <1>2, <2>1 DEF PushOrder
  <2>3. order' = Put(order, ns, Append(order[ns], k.id))
    BY <1>0, <2>1, <2>2 DEF Put, IndType, TypeOK, IsPartialMap
  <2>4. Plain(order, ns) = order[ns] /\ order[ns] \in Seq(Id)
    BY <1>0, <2>1 DEF Plain
  <2> QED BY <2>1, <2>3, <2>4
<1> QED BY <1>1, <1>2

\* A create indexes the key it has stored, at the end and once.
LEMMA CreateKeepsIndex ==
    ASSUME NEW c, Thread = {c}, OneInv(c),
           \/ LoadCount(c) \/ CompareExchange(c) \/ InsertEntry(c) \/ ReleaseSlot(c)
           \/ ContainsOrder(c) \/ InsertOrder(c) \/ PushOrder(c)
    PROVE  Index(c)'
<1> DEFINE k == req[c].key
           ns == k.namespace
<1>0. c \in Thread /\ IndType
  BY DEF OneInv
<1>k. k \in Key /\ ns \in Namespace /\ k.id \in Id /\ req[c].value \in Value
  <2>1. pc[c] \in CreateSteps
    BY DEF LoadCount, CompareExchange, InsertEntry, ReleaseSlot, ContainsOrder, InsertOrder,
           PushOrder, CreateSteps
  <2> QED BY <1>0, <2>1, CallArguments
<1>t. DOMAIN pc = Thread /\ DOMAIN seen = Thread /\ DOMAIN req = Thread
  BY <1>0, OneTypes
<1>1. CASE \/ LoadCount(c) \/ CompareExchange(c) \/ ReleaseSlot(c)
           \/ InsertEntry(c) /\ k \in DOMAIN entries
  <2>1. /\ UNCHANGED <<entries, order>>
        /\ pc[c] \in {"load", "cas", "insert", "release"}
        /\ pc'[c] \in {"idle", "cas", "insert", "load", "release"}
    BY <1>0, <1>1, <1>t DEF LoadCount, CompareExchange, InsertEntry, ReleaseSlot, Return, Goto
  <2>2. NamedOnce' /\ IndexExact(c)' /\ Swept(c)'
    BY <2>1, QuietKeeps DEF IndexingSteps, DeletingSteps, ClearingSteps
  <2>3. pc'[c] = "cas" => seen'[c] = count'
    BY <1>0, <1>1, <1>t DEF LoadCount, CompareExchange, InsertEntry, ReleaseSlot, Return, Goto
  <2>4. pc'[c] = "release" => req' = req /\ k \in DOMAIN entries
    BY <1>0, <1>1, <1>t DEF LoadCount, CompareExchange, InsertEntry, ReleaseSlot, Return, Goto
  <2>5. StillTrue(c)'
    BY <2>1, <2>3, <2>4 DEF StillTrue, IndexingSteps, DeletingSteps
  <2>6. Collected(c)'
    BY <2>1 DEF Collected
  <2> QED BY <2>2, <2>5, <2>6 DEF Index
<1>2. CASE InsertEntry(c) /\ k \notin DOMAIN entries
  <2>1. /\ pc[c] = "insert" /\ pc'[c] = "contains" /\ order' = order /\ req' = req
        /\ entries' = Put(entries, k, req[c].value)
    BY <1>0, <1>2, <1>t DEF InsertEntry, Goto
  <2>2. DOMAIN entries' = DOMAIN entries \cup {k} /\ entries'[k] = req[c].value
    BY <2>1 DEF Put
  <2>3. NamedOnce' /\ \A l : Indexed(l)' = Indexed(l)
    BY <2>1 DEF OneInv, NamedOnce, Indexed
  <2>4. \A l \in Key : Indexed(l) <=> l \in DOMAIN entries
    BY <2>1 DEF OneInv, IndexExact, IndexingSteps, DeletingSteps, ClearingSteps
  <2>5. IndexExact(c)'
    BY <1>2, <2>1, <2>2, <2>3, <2>4 DEF IndexExact, IndexingSteps, DeletingSteps
  <2>6. StillTrue(c)'
    BY <2>1, <2>2 DEF StillTrue, DeletingSteps
  <2>7. Swept(c)' /\ Collected(c)'
    BY <2>1 DEF Swept, Collected
  <2> QED BY <2>3, <2>5, <2>6, <2>7 DEF Index
<1>3. CASE ContainsOrder(c)
  <2>1. /\ pc[c] = "contains" /\ UNCHANGED <<entries, order, req>>
        /\ pc'[c] = IF ns \in DOMAIN order THEN "order_push" ELSE "order_insert"
    BY <1>0, <1>3, <1>t DEF ContainsOrder, Goto
  <2>2. pc[c] \in IndexingSteps /\ pc'[c] \in IndexingSteps
    BY <2>1 DEF IndexingSteps
  <2>3. NamedOnce' /\ \A l : Indexed(l)' = Indexed(l)
    BY <2>1 DEF OneInv, NamedOnce, Indexed
  <2>4. IndexExact(c)'
    BY <2>1, <2>2, <2>3 DEF OneInv, IndexExact, IndexingSteps, DeletingSteps, ClearingSteps
  <2>5. StillTrue(c)'
    BY <2>1, <2>2 DEF OneInv, StillTrue, IndexingSteps, DeletingSteps
  <2>6. Swept(c)' /\ Collected(c)'
    BY <2>1 DEF Swept, Collected
  <2> QED BY <2>3, <2>4, <2>5, <2>6 DEF Index
<1>4. CASE InsertOrder(c) \/ PushOrder(c)
  <2>1. /\ pc[c] \in IndexingSteps /\ pc'[c] = "idle" /\ entries' = entries
        /\ Plain(order, ns) \in Seq(Id)
        /\ order' = Put(order, ns, Append(Plain(order, ns), k.id))
    BY <1>0, <1>4, <1>t, IndexGrows DEF Return, Goto, IndexingSteps
  <2> DEFINE old == Plain(order, ns)
             new == Append(old, k.id)
  <2>2. /\ DOMAIN order' = DOMAIN order \cup {ns} /\ order'[ns] = new
        /\ \A m \in DOMAIN order \ {ns} : order'[m] = order[m]
    BY <2>1 DEF Put
  <2>3. /\ new \in Seq(Id) /\ Len(new) = Len(old) + 1 /\ Len(old) \in Nat
        /\ \A i \in 1..Len(old) : new[i] = old[i]
        /\ new[Len(old) + 1] = k.id
    BY <2>1, <1>k, AppendIs
  <2>4. /\ \A i, j \in 1..Len(old) : old[i] = old[j] => i = j
        /\ \A i \in 1..Len(old) : ns \in DOMAIN order /\ old = order[ns] /\ i \in DOMAIN order[ns]
    <3>1. CASE ns \in DOMAIN order
      <4>1. old = order[ns] /\ DOMAIN old = 1..Len(old)
        BY <2>1, <3>1 DEF Plain
      <4> QED BY <3>1, <4>1 DEF OneInv, NamedOnce
    <3>2. CASE ns \notin DOMAIN order
      <4>1. Len(old) = 0
        BY <3>2 DEF Plain
      <4> QED BY <4>1
    <3> QED BY <3>1, <3>2
  <2>5. ~Indexed(k)
    BY <2>1, <1>k DEF OneInv, IndexExact, IndexingSteps, DeletingSteps, ClearingSteps
  <2>6. \A i \in 1..Len(old) : old[i] # k.id
    BY <2>4, <2>5 DEF Indexed
  <2> HIDE DEF old, new
  <2>7. DOMAIN new = 1..(Len(old) + 1)
    BY <2>3
  <2>8. NamedOnce'
    <3> SUFFICES ASSUME NEW m \in DOMAIN order', NEW i \in DOMAIN order'[m],
                        NEW j \in DOMAIN order'[m], order'[m][i] = order'[m][j]
                 PROVE  i = j
      BY DEF NamedOnce
    <3>1. CASE m # ns
      BY <2>2, <3>1 DEF OneInv, NamedOnce
    <3>2. CASE m = ns
      <4>1. /\ i \in 1..(Len(old) + 1) /\ j \in 1..(Len(old) + 1) /\ new[i] = new[j]
        BY <2>2, <2>7, <3>2
      <4>2. /\ i \in 1..Len(old) \/ i = Len(old) + 1
            /\ j \in 1..Len(old) \/ j = Len(old) + 1
        BY <2>3, <4>1
      <4> QED BY <2>3, <2>4, <2>6, <4>1, <4>2
    <3> QED BY <3>1, <3>2
  <2>9. \A l \in Key : Indexed(l)' <=> Indexed(l) \/ l = k
    <3> TAKE l \in Key
    <3>1. CASE l.namespace # ns
      BY <2>2, <3>1 DEF Indexed
    <3>2. CASE l.namespace = ns
      <4>1. Indexed(l)' <=> \E i \in 1..(Len(old) + 1) : new[i] = l.id
        BY <2>2, <2>7, <3>2 DEF Indexed
      <4>2. Indexed(l) <=> \E i \in 1..Len(old) : old[i] = l.id
        <5>1. CASE ns \in DOMAIN order
          <6>1. old = order[ns] /\ DOMAIN old = 1..Len(old)
            BY <2>1, <5>1 DEF old, Plain
          <6> QED BY <3>2, <5>1, <6>1 DEF Indexed
        <5>2. CASE ns \notin DOMAIN order
          BY <2>4, <3>2, <5>2 DEF Indexed
        <5> QED BY <5>1, <5>2
      <4>3. (\E i \in 1..(Len(old) + 1) : new[i] = l.id)
               <=> (\E i \in 1..Len(old) : old[i] = l.id) \/ l.id = k.id
        <5>1. \A i \in 1..(Len(old) + 1) : i \in 1..Len(old) \/ i = Len(old) + 1
          BY <2>3
        <5>2. Len(old) + 1 \in 1..(Len(old) + 1) /\ \A i \in 1..Len(old) : i \in 1..(Len(old) + 1)
          BY <2>3
        <5> QED BY <2>3, <5>1, <5>2
      <4>4. l.id = k.id <=> l = k
        BY <1>k, <3>2, KeysAgree
      <4> QED BY <4>1, <4>2, <4>3, <4>4
    <3> QED BY <3>1, <3>2
  <2>10. IndexExact(c)'
    <3>1. k \in DOMAIN entries
      BY <2>1 DEF OneInv, StillTrue
    <3>2. \A l \in Key : Indexed(l) <=> l \in DOMAIN entries /\ l # k
      BY <2>1 DEF OneInv, IndexExact, IndexingSteps, DeletingSteps, ClearingSteps
    <3> QED BY <2>1, <2>9, <3>1, <3>2 DEF IndexExact, IndexingSteps, DeletingSteps
  <2>11. StillTrue(c)' /\ Swept(c)' /\ Collected(c)'
    BY <2>1 DEF StillTrue, Swept, Collected, IndexingSteps, DeletingSteps
  <2> QED BY <2>8, <2>10, <2>11 DEF Index
<1> QED BY <1>1, <1>2, <1>3, <1>4

\* A delete prunes the key it has removed; read and update leave the index alone.
LEMMA KeyedKeepsIndex ==
    ASSUME NEW c, Thread = {c}, OneInv(c),
           Read(c) \/ Update(c) \/ RemoveEntry(c) \/ Uncount(c) \/ RetainOrder(c)
    PROVE  Index(c)'
<1> DEFINE k == req[c].key
           ns == k.namespace
<1>0. c \in Thread /\ IndType
  BY DEF OneInv
<1>k. k \in Key /\ ns \in Namespace /\ k.id \in Id
  <2>1. pc[c] \in DeleteSteps \cup {"read", "update"}
    BY DEF Read, Update, RemoveEntry, Uncount, RetainOrder, DeleteSteps
  <2> QED BY <1>0, <2>1, CallArguments
<1>t. DOMAIN pc = Thread /\ DOMAIN req = Thread
  BY <1>0, OneTypes
<1>1. CASE Read(c) \/ Update(c) \/ (RemoveEntry(c) /\ k \notin DOMAIN entries)
  <2>1. /\ order' = order /\ DOMAIN entries' = DOMAIN entries
        /\ pc[c] \in {"read", "update", "remove"} /\ pc'[c] = "idle"
    BY <1>0, <1>1, <1>t DEF Read, Update, RemoveEntry, Return, Goto
  <2>2. NamedOnce' /\ IndexExact(c)' /\ Swept(c)'
    BY <2>1, QuietKeeps DEF IndexingSteps, DeletingSteps, ClearingSteps
  <2>3. StillTrue(c)' /\ Collected(c)'
    BY <2>1 DEF StillTrue, Collected, IndexingSteps, DeletingSteps
  <2> QED BY <2>2, <2>3 DEF Index
<1>2. CASE RemoveEntry(c) /\ k \in DOMAIN entries
  <2>1. /\ pc[c] = "remove" /\ pc'[c] = "uncount" /\ UNCHANGED <<order, req>>
        /\ DOMAIN entries' = DOMAIN entries \ {k}
    BY <1>0, <1>2, <1>t DEF RemoveEntry, Goto, Drop, Restrict
  <2>2. NamedOnce' /\ \A l : Indexed(l)' = Indexed(l)
    BY <2>1 DEF OneInv, NamedOnce, Indexed
  <2>3. \A l \in Key : Indexed(l) <=> l \in DOMAIN entries
    BY <2>1 DEF OneInv, IndexExact, IndexingSteps, DeletingSteps, ClearingSteps
  <2>4. IndexExact(c)'
    BY <1>2, <2>1, <2>2, <2>3 DEF IndexExact, IndexingSteps, DeletingSteps
  <2>5. StillTrue(c)' /\ Swept(c)' /\ Collected(c)'
    BY <2>1 DEF StillTrue, Swept, Collected, IndexingSteps
  <2> QED BY <2>2, <2>4, <2>5 DEF Index
<1>3. CASE Uncount(c)
  <2>1. /\ pc[c] = "uncount" /\ pc'[c] = "retain" /\ UNCHANGED <<entries, order, req>>
    BY <1>0, <1>3, <1>t DEF Uncount, Goto
  <2>2. NamedOnce' /\ \A l : Indexed(l)' = Indexed(l)
    BY <2>1 DEF OneInv, NamedOnce, Indexed
  <2>3. IndexExact(c)'
    BY <2>1, <2>2 DEF OneInv, IndexExact, IndexingSteps, DeletingSteps, ClearingSteps
  <2>4. StillTrue(c)'
    BY <2>1 DEF OneInv, StillTrue, IndexingSteps, DeletingSteps
  <2>5. Swept(c)' /\ Collected(c)'
    BY <2>1 DEF Swept, Collected
  <2> QED BY <2>2, <2>3, <2>4, <2>5 DEF Index
<1>4. CASE RetainOrder(c)
  <2>1. /\ pc[c] = "retain" /\ pc'[c] = "idle" /\ entries' = entries
        /\ k \notin DOMAIN entries
    BY <1>0, <1>4, <1>t DEF RetainOrder, Return, Goto, OneInv, StillTrue, DeletingSteps
  <2>2. \A l \in Key : Indexed(l) <=> l \in DOMAIN entries \/ l = k
    BY <2>1 DEF OneInv, IndexExact, IndexingSteps, DeletingSteps, ClearingSteps
  <2>3. PICK p \in DOMAIN order[ns] : ns \in DOMAIN order /\ order[ns][p] = k.id
    BY <1>k, <2>2 DEF Indexed
  <2> DEFINE ids == order[ns]
  <2>4. ids \in Seq(Id) /\ Len(ids) \in Nat /\ DOMAIN ids = 1..Len(ids) /\ p \in 1..Len(ids)
    <3>1. ids \in Seq(Id)
      BY <1>0, <2>3, OneTypes
    <3> QED BY <2>3, <3>1
  <2>5. \A i, j \in 1..Len(ids) : ids[i] = ids[j] => i = j
    BY <2>3, <2>4 DEF OneInv, NamedOnce
  <2>6. order' = [order EXCEPT ![ns] = Without(ids, p)]
    <3>1. order' = [order EXCEPT ![ns] = Retain(ids, k.id)]
      BY <1>4, <2>3 DEF RetainOrder
    <3>2. Retain(ids, ids[p]) = Without(ids, p)
      BY <2>4, <2>5, RetainRemoves
    <3> QED BY <2>3, <3>1, <3>2
  <2> DEFINE new == Without(ids, p)
  <2>7. /\ DOMAIN order' = DOMAIN order /\ order'[ns] = new
        /\ \A m \in DOMAIN order \ {ns} : order'[m] = order[m]
    BY <2>3, <2>6
  <2>8. /\ new \in Seq(Id) /\ Len(new) = Len(ids) - 1
        /\ \A i, j \in 1..(Len(ids) - 1) : new[i] = new[j] => i = j
        /\ \A x : (\E i \in 1..(Len(ids) - 1) : new[i] = x)
                    <=> x # ids[p] /\ \E i \in 1..Len(ids) : ids[i] = x
    <3> HIDE DEF ids
    <3> QED BY <2>4, <2>5, WithoutHas
  <2> HIDE DEF new
  <2>9. DOMAIN new = 1..(Len(ids) - 1)
    BY <2>8
  <2>10. NamedOnce'
    <3> SUFFICES ASSUME NEW m \in DOMAIN order', NEW i \in DOMAIN order'[m],
                        NEW j \in DOMAIN order'[m], order'[m][i] = order'[m][j]
                 PROVE  i = j
      BY DEF NamedOnce
    <3>1. CASE m # ns
      BY <2>7, <3>1 DEF OneInv, NamedOnce
    <3>2. CASE m = ns
      BY <2>7, <2>8, <2>9, <3>2
    <3> QED BY <3>1, <3>2
  <2>11. \A l \in Key : Indexed(l)' <=> Indexed(l) /\ l # k
    <3> TAKE l \in Key
    <3>1. CASE l.namespace # ns
      BY <2>7, <3>1 DEF Indexed
    <3>2. CASE l.namespace = ns
      <4>1. Indexed(l)' <=> \E i \in 1..(Len(ids) - 1) : new[i] = l.id
        BY <2>3, <2>7, <2>9, <3>2 DEF Indexed
      <4>2. Indexed(l) <=> \E i \in 1..Len(ids) : ids[i] = l.id
        BY <2>3, <2>4, <3>2 DEF Indexed
      <4>3. l.id = ids[p] <=> l = k
        BY <1>k, <2>3, <3>2, KeysAgree
      <4> QED BY <2>8, <4>1, <4>2, <4>3
    <3> QED BY <3>1, <3>2
  <2>12. IndexExact(c)'
    BY <2>1, <2>2, <2>11 DEF IndexExact, IndexingSteps, DeletingSteps
  <2>13. StillTrue(c)' /\ Swept(c)' /\ Collected(c)'
    BY <2>1 DEF StillTrue, Swept, Collected, IndexingSteps, DeletingSteps
  <2> QED BY <2>10, <2>12, <2>13 DEF Index
<1> QED BY <1>1, <1>2, <1>3, <1>4

\* A list moves the head of what is unread behind what it has collected.
LEMMA ListKeepsIndex ==
    ASSUME NEW c, Thread = {c}, OneInv(c), OpenList(c) \/ LookUp(c) \/ CloseList(c)
    PROVE  Index(c)'
<1> DEFINE ns == req[c].namespace
<1>0. c \in Thread /\ IndType
  BY DEF OneInv
<1>t. /\ DOMAIN pc = Thread /\ DOMAIN req = Thread /\ DOMAIN acc = Thread /\ DOMAIN unread = Thread
      /\ unread[c] \in Seq(Id) /\ acc[c] \in Seq(Value)
      /\ \A m \in DOMAIN order : order[m] \in Seq(Id)
  BY <1>0, OneTypes
<1>1. /\ UNCHANGED <<entries, order>>
      /\ pc[c] \in {"open", "look_up"} /\ pc'[c] \in {"idle", "look_up"}
  BY <1>0, <1>t DEF OpenList, LookUp, CloseList, Return, Goto
<1>2. NamedOnce' /\ IndexExact(c)' /\ Swept(c)'
  BY <1>1, QuietKeeps DEF IndexingSteps, DeletingSteps, ClearingSteps
<1>3. StillTrue(c)'
  BY <1>1 DEF StillTrue, IndexingSteps, DeletingSteps
<1>4. Collected(c)'
  <2>1. CASE pc'[c] = "idle"
    BY <2>1 DEF Collected
  <2>2. CASE OpenList(c) /\ pc'[c] = "look_up"
    <3>1. /\ ns \in DOMAIN order /\ req' = req
          /\ unread'[c] = order[ns] /\ acc'[c] = <<>>
      BY <1>0, <1>t, <2>2 DEF OpenList, Return, Goto
    <3>2. order[ns] \in Seq(Id) /\ Len(<<>>) = 0
      BY <1>t, <3>1
    <3> QED BY <1>1, <3>1, <3>2 DEF Collected
  <2>3. CASE LookUp(c)
    <3> DEFINE n == Len(acc[c])
               m == Len(unread[c])
               key == KeyOf(ns, Head(unread[c]))
    <3>1. /\ pc[c] = "look_up" /\ req' = req /\ unread[c] # <<>>
          /\ unread'[c] = Tail(unread[c])
          /\ acc'[c] = IF key \in DOMAIN entries THEN Append(acc[c], entries[key]) ELSE acc[c]
      BY <1>0, <1>t, <2>3 DEF LookUp, KeyOf
    <3>2. /\ ns \in DOMAIN order /\ n + m = Len(order[ns])
          /\ \A i \in 1..n : acc[c][i] = entries[KeyOf(ns, order[ns][i])]
          /\ \A i \in 1..m : unread[c][i] = order[ns][n + i]
      BY <3>1 DEF OneInv, Collected
    <3>3. /\ n \in Nat /\ m \in Nat /\ m # 0
          /\ order[ns] \in Seq(Id) /\ DOMAIN order[ns] = 1..Len(order[ns])
      BY <1>t, <3>1, <3>2, EmptySeq
    <3>5. Len(Tail(unread[c])) = m - 1 /\ \A i \in 1..(m - 1) : Tail(unread[c])[i] = unread[c][i + 1]
      BY <1>t, <3>1, HeadTailProperties
    <3>10. n = Len(acc[c])
      OBVIOUS
    <3> HIDE DEF n, m
    <3>4. Head(unread[c]) = order[ns][n + 1] /\ n + 1 \in DOMAIN order[ns]
      <4>1. Head(unread[c]) = unread[c][1]
        BY <3>1, <1>t
      <4>2. 1 \in 1..m /\ n + 1 \in 1..Len(order[ns])
        BY <3>2, <3>3
      <4> QED BY <3>2, <3>3, <4>1, <4>2
    <3>6. key \in Key /\ Indexed(key)
      <4>1. ns \in Namespace /\ Head(unread[c]) \in Id
        <5>1. ns \in Namespace
          BY <1>0, <3>2, OneTypes
        <5> QED BY <1>t, <3>1, HeadTailProperties, <5>1
      <4>2. key \in Key /\ key.namespace = ns /\ key.id = Head(unread[c])
        BY <4>1, KeyOfIs
      <4> HIDE DEF key
      <4> QED BY <3>2, <3>4, <4>2 DEF Indexed
    <3>7. key \in DOMAIN entries
      <4> HIDE DEF key
      <4> QED BY <3>1, <3>6 DEF OneInv, IndexExact, ClearingSteps, DeletingSteps
    <3>8. entries[key] \in Value
      <4> HIDE DEF key
      <4> QED BY <1>0, <3>7, OneTypes
    <3>9. key = KeyOf(ns, order[ns][n + 1])
      BY <3>4
    <3> HIDE DEF key
    <3>14. /\ Len(acc'[c]) = n + 1
           /\ \A i \in 1..n : acc'[c][i] = acc[c][i]
           /\ acc'[c][n + 1] = entries[key]
      <4>1. acc'[c] = Append(acc[c], entries[key])
        BY <3>1, <3>7
      <4>2. /\ Len(Append(acc[c], entries[key])) = n + 1
            /\ \A i \in 1..n : Append(acc[c], entries[key])[i] = acc[c][i]
            /\ Append(acc[c], entries[key])[n + 1] = entries[key]
        BY <1>t, <3>8, <3>10, AppendIs
      <4> QED BY <4>1, <4>2, Zenon
    <3>11. Len(acc'[c]) + Len(unread'[c]) = Len(order[ns])
      <4>1. Len(acc'[c]) = n + 1 /\ Len(unread'[c]) = m - 1
        BY <3>1, <3>5, <3>14, Zenon
      <4> QED BY <3>2, <3>3, <4>1
    <3>12. ASSUME NEW i \in 1..(n + 1) PROVE acc'[c][i] = entries[KeyOf(ns, order[ns][i])]
      <4>1. i \in 1..n \/ i = n + 1
        BY <3>3
      <4> QED BY <3>2, <3>9, <3>14, <4>1
    <3>13. ASSUME NEW i \in 1..(m - 1) PROVE unread'[c][i] = order[ns][(n + 1) + i]
      <4>1. i + 1 \in 1..m /\ n + (i + 1) = (n + 1) + i
        BY <3>3
      <4>2. unread[c][i + 1] = order[ns][n + (i + 1)]
        BY <3>2, <4>1
      <4> QED BY <3>1, <3>5, <4>1, <4>2
    <3> QED BY <1>1, <3>1, <3>2, <3>5, <3>14, <3>11, <3>12, <3>13 DEF Collected
  <2>4. CloseList(c) => pc'[c] = "idle"
    BY <1>0, <1>t DEF CloseList, Return, Goto
  <2> QED BY <1>1, <2>1, <2>2, <2>3, <2>4
<1> QED BY <1>2, <1>3, <1>4 DEF Index

\* The beginning of a call does not touch the index.
LEMMA InvokeKeepsIndex ==
    ASSUME NEW c, Thread = {c}, OneInv(c), NEW r \in Requests, Invoke(c, r)
    PROVE  Index(c)'
<1>0. c \in Thread /\ IndType
  BY DEF OneInv
<1>t. DOMAIN pc = Thread
  BY <1>0, OneTypes
<1>1. Entry(r.op) \in {"load", "read", "update", "remove", "open", "clear_load"}
  BY RequestShapes DEF Entry, AllOps
<1>2. pc[c] = "idle" /\ pc'[c] = Entry(r.op) /\ UNCHANGED <<entries, order>>
  BY <1>0, <1>t DEF Invoke, Goto
<1>3. NamedOnce' /\ IndexExact(c)' /\ Swept(c)'
  BY <1>1, <1>2, QuietKeeps DEF IndexingSteps, DeletingSteps, ClearingSteps
<1>4. StillTrue(c)' /\ Collected(c)'
  BY <1>1, <1>2 DEF StillTrue, Collected, IndexingSteps, DeletingSteps
<1> QED BY <1>3, <1>4 DEF Index

\* A clear empties both maps before it resets the counter.
LEMMA ClearKeepsOne ==
    ASSUME NEW c, Thread = {c}, OneInv(c),
           \/ ClearLoad(c)
           \/ \E k \in Key : SweepEntry(c, k)
           \/ \E ns \in Namespace : SweepOrder(c, ns)
           \/ ClearStore(c)
    PROVE  OneInv(c)'
<1>0. c \in Thread /\ IndType /\ IndType'
  BY ListClearKeepTypes DEF OneInv
<1>t. /\ DOMAIN pc = Thread /\ DOMAIN unswept = Thread
      /\ DOMAIN entries \subseteq Key /\ DOMAIN order \subseteq Namespace
  BY <1>0, OneTypes
<1>p. pc[c] \in ClearSteps
  BY DEF ClearLoad, SweepEntry, SweepOrder, ClearStore, ClearSteps
<1>b. count \in Nat /\ count <= Limit
  BY <1>0, OneTypes DEF OneInv, SlotsBounded
<1>1. CASE ClearLoad(c)
  <2>1. /\ pc'[c] = "sweep_entries" /\ unswept'[c] = Key /\ UNCHANGED <<entries, order, count>>
    BY <1>0, <1>1, <1>t DEF ClearLoad, Goto
  <2>2. NamedOnce' /\ SlotsBounded' /\ IsFiniteSet(DOMAIN entries')
    BY <1>b, <2>1 DEF OneInv, NamedOnce, SlotsBounded
  <2>3. Swept(c)'
    BY <1>t, <2>1 DEF Swept
  <2>4. IndexExact(c)' /\ StillTrue(c)' /\ Collected(c)' /\ pc'[c] \in ClearingSteps
    BY <2>1 DEF IndexExact, StillTrue, Collected, ClearingSteps, IndexingSteps, DeletingSteps
  <2> QED BY <1>0, <2>2, <2>3, <2>4 DEF OneInv
<1>2. ASSUME NEW k \in Key, SweepEntry(c, k) PROVE OneInv(c)'
  <2>1. /\ pc[c] = "sweep_entries" /\ k \in unswept[c] /\ UNCHANGED <<order, count>>
        /\ DOMAIN entries' = DOMAIN entries \ {k}
        /\ pc'[c] = IF unswept[c] = {k} THEN "sweep_order" ELSE "sweep_entries"
        /\ unswept'[c] = IF unswept[c] = {k} THEN Namespace ELSE unswept[c] \ {k}
    BY <1>0, <1>2, <1>t DEF SweepEntry, Goto, Drop, Restrict
  <2>2. NamedOnce' /\ SlotsBounded'
    BY <1>b, <2>1 DEF OneInv, NamedOnce, SlotsBounded
  <2>3. IsFiniteSet(DOMAIN entries')
    BY <2>1, FS_Subset DEF OneInv
  <2>4. DOMAIN entries \subseteq unswept[c]
    BY <2>1 DEF OneInv, Swept
  <2>5. Swept(c)'
    <3>1. CASE unswept[c] = {k}
      <4>1. pc'[c] = "sweep_order" /\ unswept'[c] = Namespace /\ DOMAIN entries' = {}
        BY <2>1, <2>4, <3>1
      <4> QED BY <1>t, <2>1, <4>1 DEF Swept
    <3>2. CASE unswept[c] # {k}
      <4>1. pc'[c] = "sweep_entries" /\ unswept'[c] = unswept[c] \ {k}
        BY <2>1, <3>2
      <4> QED BY <2>1, <2>4, <4>1 DEF Swept
    <3> QED BY <3>1, <3>2
  <2>6. IndexExact(c)' /\ StillTrue(c)' /\ Collected(c)' /\ pc'[c] \in ClearingSteps
    BY <2>1 DEF IndexExact, StillTrue, Collected, ClearingSteps, IndexingSteps, DeletingSteps
  <2> QED BY <1>0, <2>2, <2>3, <2>5, <2>6 DEF OneInv
<1>3. ASSUME NEW ns \in Namespace, SweepOrder(c, ns) PROVE OneInv(c)'
  <2>1. /\ pc[c] = "sweep_order" /\ UNCHANGED <<entries, count>>
        /\ DOMAIN order' = DOMAIN order \ {ns} /\ \A m \in DOMAIN order' : order'[m] = order[m]
        /\ pc'[c] = IF unswept[c] = {ns} THEN "clear_store" ELSE "sweep_order"
        /\ unswept'[c] = unswept[c] \ {ns}
    BY <1>0, <1>3, <1>t DEF SweepOrder, Goto, Drop, Restrict
  <2>2. DOMAIN entries = {} /\ DOMAIN order \subseteq unswept[c]
    BY <2>1 DEF OneInv, Swept
  <2>3. NamedOnce' /\ SlotsBounded' /\ IsFiniteSet(DOMAIN entries')
    BY <1>b, <2>1 DEF OneInv, NamedOnce, SlotsBounded
  <2>4. Swept(c)'
    <3>1. CASE unswept[c] = {ns}
      <4>1. pc'[c] = "clear_store" /\ DOMAIN order' = {} /\ DOMAIN entries' = {}
        BY <2>1, <2>2, <3>1
      <4> QED BY <4>1 DEF Swept
    <3>2. CASE unswept[c] # {ns}
      <4>1. pc'[c] = "sweep_order" /\ DOMAIN order' \subseteq unswept'[c] /\ DOMAIN entries' = {}
        BY <2>1, <2>2, <3>2
      <4> QED BY <4>1 DEF Swept
    <3> QED BY <3>1, <3>2
  <2>5. IndexExact(c)' /\ StillTrue(c)' /\ Collected(c)' /\ pc'[c] \in ClearingSteps
    BY <2>1 DEF IndexExact, StillTrue, Collected, ClearingSteps, IndexingSteps, DeletingSteps
  <2> QED BY <1>0, <2>3, <2>4, <2>5 DEF OneInv
<1>4. CASE ClearStore(c)
  <2>1. /\ pc[c] = "clear_store" /\ pc' = [pc EXCEPT ![c] = "idle"]
        /\ UNCHANGED <<entries, order>> /\ count' = 0
    BY <1>0, <1>4 DEF ClearStore, Return, Goto
  <2>2. pc'[c] = "idle" /\ DOMAIN entries = {} /\ DOMAIN order = {}
    BY <1>0, <1>t, <2>1 DEF OneInv, Swept
  <2>3. SlotHolders' = {}
    BY <2>2 DEF SlotHolders
  <2>4. CountAccounting'
    BY <2>1, <2>2, <2>3, FS_EmptySet DEF CountAccounting
  <2>5. SlotsBounded' /\ NamedOnce' /\ IsFiniteSet(DOMAIN entries')
    BY <2>1, <2>2, LimitAssumption DEF OneInv, NamedOnce, SlotsBounded
  <2>6. IndexExact(c)'
    BY <2>1, <2>2 DEF IndexExact, Indexed, DeletingSteps
  <2>7. StillTrue(c)' /\ Collected(c)' /\ Swept(c)'
    BY <2>2 DEF StillTrue, Collected, Swept, IndexingSteps, DeletingSteps
  <2> QED BY <1>0, <2>4, <2>5, <2>6, <2>7 DEF OneInv
<1> QED BY <1>1, <1>2, <1>3, <1>4

\* The invariant of one caller holds at first.
LEMMA InitOne ==
    ASSUME NEW c, Thread = {c}
    PROVE  Init => OneInv(c)
<1> SUFFICES ASSUME Init PROVE OneInv(c)
  OBVIOUS
<1>1. CountInv
  BY InitCount
<1>2. DOMAIN entries = {} /\ DOMAIN order = {} /\ pc[c] = "idle"
  BY DEF Init
<1>3. NamedOnce /\ IndexExact(c) /\ StillTrue(c) /\ Swept(c) /\ Collected(c)
  BY <1>2 DEF NamedOnce, IndexExact, Indexed, StillTrue, Swept, Collected,
              IndexingSteps, DeletingSteps
<1> QED BY <1>1, <1>3 DEF CountInv, OneInv

\* Every step of one caller, clear included, keeps it.
LEMMA NextKeepsOne ==
    ASSUME NEW c, Thread = {c}
    PROVE  OneInv(c) /\ [Next]_vars => OneInv(c)'
<1> SUFFICES ASSUME OneInv(c), [Next]_vars PROVE OneInv(c)'
  OBVIOUS
<1>0. c \in Thread
  OBVIOUS
<1>1. pc[c] \notin ClearingSteps => CountInv
  BY DEF OneInv, CountInv
<1>2. CountInv' /\ Index(c)' => OneInv(c)'
  BY DEF OneInv, CountInv, Index
<1>3. CASE \/ LoadCount(c) \/ CompareExchange(c) \/ InsertEntry(c) \/ ReleaseSlot(c)
           \/ ContainsOrder(c) \/ InsertOrder(c) \/ PushOrder(c)
  <2>1. pc[c] \notin ClearingSteps
    BY <1>3 DEF LoadCount, CompareExchange, InsertEntry, ReleaseSlot, ContainsOrder,
                InsertOrder, PushOrder, ClearingSteps
  <2>2. CountInv'
    BY <1>0, <1>1, <1>3, <2>1, CreateKeepsCount
  <2>3. Index(c)'
    BY <1>3, CreateKeepsIndex
  <2> QED BY <1>2, <2>2, <2>3
<1>4. CASE \/ Read(c) \/ Update(c) \/ RemoveEntry(c) \/ Uncount(c) \/ RetainOrder(c)
           \/ OpenList(c) \/ LookUp(c) \/ CloseList(c)
  <2>1. pc[c] \notin ClearingSteps
    BY <1>4 DEF Read, Update, RemoveEntry, Uncount, RetainOrder, OpenList, LookUp, CloseList,
                ClearingSteps
  <2>2. CountInv'
    BY <1>0, <1>1, <1>4, <2>1, KeyedKeepsCount
  <2>3. Index(c)'
    BY <1>4, KeyedKeepsIndex, ListKeepsIndex
  <2> QED BY <1>2, <2>2, <2>3
<1>5. ASSUME NEW r \in Requests, Invoke(c, r) PROVE OneInv(c)'
  <2>1. pc[c] \notin ClearingSteps
    BY <1>5 DEF Invoke, ClearingSteps
  <2>2. CountInv'
    BY <1>0, <1>1, <1>5, <2>1, InvokeKeepsCount
  <2>3. Index(c)'
    BY <1>5, InvokeKeepsIndex
  <2> QED BY <1>2, <2>2, <2>3
<1>6. CASE UNCHANGED vars
  <2>1. IndType'
    BY <1>6, NextKeepsTypes DEF OneInv
  <2>2. UNCHANGED <<entries, order, count, pc, req, seen, unread, acc, unswept>>
    BY <1>6 DEF vars
  <2>3. SlotsBounded' = SlotsBounded /\ CountAccounting' = CountAccounting /\ NamedOnce' = NamedOnce
    BY <2>2 DEF SlotsBounded, CountAccounting, SlotHolders, NamedOnce
  <2>4. IndexExact(c)' = IndexExact(c) /\ StillTrue(c)' = StillTrue(c)
    BY <2>2 DEF IndexExact, Indexed, StillTrue
  <2>5. Swept(c)' = Swept(c) /\ Collected(c)' = Collected(c)
    BY <2>2 DEF Swept, Collected
  <2> QED BY <2>1, <2>2, <2>3, <2>4, <2>5 DEF OneInv
<1>7. CASE Step(c)
  BY <1>3, <1>4, <1>7, ClearKeepsOne DEF Step
<1> QED BY <1>5, <1>6, <1>7 DEF Next

-----------------------------------------------------------------------------
(* What the shelves hold *)

\* SequentialStore counts with the same operator.
LEMMA SequentialCardinality == \A S : Sequential!Cardinality(S) = Cardinality(S)
  BY DEF Sequential!Cardinality, Cardinality

\* A namespace's index is a sequence, and its places name indexed keys.
LEMMA PlainHas ==
    ASSUME IndType, NEW ns \in Namespace
    PROVE  /\ Plain(order, ns) \in Seq(Id) /\ DOMAIN Plain(order, ns) = 1..Len(Plain(order, ns))
           /\ \A i \in DOMAIN Plain(order, ns) :
                 /\ ns \in DOMAIN order /\ i \in DOMAIN order[ns]
                 /\ Plain(order, ns)[i] = order[ns][i] /\ order[ns][i] \in Id
           /\ \A i : ns \in DOMAIN order /\ i \in DOMAIN order[ns] => i \in DOMAIN Plain(order, ns)
<1>0. DOMAIN order \subseteq Namespace /\ \A m \in DOMAIN order : order[m] \in Seq(Id)
  BY DEF IndType, TypeOK, IsPartialMap
<1>1. CASE ns \in DOMAIN order
  <2>1. Plain(order, ns) = order[ns] /\ order[ns] \in Seq(Id)
    BY <1>0, <1>1 DEF Plain
  <2> QED BY <1>1, <2>1, ElementOfSeq, LenProperties
<1>2. CASE ns \notin DOMAIN order
  <2>1. Plain(order, ns) = <<>>
    BY <1>2 DEF Plain
  <2>2. <<>> \in Seq(Id) /\ DOMAIN <<>> = 1..Len(<<>>) /\ DOMAIN <<>> = {}
    OBVIOUS
  <2> QED BY <1>2, <2>1, <2>2
<1> QED BY <1>1, <1>2

\* There are as many places on the shelves as keys in the index.
LEMMA PlacesCounted ==
    ASSUME NEW c, Thread = {c}, OneInv(c), pc[c] \notin DeletingSteps \cup ClearingSteps
    PROVE  Sequential!Total = Cardinality({k \in Key : Indexed(k)})
<1> DEFINE K == {k \in Key : Indexed(k)}
           at(k) == CHOOSE i \in DOMAIN order[k.namespace] : order[k.namespace][i] = k.id
           f == [k \in K |-> <<k.namespace, at(k)>>]
           P == Sequential!Places
<1>0. IndType /\ NamedOnce /\ IsFiniteSet(DOMAIN entries)
  BY DEF OneInv
<1>1. Shelf = PlainShelf(entries, order)
  BY View, PlainView
<1>2. \A ns \in Namespace : DOMAIN Shelf[ns] = DOMAIN Plain(order, ns)
  BY <1>1 DEF PlainShelf, Shelved
<1>3. \A x : x \in P <=> \E ns \in Namespace : \E i \in DOMAIN Plain(order, ns) : x = <<ns, i>>
  <2>1. P = UNION {{ns} \X DOMAIN Shelf[ns] : ns \in Namespace}
    BY DEF Sequential!Places
  <2>2. \A x : x \in P <=> \E ns \in Namespace : x \in {ns} \X DOMAIN Shelf[ns]
    BY <2>1
  <2> HIDE DEF P
  <2>3. \A x : \A ns \in Namespace : x \in {ns} \X DOMAIN Shelf[ns]
                                       <=> \E i \in DOMAIN Plain(order, ns) : x = <<ns, i>>
    BY <1>2
  <2> QED BY <2>2, <2>3
<1>4. ASSUME NEW k \in K
      PROVE  /\ k.namespace \in Namespace /\ k.namespace \in DOMAIN order
             /\ at(k) \in DOMAIN order[k.namespace] /\ order[k.namespace][at(k)] = k.id
             /\ at(k) \in DOMAIN Plain(order, k.namespace)
  <2>1. k \in Key /\ k.namespace \in DOMAIN order
        /\ \E i \in DOMAIN order[k.namespace] : order[k.namespace][i] = k.id
    BY DEF Indexed
  <2>2. k.namespace \in Namespace
    BY <2>1, KeyShape
  <2>3. at(k) \in DOMAIN order[k.namespace] /\ order[k.namespace][at(k)] = k.id
    BY <2>1
  <2> HIDE DEF at
  <2> QED BY <1>0, <2>1, <2>2, <2>3, PlainHas
<1>5. \A k \in K : f[k] = <<k.namespace, at(k)>>
  OBVIOUS
<1>6. f \in [K -> P]
  <2>1. ASSUME NEW k \in K PROVE <<k.namespace, at(k)>> \in P
    <3> HIDE DEF P, K, at
    <3> QED BY <1>3, <1>4
  <2> HIDE DEF P, K, at
  <2> QED BY <2>1
<1>7. ASSUME NEW k \in K, NEW l \in K, f[k] = f[l] PROVE k = l
  <2>1. k.namespace = l.namespace /\ at(k) = at(l)
    <3> HIDE DEF at, f
    <3> QED BY <1>5, <1>7
  <2>2. order[k.namespace][at(k)] = k.id /\ order[l.namespace][at(l)] = l.id
    BY <1>4
  <2> HIDE DEF at, f
  <2>3. k.id = l.id
    BY <2>1, <2>2
  <2> QED BY <2>1, <2>3, KeysAgree
<1>8. ASSUME NEW x \in P PROVE \E k \in K : f[k] = x
  <2>1. PICK ns \in Namespace : \E i \in DOMAIN Plain(order, ns) : x = <<ns, i>>
    BY <1>3
  <2>2. PICK i \in DOMAIN Plain(order, ns) : x = <<ns, i>>
    BY <2>1
  <2>3. ns \in DOMAIN order /\ i \in DOMAIN order[ns] /\ order[ns][i] \in Id
    BY <1>0, PlainHas
  <2> DEFINE k == KeyOf(ns, order[ns][i])
  <2>4. k \in Key /\ k.namespace = ns /\ k.id = order[ns][i]
    BY <2>3, KeyOfIs
  <2> HIDE DEF k, P
  <2>5. k \in K
    BY <2>3, <2>4 DEF Indexed
  <2>6. at(k) \in DOMAIN order[ns] /\ order[ns][at(k)] = order[ns][i]
    BY <1>4, <2>4, <2>5
  <2> HIDE DEF at, f, K
  <2>7. at(k) = i
    BY <1>0, <2>3, <2>6 DEF NamedOnce
  <2> QED BY <1>5, <2>2, <2>4, <2>5, <2>7
<1>9. IsFiniteSet(K)
  <2>1. K \in SUBSET DOMAIN entries
    BY DEF OneInv, IndexExact
  <2> QED BY <1>0, <2>1, FS_Subset
<1> HIDE DEF f, K, P
<1>10. ExistsBijection(K, P)
  BY <1>6, <1>7, <1>8, Fun_IsBij, Fun_ExistsBij
<1>11. Cardinality(P) = Cardinality(K)
  BY <1>9, <1>10, FS_Bijection
<1> QED BY <1>11, SequentialCardinality DEF Sequential!Total, P, K

\* So the counter is the total, but for the slot of the create in progress.
LEMMA TotalIs ==
    ASSUME NEW c, Thread = {c}, OneInv(c), pc[c] \in CreateSteps \cup {"clear_load"}
    PROVE  /\ pc[c] \in {"load", "clear_load"} => Sequential!Total = count
           /\ pc[c] \in {"release", "order_insert", "order_push"} => Sequential!Total < Limit
<1> DEFINE k == req[c].key
           K == {l \in Key : Indexed(l)}
<1>0. /\ c \in Thread /\ IndType /\ IsFiniteSet(DOMAIN entries) /\ DOMAIN entries \subseteq Key
      /\ Cardinality(DOMAIN entries) \in Nat /\ Limit \in Nat
  BY OneTypes, FS_CardinalityType, LimitAssumption DEF OneInv
<1>1. pc[c] \notin DeletingSteps \cup ClearingSteps
  BY DEF CreateSteps, DeletingSteps, ClearingSteps
<1>2. Sequential!Total = Cardinality(K)
  BY <1>1, PlacesCounted
<1>3. /\ count = Cardinality(DOMAIN entries) + Cardinality(SlotHolders) /\ count <= Limit
      /\ Cardinality(SlotHolders) = IF pc[c] \in {"insert", "release", "uncount"} THEN 1 ELSE 0
  BY <1>0, <1>1, OneSlot DEF OneInv, CountAccounting, SlotsBounded
<1>4. CASE pc[c] \in {"load", "clear_load", "release"}
  <2>1. K = DOMAIN entries
    BY <1>0, <1>1, <1>4 DEF OneInv, IndexExact, IndexingSteps
  <2> HIDE DEF K
  <2> QED BY <1>0, <1>2, <1>3, <1>4, <2>1
<1>5. CASE pc[c] \in {"order_insert", "order_push"}
  <2>1. pc[c] \in IndexingSteps /\ k \in DOMAIN entries
    BY <1>5 DEF IndexingSteps, OneInv, StillTrue
  <2>2. K = DOMAIN entries \ {k}
    BY <1>0, <1>1, <2>1 DEF OneInv, IndexExact
  <2>3. Cardinality(DOMAIN entries \ {k}) = Cardinality(DOMAIN entries) - 1
    BY <1>0, <2>1, FS_RemoveElement
  <2> HIDE DEF K
  <2> QED BY <1>0, <1>2, <1>3, <1>5, <2>2, <2>3
<1> QED BY <1>4, <1>5

\* Where a call finds its resource.
LEMMA HereIs ==
    ASSUME NEW c, Thread = {c}, OneInv(c), pc[c] \notin DeletingSteps \cup ClearingSteps,
           req[c].key \in Key
    PROVE  LET ns == req[c].key.namespace
               ids == Plain(order, ns) IN
           /\ CallerPending = req[c] /\ Shelf = PlainShelf(entries, order)
           /\ Sequential!Here = Shelved(entries, ids, ns)
           /\ Sequential!Place = {i \in DOMAIN ids : ids[i] = req[c].key.id}
           /\ \A i \in DOMAIN ids : /\ Sequential!Here[i].id = ids[i]
                                    /\ Sequential!Here[i].value = entries[KeyOf(ns, ids[i])]
           /\ Sequential!Place # {} <=> Indexed(req[c].key)
<1> DEFINE ns == req[c].key.namespace
           ids == Plain(order, ns)
<1>0. IndType /\ ns \in Namespace
  BY KeyShape DEF OneInv
<1>1. CallerPending = req[c] /\ Shelf = PlainShelf(entries, order)
  BY View, PlainView DEF PendingOf
<1>2. Sequential!Here = Shelved(entries, ids, ns)
  BY <1>0, <1>1 DEF Sequential!Here, PlainShelf
<1>3. /\ DOMAIN Sequential!Here = DOMAIN ids
      /\ \A i \in DOMAIN ids : /\ Sequential!Here[i].id = ids[i]
                               /\ Sequential!Here[i].value = entries[KeyOf(ns, ids[i])]
  BY <1>2 DEF Shelved
<1>4. Sequential!Place = {i \in DOMAIN ids : ids[i] = req[c].key.id}
  <2>1. Sequential!Place = {i \in DOMAIN Sequential!Here : Sequential!Here[i].id = req[c].key.id}
    BY <1>1 DEF Sequential!Place
  <2> QED BY <1>3, <2>1
<1>5. Sequential!Place # {} <=> Indexed(req[c].key)
  <2> HIDE DEF ids
  <2>1. Sequential!Place # {} <=> \E i \in DOMAIN ids : ids[i] = req[c].key.id
    BY <1>4
  <2>2. /\ \A i \in DOMAIN ids : ns \in DOMAIN order /\ i \in DOMAIN order[ns] /\ ids[i] = order[ns][i]
        /\ \A i : ns \in DOMAIN order /\ i \in DOMAIN order[ns] => i \in DOMAIN ids
    BY <1>0, PlainHas DEF ids
  <2> QED BY <2>1, <2>2 DEF Indexed
<1> QED BY <1>1, <1>2, <1>3, <1>4, <1>5

\* A shelf is a sequence as long as its identifiers.
LEMMA ShelvedHas ==
    ASSUME NEW e, NEW ns, NEW S, NEW ids \in Seq(S)
    PROVE  \E T : /\ Shelved(e, ids, ns) \in Seq(T) /\ Len(Shelved(e, ids, ns)) = Len(ids)
                  /\ \A i \in 1..Len(ids) : Shelved(e, ids, ns)[i]
                                              = [id |-> ids[i], value |-> e[KeyOf(ns, ids[i])]]
<1> DEFINE item(i) == [id |-> ids[i], value |-> e[KeyOf(ns, ids[i])]]
           T == {item(i) : i \in 1..Len(ids)}
<1>1. DOMAIN ids = 1..Len(ids) /\ Len(ids) \in Nat
  BY LenProperties
<1>2. Shelved(e, ids, ns) = [i \in 1..Len(ids) |-> item(i)]
  BY <1>1 DEF Shelved
<1>3. \A i \in 1..Len(ids) : item(i) \in T
  OBVIOUS
<1> HIDE DEF item, T
<1>4. /\ Shelved(e, ids, ns) \in Seq(T) /\ Len(Shelved(e, ids, ns)) = Len(ids)
      /\ \A i \in 1..Len(ids) : Shelved(e, ids, ns)[i] = item(i)
  BY <1>1, <1>2, <1>3
<1> QED BY <1>4 DEF item

\* A shelf of no identifiers is empty.
LEMMA ShelvedEmpty ==
    ASSUME NEW e, NEW ns
    PROVE  Shelved(e, <<>>, ns) = <<>>
<1>1. <<>> \in Seq({}) /\ Len(<<>>) = 0
  BY EmptySeq
<1>2. \A S : \A ids \in Seq(S) : \E T : Shelved(e, ids, ns) \in Seq(T)
                                       /\ Len(Shelved(e, ids, ns)) = Len(ids)
  BY ShelvedHas
<1>3. PICK T : Shelved(e, <<>>, ns) \in Seq(T) /\ Len(Shelved(e, <<>>, ns)) = Len(<<>>)
  BY <1>1, <1>2
<1>4. Shelved(e, <<>>, ns) # <<>> => Len(Shelved(e, <<>>, ns)) \in Nat \ {0}
  BY <1>3, EmptySeq
<1> QED BY <1>1, <1>4, <1>3

\* Two shelves are the same if they hold the same at every place.
LEMMA ShelvedSame ==
    ASSUME NEW e, NEW f, NEW ns, NEW S, NEW ids \in Seq(S),
           \A i \in 1..Len(ids) : e[KeyOf(ns, ids[i])] = f[KeyOf(ns, ids[i])]
    PROVE  Shelved(e, ids, ns) = Shelved(f, ids, ns)
<1>1. DOMAIN ids = 1..Len(ids)
  BY LenProperties
<1> QED BY <1>1 DEF Shelved

\* Indexing an identifier puts its resource at the end of the shelf.
LEMMA ShelvedAppend ==
    ASSUME NEW e, NEW ns, NEW S, NEW ids \in Seq(S), NEW x \in S
    PROVE  Shelved(e, Append(ids, x), ns)
             = Append(Shelved(e, ids, ns), [id |-> x, value |-> e[KeyOf(ns, x)]])
<1> DEFINE new == Append(ids, x)
           s == Shelved(e, ids, ns)
           t == Shelved(e, new, ns)
           r == [id |-> x, value |-> e[KeyOf(ns, x)]]
<1>1. /\ new \in Seq(S) /\ Len(new) = Len(ids) + 1 /\ Len(ids) \in Nat
      /\ \A i \in 1..Len(ids) : new[i] = ids[i]
      /\ new[Len(ids) + 1] = x
  BY AppendIs, LenProperties
<1> HIDE DEF new
<1>2. PICK T : /\ s \in Seq(T) /\ Len(s) = Len(ids)
               /\ \A i \in 1..Len(ids) : s[i] = [id |-> ids[i], value |-> e[KeyOf(ns, ids[i])]]
  BY ShelvedHas
<1>3. PICK U : /\ t \in Seq(U) /\ Len(t) = Len(new)
               /\ \A i \in 1..Len(new) : t[i] = [id |-> new[i], value |-> e[KeyOf(ns, new[i])]]
  BY <1>1, ShelvedHas
<1> HIDE DEF s, t
<1> DEFINE V == T \cup U \cup {r}
<1>4. s \in Seq(V) /\ t \in Seq(V) /\ r \in V
  BY <1>2, <1>3, SeqMonotonic
<1> HIDE DEF V
<1>5. /\ Append(s, r) \in Seq(V) /\ Len(Append(s, r)) = Len(s) + 1
      /\ \A i \in 1..Len(s) : Append(s, r)[i] = s[i]
      /\ Append(s, r)[Len(s) + 1] = r
  BY <1>4, AppendIs
<1>6. ASSUME NEW i \in 1..Len(t) PROVE t[i] = Append(s, r)[i]
  <2>1. i \in 1..Len(ids) \/ i = Len(ids) + 1
    BY <1>1, <1>3
  <2>2. t[i] = [id |-> new[i], value |-> e[KeyOf(ns, new[i])]]
    BY <1>3
  <2>3. CASE i \in 1..Len(ids)
    <3>1. new[i] = ids[i] /\ Append(s, r)[i] = s[i]
          /\ s[i] = [id |-> ids[i], value |-> e[KeyOf(ns, ids[i])]]
      BY <1>1, <1>2, <1>5, <2>3
    <3> QED BY <2>2, <3>1
  <2>4. CASE i = Len(ids) + 1
    <3>1. new[i] = x /\ Append(s, r)[i] = r
      BY <1>1, <1>2, <1>5, <2>4
    <3> QED BY <2>2, <3>1
  <2> QED BY <2>1, <2>3, <2>4
<1>7. Len(t) = Len(Append(s, r))
  BY <1>1, <1>2, <1>3, <1>5
<1>8. t = Append(s, r)
  BY <1>4, <1>5, <1>6, <1>7, SeqEqual
<1> QED BY <1>8 DEF s, t, r, new

\* Removing an identifier takes its resource from the shelf.
LEMMA ShelvedWithout ==
    ASSUME NEW e, NEW f, NEW ns, NEW S, NEW ids \in Seq(S), NEW p \in 1..Len(ids),
           \A i \in 1..Len(ids) : i # p => f[KeyOf(ns, ids[i])] = e[KeyOf(ns, ids[i])]
    PROVE  Shelved(f, Without(ids, p), ns) = Without(Shelved(e, ids, ns), p)
<1> DEFINE n == Len(ids)
           s == Shelved(e, ids, ns)
           from(j) == IF j < p THEN j ELSE j + 1
<1>1. n \in Nat /\ \A i \in 1..n : ids[i] \in S
  OBVIOUS
<1>2. Without(ids, p) = [j \in 1..(n - 1) |-> ids[from(j)]]
  BY <1>1 DEF Without
<1>3. PICK T : /\ s \in Seq(T) /\ Len(s) = n
               /\ \A i \in 1..n : s[i] = [id |-> ids[i], value |-> e[KeyOf(ns, ids[i])]]
  BY ShelvedHas
<1>4. \A j \in 1..(n - 1) : from(j) \in 1..n /\ from(j) # p
  BY <1>1
<1>5. Shelved(f, Without(ids, p), ns)
        = [j \in 1..(n - 1) |-> [id |-> ids[from(j)], value |-> f[KeyOf(ns, ids[from(j)])]]]
  BY <1>2 DEF Shelved
<1>6. Without(s, p) = [j \in 1..(n - 1) |-> s[from(j)]]
  <2> HIDE DEF s, n
  <2> QED BY <1>1, <1>3 DEF Without
<1> HIDE DEF from, s, n
<1>7. \A j \in 1..(n - 1) : s[from(j)] = [id |-> ids[from(j)], value |-> f[KeyOf(ns, ids[from(j)])]]
  BY <1>3, <1>4 DEF n
<1>8. Shelved(f, Without(ids, p), ns) = Without(s, p)
  BY <1>5, <1>6, <1>7
<1> QED BY <1>8 DEF s

-----------------------------------------------------------------------------
(* Every step is a step of SequentialStore or a stutter *)

Plainly == {"idle", "read", "update", "remove", "clear_load"} \cup CreateSteps \cup ListSteps

\* Plainly names the steps outside the tail of a delete and of a clear.
LEMMA PlainlyIs ==
    /\ \A s \in Plainly : s \notin DeletingSteps \cup ClearingSteps
    /\ \A s \in Steps : s \notin DeletingSteps \cup ClearingSteps => s \in Plainly
  BY DEF Plainly, Steps, CreateSteps, ListSteps, DeleteSteps, ClearSteps, DeletingSteps, ClearingSteps

\* What is shown before and after a step that is neither in a delete nor in a clear.
LEMMA PlainStep ==
    ASSUME NEW c, Thread = {c}, pc[c] \in Plainly, pc'[c] \in Plainly
    PROVE  /\ Shelf = PlainShelf(entries, order) /\ Shelf' = PlainShelf(entries', order')
           /\ CallerPending = req[c] /\ CallerPending' = req'[c]
           /\ CallerAnswer = ret[c] /\ CallerAnswer' = ret'[c]
<1>1. pc[c] \notin DeletingSteps \cup ClearingSteps /\ pc'[c] \notin DeletingSteps \cup ClearingSteps
  BY PlainlyIs
<1>2. Shelf = PlainShelf(entries, order) /\ Shelf' = PlainShelf(entries', order')
  BY <1>1, View, PlainView
<1> QED BY <1>1, <1>2, View DEF PendingOf, AnswerOf

\* A return from such a step is the abstract response.
LEMMA ReturnShows ==
    ASSUME NEW c, Thread = {c}, IndType, pc[c] \in Plainly,
           NEW status, NEW body, Return(c, Answer(status, body))
    PROVE  /\ Sequential!Respond(status, body)
           /\ CallerPending = req[c]
           /\ Shelf = PlainShelf(entries, order) /\ Shelf' = PlainShelf(entries', order')
<1>0. c \in Thread
  OBVIOUS
<1>1. pc'[c] = "idle" /\ req'[c] = NoRequest /\ ret'[c] = Answer(status, body)
  BY <1>0, OneTypes DEF Return, Goto
<1>2. /\ Shelf = PlainShelf(entries, order) /\ Shelf' = PlainShelf(entries', order')
      /\ CallerPending = req[c]
      /\ CallerPending' = NoRequest /\ CallerAnswer' = Answer(status, body)
  BY <1>1, PlainStep DEF Plainly
<1> QED BY <1>2 DEF Sequential!Respond, Sequential!NoRequest, Sequential!Answer, NoRequest, Answer

\* A step that moves on and shows the same shelves is a stutter.
LEMMA GotoShows ==
    ASSUME NEW c, Thread = {c}, pc[c] \in Plainly, pc'[c] \in Plainly,
           req'[c] = req[c], ret'[c] = ret[c],
           PlainShelf(entries', order') = PlainShelf(entries, order)
    PROVE  UNCHANGED Sequential!vars
  BY PlainStep DEF Sequential!vars

\* A create takes effect when it answers.
LEMMA CreateServes ==
    ASSUME NEW c, Thread = {c}, OneInv(c),
           \/ LoadCount(c) \/ CompareExchange(c) \/ InsertEntry(c) \/ ReleaseSlot(c)
           \/ ContainsOrder(c) \/ InsertOrder(c) \/ PushOrder(c)
    PROVE  Sequential!Create \/ UNCHANGED Sequential!vars
<1> DEFINE k == req[c].key
           ns == k.namespace
           ids == Plain(order, ns)
<1>0. c \in Thread /\ IndType
  BY DEF OneInv
<1>p. pc[c] \in CreateSteps
  BY DEF LoadCount, CompareExchange, InsertEntry, ReleaseSlot, ContainsOrder, InsertOrder,
         PushOrder, CreateSteps
<1>k. k \in Key /\ ns \in Namespace /\ k.id \in Id
  BY <1>0, <1>p, CallArguments
<1>t. DOMAIN pc = Thread /\ DOMAIN req = Thread
  BY <1>0, OneTypes
<1>q. /\ pc[c] \in Plainly /\ pc[c] \notin DeletingSteps \cup ClearingSteps
      /\ req[c].op = "create"
  BY <1>0, <1>p, PlainlyIs DEF Plainly, IndType, CallShape
<1>h. /\ CallerPending = req[c] /\ Shelf = PlainShelf(entries, order)
      /\ Sequential!Place # {} <=> Indexed(k)
  BY <1>k, <1>q, HereIs
<1>c. Sequential!Called("create")
  BY <1>h, <1>q DEF Sequential!Called
<1>1. CASE LoadCount(c)
  <2>1. pc[c] = "load" /\ UNCHANGED <<entries, order>>
    BY <1>1 DEF LoadCount
  <2>2. CASE count >= Limit /\ Return(c, Answer("CapacityExceeded", <<>>))
    <3>1. Sequential!Total >= Limit
      BY <1>p, <2>1, <2>2, TotalIs
    <3>2. Sequential!Respond("CapacityExceeded", <<>>) /\ Shelf' = Shelf
      BY <1>0, <1>q, <2>1, <2>2, ReturnShows
    <3> QED BY <1>c, <3>1, <3>2 DEF Sequential!Create
  <2>3. CASE Goto(c, "cas") /\ UNCHANGED <<req, ret>>
    <3>1. pc'[c] \in Plainly
      BY <1>0, <1>t, <2>3 DEF Goto, Plainly, CreateSteps
    <3> QED BY <1>q, <2>1, <2>3, <3>1, GotoShows
  <2> QED BY <1>1, <2>2, <2>3 DEF LoadCount
<1>2. CASE CompareExchange(c) \/ ContainsOrder(c)
  <2>1. pc'[c] \in Plainly /\ UNCHANGED <<entries, order, req, ret>>
    BY <1>0, <1>t, <1>2 DEF CompareExchange, ContainsOrder, Goto, Plainly, CreateSteps
  <2> QED BY <1>q, <2>1, GotoShows
<1>3. CASE InsertEntry(c)
  <2>1. /\ pc[c] = "insert" /\ pc'[c] \in Plainly /\ UNCHANGED <<order, req, ret>>
        /\ \/ entries' = entries
           \/ k \notin DOMAIN entries /\ entries' = Put(entries, k, req[c].value)
    BY <1>0, <1>t, <1>3 DEF InsertEntry, Goto, Plainly, CreateSteps
  <2>2. PlainShelf(entries', order) = PlainShelf(entries, order)
    <3>1. CASE k \notin DOMAIN entries /\ entries' = Put(entries, k, req[c].value)
      <4>1. ASSUME NEW m \in Namespace
            PROVE  Shelved(entries', Plain(order, m), m) = Shelved(entries, Plain(order, m), m)
        <5>1. Plain(order, m) \in Seq(Id) /\ DOMAIN Plain(order, m) = 1..Len(Plain(order, m))
          BY <1>0, PlainHas
        <5>2. ASSUME NEW i \in 1..Len(Plain(order, m))
              PROVE  entries'[KeyOf(m, Plain(order, m)[i])] = entries[KeyOf(m, Plain(order, m)[i])]
          <6> DEFINE l == KeyOf(m, Plain(order, m)[i])
          <6>1. /\ m \in DOMAIN order /\ i \in DOMAIN order[m]
                /\ Plain(order, m)[i] = order[m][i] /\ order[m][i] \in Id
            BY <1>0, <5>1, PlainHas
          <6>2. l \in Key /\ l.namespace = m /\ l.id = order[m][i]
            BY <6>1, KeyOfIs
          <6> HIDE DEF l
          <6>3. Indexed(l)
            BY <6>1, <6>2 DEF Indexed
          <6>4. l \in DOMAIN entries
            BY <1>q, <6>2, <6>3 DEF OneInv, IndexExact
          <6>5. entries'[l] = entries[l]
            BY <3>1, <6>4 DEF Put
          <6> QED BY <6>5 DEF l
        <5> QED BY <5>1, <5>2, ShelvedSame
      <4> QED BY <4>1 DEF PlainShelf
    <3> QED BY <2>1, <3>1
  <2> QED BY <1>q, <2>1, <2>2, GotoShows
<1>4. CASE ReleaseSlot(c)
  <2>1. /\ pc[c] = "release" /\ UNCHANGED <<entries, order>>
        /\ Return(c, Answer("AlreadyExists", <<>>))
    BY <1>4 DEF ReleaseSlot
  <2>2. Sequential!Total < Limit
    BY <1>p, <2>1, TotalIs
  <2>3. k \in DOMAIN entries
    BY <2>1 DEF OneInv, StillTrue
  <2>4. Indexed(k)
    BY <1>k, <2>1, <2>3 DEF OneInv, IndexExact, IndexingSteps, ClearingSteps
  <2>5. Sequential!Respond("AlreadyExists", <<>>) /\ Shelf' = Shelf
    BY <1>0, <1>q, <2>1, ReturnShows
  <2> QED BY <1>c, <1>h, <2>2, <2>4, <2>5 DEF Sequential!Create
<1>5. CASE InsertOrder(c) \/ PushOrder(c)
  <2>1. /\ pc[c] \in {"order_insert", "order_push"} /\ entries' = entries
        /\ Return(c, Answer("Ok", <<>>)) /\ ids \in Seq(Id)
        /\ order' = Put(order, ns, Append(ids, k.id))
    BY <1>5, IndexGrows
  <2>2. Sequential!Total < Limit
    BY <1>p, <2>1, TotalIs
  <2>3. pc[c] \in IndexingSteps
    BY <2>1 DEF IndexingSteps
  <2>4. ~Indexed(k)
    BY <1>k, <1>q, <2>3 DEF OneInv, IndexExact
  <2>5. entries[k] = req[c].value
    BY <2>3 DEF OneInv, StillTrue
  <2>6. Sequential!Respond("Ok", <<>>) /\ Shelf' = PlainShelf(entries, order')
    BY <1>0, <1>q, <2>1, ReturnShows
  <2> DEFINE new == [id |-> k.id, value |-> req[c].value]
  <2>7. Shelved(entries, Append(ids, k.id), ns) = Append(Shelved(entries, ids, ns), new)
    <3>1. entries[KeyOf(ns, k.id)] = req[c].value
      BY <1>k, <2>5, KeyIs
    <3> HIDE DEF ids
    <3> QED BY <1>k, <2>1, <3>1, ShelvedAppend
  <2>8. /\ Plain(order', ns) = Append(ids, k.id)
        /\ \A m \in Namespace \ {ns} : Plain(order', m) = Plain(order, m)
    BY <2>1 DEF Plain, Put
  <2> HIDE DEF new, ids
  <2>9. Shelf' = [Shelf EXCEPT ![ns] = Append(@, new)]
    <3>1. Shelf' = [m \in Namespace |-> Shelved(entries, Plain(order', m), m)]
      BY <2>6 DEF PlainShelf
    <3>2. Shelf = [m \in Namespace |-> Shelved(entries, Plain(order, m), m)]
      BY <1>h DEF PlainShelf
    <3> QED BY <1>k, <2>7, <2>8, <3>1, <3>2 DEF ids
  <2> QED BY <1>c, <1>h, <2>2, <2>4, <2>6, <2>9 DEF Sequential!Create, new
<1> QED BY <1>1, <1>2, <1>3, <1>4, <1>5

\* What a call that names a key finds of its resource.
LEMMA KeyedFinds ==
    ASSUME NEW c, Thread = {c}, OneInv(c), pc[c] \in {"read", "update", "remove"}
    PROVE  LET k == req[c].key
               ids == Plain(order, k.namespace) IN
           /\ k \in Key /\ k.namespace \in Namespace /\ k.id \in Id
           /\ ids \in Seq(Id) /\ DOMAIN ids = 1..Len(ids)
           /\ \A i, j \in 1..Len(ids) : ids[i] = ids[j] => i = j
           /\ pc[c] \in Plainly
           /\ CallerPending = req[c] /\ Shelf = PlainShelf(entries, order)
           /\ Shelf[k.namespace] = Shelved(entries, ids, k.namespace)
           /\ Sequential!Place # {} <=> k \in DOMAIN entries
           /\ \A p \in Sequential!Place :
                 /\ p \in 1..Len(ids) /\ ids[p] = k.id
                 /\ k.namespace \in DOMAIN order /\ ids = order[k.namespace]
                 /\ Sequential!Here[p].value = entries[k]
<1> DEFINE k == req[c].key
           ns == k.namespace
           ids == Plain(order, ns)
<1>0. c \in Thread /\ IndType
  BY DEF OneInv
<1>1. k \in Key /\ ns \in Namespace /\ k.id \in Id
  BY <1>0, CallArguments DEF DeleteSteps
<1>2. pc[c] \in Plainly /\ pc[c] \notin DeletingSteps \cup ClearingSteps \cup IndexingSteps
  BY DEF Plainly, DeletingSteps, ClearingSteps, IndexingSteps
<1>3. /\ CallerPending = req[c] /\ Shelf = PlainShelf(entries, order)
      /\ Sequential!Place = {i \in DOMAIN ids : ids[i] = k.id}
      /\ \A i \in DOMAIN ids : Sequential!Here[i].value = entries[KeyOf(ns, ids[i])]
      /\ Sequential!Place # {} <=> Indexed(k)
  BY <1>1, <1>2, HereIs
<1>4. /\ ids \in Seq(Id) /\ DOMAIN ids = 1..Len(ids)
      /\ \A i \in DOMAIN ids : ns \in DOMAIN order /\ i \in DOMAIN order[ns] /\ ids[i] = order[ns][i]
  BY <1>0, <1>1, PlainHas
<1>5. \A i \in DOMAIN ids : ids = order[ns]
  BY <1>4 DEF Plain
<1>6. \A i, j \in 1..Len(ids) : ids[i] = ids[j] => i = j
  <2> HIDE DEF ids
  <2> QED BY <1>4 DEF OneInv, NamedOnce
<1>7. Indexed(k) <=> k \in DOMAIN entries
  BY <1>1, <1>2 DEF OneInv, IndexExact
<1>8. Shelf[ns] = Shelved(entries, ids, ns)
  BY <1>1, <1>3 DEF PlainShelf
<1>9. k = KeyOf(ns, k.id)
  BY <1>1, KeyIs
<1> HIDE DEF ids
<1>10. \A p \in Sequential!Place :
          /\ p \in 1..Len(ids) /\ ids[p] = k.id /\ ns \in DOMAIN order /\ ids = order[ns]
          /\ Sequential!Here[p].value = entries[k]
  BY <1>3, <1>4, <1>5, <1>9
<1> QED BY <1>1, <1>2, <1>3, <1>4, <1>6, <1>7, <1>8, <1>10 DEF ids

\* Read and update take effect in their one step, a delete with its entry.
LEMMA KeyedServes ==
    ASSUME NEW c, Thread = {c}, OneInv(c), Read(c) \/ Update(c) \/ RemoveEntry(c)
    PROVE  Sequential!Read \/ Sequential!Update \/ Sequential!Delete \/ Sequential!Miss
<1> DEFINE k == req[c].key
           ns == k.namespace
           ids == Plain(order, ns)
           Place == Sequential!Place
<1>0. c \in Thread /\ IndType /\ DOMAIN pc = Thread
  BY OneTypes DEF OneInv
<1>p. pc[c] \in {"read", "update", "remove"}
  BY DEF Read, Update, RemoveEntry
<1>1. /\ k \in Key /\ ns \in Namespace /\ k.id \in Id
      /\ ids \in Seq(Id) /\ DOMAIN ids = 1..Len(ids)
      /\ \A i, j \in 1..Len(ids) : ids[i] = ids[j] => i = j
      /\ pc[c] \in Plainly
      /\ CallerPending = req[c] /\ Shelf = PlainShelf(entries, order)
      /\ Shelf[ns] = Shelved(entries, ids, ns)
      /\ Place # {} <=> k \in DOMAIN entries
      /\ \A p \in Place : /\ p \in 1..Len(ids) /\ ids[p] = k.id
                          /\ ns \in DOMAIN order /\ ids = order[ns]
                          /\ Sequential!Here[p].value = entries[k]
  BY <1>p, KeyedFinds
<1> HIDE DEF ids, Place
<1>2. /\ pc[c] = "read" => Sequential!Called("read")
      /\ pc[c] = "update" => Sequential!Called("update")
      /\ pc[c] = "remove" => Sequential!Called("delete")
  BY <1>0, <1>1 DEF Sequential!Called, IndType, CallShape, DeleteSteps
<1>3. CASE k \notin DOMAIN entries
  <2>1. Return(c, Answer("NotFound", <<>>)) /\ UNCHANGED <<entries, order>>
    BY <1>3 DEF Read, Update, RemoveEntry
  <2>2. Sequential!Respond("NotFound", <<>>) /\ Shelf' = Shelf
    BY <1>0, <1>1, <2>1, ReturnShows
  <2> QED BY <1>p, <1>1, <1>2, <1>3, <2>2 DEF Sequential!Miss, Place
<1>4. CASE k \in DOMAIN entries
  <2>1. PICK p \in Place : TRUE
    BY <1>1, <1>4
  <2>2. p \in Sequential!Place /\ Sequential!Here[p].value = entries[k]
    BY <1>1, <2>1 DEF Place
  <2>3. /\ p \in 1..Len(ids) /\ ids[p] = k.id /\ ns \in DOMAIN order /\ ids = order[ns]
    BY <1>1, <2>1
  <2>4. k = KeyOf(ns, ids[p])
    BY <1>1, <2>3, KeyIs
  \* No other place on any shelf is about this resource.
  <2>5. /\ \A m \in Namespace \ {ns} : \A i \in 1..Len(Plain(order, m)) :
              KeyOf(m, Plain(order, m)[i]) # k
        /\ \A i \in 1..Len(ids) : i # p => KeyOf(ns, ids[i]) # k
    BY <1>1, <2>3 DEF KeyOf
  <2>6. \A m \in Namespace : Plain(order, m) \in Seq(Id)
    BY <1>0, PlainHas
  <2>7. CASE Read(c)
    <3>1. Return(c, Answer("Ok", <<entries[k]>>)) /\ UNCHANGED <<entries, order>> /\ pc[c] = "read"
      BY <1>4, <2>7 DEF Read
    <3>2. Sequential!Respond("Ok", <<Sequential!Here[p].value>>) /\ Shelf' = Shelf
      BY <1>0, <1>1, <2>2, <3>1, ReturnShows
    <3> QED BY <1>2, <2>2, <3>1, <3>2 DEF Sequential!Read
  <2>8. CASE Update(c)
    <3> DEFINE v == req[c].value
    <3>1. /\ Return(c, Answer("Ok", <<>>)) /\ pc[c] = "update" /\ order' = order
          /\ entries' = [entries EXCEPT ![k] = v]
      BY <1>4, <2>8 DEF Update
    <3>2. Sequential!Respond("Ok", <<>>) /\ Shelf' = PlainShelf(entries', order)
      BY <1>0, <1>1, <3>1, ReturnShows
    <3>3. /\ entries'[k] = v
          /\ \A l : l # k => entries'[l] = entries[l]
      <4>1. entries = [l \in DOMAIN entries |-> entries[l]]
        BY <1>0 DEF IndType, TypeOK, IsPartialMap
      <4> QED BY <1>4, <3>1, <4>1
    <3>4. ASSUME NEW m \in Namespace \ {ns} PROVE Shelf'[m] = Shelf[m]
      <4>1. Shelf'[m] = Shelved(entries', Plain(order, m), m)
            /\ Shelf[m] = Shelved(entries, Plain(order, m), m)
        BY <1>1, <3>2 DEF PlainShelf
      <4>2. \A i \in 1..Len(Plain(order, m)) :
               entries'[KeyOf(m, Plain(order, m)[i])] = entries[KeyOf(m, Plain(order, m)[i])]
        BY <2>5, <3>3
      <4> QED BY <2>6, <4>1, <4>2, ShelvedSame
    <3>5. Shelf'[ns] = [Shelf[ns] EXCEPT ![p].value = v]
      <4> DEFINE s == Shelf[ns]
                 item(i) == [id |-> ids[i], value |-> entries[KeyOf(ns, ids[i])]]
      <4>1. Shelf'[ns] = Shelved(entries', ids, ns)
        BY <1>1, <3>2 DEF PlainShelf, ids
      <4>2. s = [i \in 1..Len(ids) |-> item(i)]
        BY <1>1 DEF Shelved
      <4>3. Shelf'[ns] = [i \in 1..Len(ids) |-> [id |-> ids[i], value |-> entries'[KeyOf(ns, ids[i])]]]
        BY <1>1, <4>1 DEF Shelved
      <4>4. [s EXCEPT ![p].value = v]
              = [i \in 1..Len(ids) |-> IF i = p THEN [item(p) EXCEPT !.value = v] ELSE item(i)]
        <5> HIDE DEF item
        <5> QED BY <2>3, <4>2
      <4>5. [item(p) EXCEPT !.value = v] = [id |-> ids[p], value |-> v]
        OBVIOUS
      <4>6. \A i \in 1..Len(ids) : [id |-> ids[i], value |-> entries'[KeyOf(ns, ids[i])]]
                                     = IF i = p THEN [item(p) EXCEPT !.value = v] ELSE item(i)
        BY <2>4, <2>5, <3>3, <4>5
      <4> HIDE DEF item, s
      <4>7. Shelf'[ns] = [s EXCEPT ![p].value = v]
        BY <4>3, <4>4, <4>6
      <4> QED BY <4>7 DEF s
    <3>6. Shelf' = [Shelf EXCEPT ![ns][p].value = v]
      <4>1. Shelf' = [m \in Namespace |-> Shelf'[m]] /\ Shelf = [m \in Namespace |-> Shelf[m]]
        BY <1>1, <3>2 DEF PlainShelf
      <4> HIDE DEF v
      <4>2. [Shelf EXCEPT ![ns][p].value = v]
              = [m \in Namespace |-> IF m = ns THEN [Shelf[ns] EXCEPT ![p].value = v] ELSE Shelf[m]]
        BY <1>1, <4>1
      <4>3. Shelf' = [m \in Namespace |-> IF m = ns THEN [Shelf[ns] EXCEPT ![p].value = v] ELSE Shelf[m]]
        BY <3>4, <3>5, <4>1
      <4> QED BY <4>2, <4>3
    <3> QED BY <1>1, <1>2, <2>2, <3>1, <3>2, <3>6 DEF Sequential!Update
  <2>9. CASE RemoveEntry(c)
    <3>1. /\ Goto(c, "uncount") /\ UNCHANGED <<order, req, ret>> /\ pc[c] = "remove"
          /\ entries' = Drop(entries, k)
      BY <1>4, <2>9 DEF RemoveEntry
    <3>2. pc'[c] = "uncount"
      BY <1>0, <3>1 DEF Goto
    <3>3. Sequential!Respond("Ok", <<>>)
      BY <3>2, View DEF PendingOf, AnswerOf, DeletingSteps, Sequential!Respond,
         Sequential!NoRequest, Sequential!Answer, NoRequest, Answer
    <3>4. \A l \in DOMAIN entries : l # k => entries'[l] = entries[l]
      BY <3>1 DEF Drop, Restrict
    <3>5. Shelf' = ShelfOf("uncount", req[c], entries', order)
      BY <3>1, <3>2, View
    <3>6. ASSUME NEW m \in Namespace, NEW i \in 1..Len(Plain(order, m))
          PROVE  KeyOf(m, Plain(order, m)[i]) \in DOMAIN entries
      <4> DEFINE l == KeyOf(m, Plain(order, m)[i])
      <4>1. /\ m \in DOMAIN order /\ i \in DOMAIN order[m]
            /\ Plain(order, m)[i] = order[m][i] /\ order[m][i] \in Id
        BY <1>0, PlainHas
      <4>2. l \in Key /\ l.namespace = m /\ l.id = order[m][i]
        BY <4>1, KeyOfIs
      <4> HIDE DEF l
      <4>3. Indexed(l)
        BY <4>1, <4>2 DEF Indexed
      <4>4. l \in DOMAIN entries
        BY <1>p, <4>2, <4>3 DEF OneInv, IndexExact, ClearingSteps, DeletingSteps
      <4> QED BY <4>4 DEF l
    <3>7. ASSUME NEW m \in Namespace \ {ns} PROVE Shelf'[m] = Shelf[m]
      <4>1. ListingOf("uncount", req[c], order, m) = Plain(order, m)
        BY DEF ListingOf, Plain, ClearingSteps
      <4>2. Shelf'[m] = Shelved(entries', Plain(order, m), m)
            /\ Shelf[m] = Shelved(entries, Plain(order, m), m)
        BY <1>1, <3>5, <4>1 DEF PlainShelf, ShelfOf
      <4>3. \A i \in 1..Len(Plain(order, m)) :
               entries'[KeyOf(m, Plain(order, m)[i])] = entries[KeyOf(m, Plain(order, m)[i])]
        BY <2>5, <3>4, <3>6
      <4> QED BY <2>6, <4>2, <4>3, ShelvedSame
    <3>8. Shelf'[ns] = Sequential!RemoveAt(Shelf[ns], p)
      <4>1. Retain(ids, k.id) = Without(ids, p)
        BY <1>1, <2>3, RetainRemoves
      <4>2. ListingOf("uncount", req[c], order, ns) = Without(ids, p)
        BY <2>3, <4>1 DEF ListingOf, ClearingSteps, DeletingSteps
      <4>3. Shelf'[ns] = Shelved(entries', Without(ids, p), ns)
        BY <1>1, <3>5, <4>2 DEF ShelfOf
      <4>4. \A i \in 1..Len(ids) : i # p => entries'[KeyOf(ns, ids[i])] = entries[KeyOf(ns, ids[i])]
        BY <1>1, <2>5, <3>4, <3>6 DEF ids
      <4>5. Shelf'[ns] = Without(Shelf[ns], p)
        <5>1. \A S : \A x \in Seq(S) : \A q \in 1..Len(x) : \A e, f :
                 (\A i \in 1..Len(x) : i # q => f[KeyOf(ns, x[i])] = e[KeyOf(ns, x[i])])
                    => Shelved(f, Without(x, q), ns) = Without(Shelved(e, x, ns), q)
          BY ShelvedWithout
        <5>2. ids \in Seq(Id) /\ p \in 1..Len(ids)
          BY <1>1, <2>3
        <5> HIDE DEF ns, k
        <5>3. \A e, f : (\A i \in 1..Len(ids) : i # p => f[KeyOf(ns, ids[i])] = e[KeyOf(ns, ids[i])])
                           => Shelved(f, Without(ids, p), ns) = Without(Shelved(e, ids, ns), p)
          BY <5>1, <5>2
        <5>4. Shelved(entries', Without(ids, p), ns) = Without(Shelved(entries, ids, ns), p)
          BY <4>4, <5>3
        <5> QED BY <1>1, <4>3, <5>4
      <4>6. PICK T : Shelf[ns] \in Seq(T) /\ Len(Shelf[ns]) = Len(ids)
        <5>1. \A S : \A x \in Seq(S) : \E T : Shelved(entries, x, ns) \in Seq(T)
                                              /\ Len(Shelved(entries, x, ns)) = Len(x)
          BY ShelvedHas
        <5> QED BY <1>1, <5>1
      <4>7. Sequential!RemoveAt(Shelf[ns], p) = Without(Shelf[ns], p)
        BY <2>3, <4>6, RemoveAtIs
      <4> QED BY <4>5, <4>7
    <3>9. Shelf' = [Shelf EXCEPT ![ns] = Sequential!RemoveAt(@, p)]
      <4>1. Shelf' = [m \in Namespace |-> Shelf'[m]] /\ Shelf = [m \in Namespace |-> Shelf[m]]
        BY <1>1, <3>5 DEF PlainShelf, ShelfOf
      <4>2. Shelf' = [m \in Namespace |-> IF m = ns THEN Sequential!RemoveAt(Shelf[ns], p) ELSE Shelf[m]]
        BY <3>7, <3>8, <4>1
      <4> QED BY <1>1, <4>1, <4>2
    <3> QED BY <1>1, <1>2, <2>2, <3>1, <3>3, <3>9 DEF Sequential!Delete
  <2> QED BY <2>7, <2>8, <2>9
<1> QED BY <1>3, <1>4

\* A listing answers with the values on its shelf, from first to last.
LEMMA ListServes ==
    ASSUME NEW c, Thread = {c}, OneInv(c), OpenList(c) \/ LookUp(c) \/ CloseList(c)
    PROVE  Sequential!List \/ UNCHANGED Sequential!vars
<1> DEFINE ns == req[c].namespace
           ids == Plain(order, ns)
<1>0. c \in Thread /\ IndType /\ DOMAIN pc = Thread
  BY OneTypes DEF OneInv
<1>p. pc[c] \in ListSteps /\ pc[c] \in Plainly /\ UNCHANGED <<entries, order>>
  BY DEF OpenList, LookUp, CloseList, ListSteps, Plainly
<1>n. ns \in Namespace /\ req[c].op = "list"
  BY <1>0, <1>p, CallArguments DEF IndType, CallShape
<1>1. CASE pc'[c] = "look_up"
  <2>1. pc'[c] \in Plainly
    BY <1>1 DEF Plainly, ListSteps
  <2>2. req' = req /\ ret' = ret
    BY <1>0, <1>1 DEF OpenList, LookUp, CloseList, Return, Goto
  <2> QED BY <1>p, <2>1, <2>2, GotoShows
<1>2. ASSUME NEW s, Return(c, Answer("Ok", s)), s = Sequential!Values(Shelved(entries, ids, ns))
      PROVE  Sequential!List
  <2>1. /\ Sequential!Respond("Ok", s) /\ CallerPending = req[c]
        /\ Shelf = PlainShelf(entries, order) /\ Shelf' = PlainShelf(entries', order')
    BY <1>0, <1>p, <1>2, ReturnShows
  <2>2. Shelf[ns] = Shelved(entries, ids, ns) /\ Shelf' = Shelf
    BY <1>n, <1>p, <2>1 DEF PlainShelf
  <2> QED BY <1>2, <1>n, <2>1, <2>2 DEF Sequential!List, Sequential!Called
<1>3. CASE OpenList(c) /\ pc'[c] # "look_up"
  <2>1. ns \notin DOMAIN order /\ Return(c, Answer("Ok", <<>>))
    BY <1>0, <1>3 DEF OpenList, Goto
  <2>2. ids = <<>>
    BY <2>1 DEF Plain
  <2>3. Sequential!Values(Shelved(entries, ids, ns)) = <<>>
    <3>1. Shelved(entries, ids, ns) = <<>>
      BY <2>2, ShelvedEmpty
    <3> HIDE DEF ids
    <3> QED BY <3>1 DEF Sequential!Values
  <2> QED BY <1>2, <2>1, <2>3
<1>4. CASE CloseList(c)
  <2>1. pc[c] = "look_up" /\ unread[c] = <<>> /\ Return(c, Answer("Ok", acc[c]))
    BY <1>4 DEF CloseList
  <2>2. /\ ns \in DOMAIN order /\ Len(acc[c]) + Len(unread[c]) = Len(order[ns])
        /\ \A i \in 1..Len(acc[c]) : acc[c][i] = entries[KeyOf(ns, order[ns][i])]
    BY <2>1 DEF OneInv, Collected
  <2>3. acc[c] \in Seq(Value) /\ Len(acc[c]) \in Nat /\ Len(unread[c]) = 0
    BY <1>0, <2>1, OneTypes, EmptySeq
  <2>4. ids = order[ns]
    BY <2>2 DEF Plain
  <2>5. ids \in Seq(Id) /\ DOMAIN ids = 1..Len(ids)
    BY <1>0, <1>n, PlainHas
  <2> HIDE DEF ids
  <2>6. /\ DOMAIN ids = 1..Len(acc[c])
        /\ \A i \in 1..Len(acc[c]) : acc[c][i] = entries[KeyOf(ns, ids[i])]
    BY <2>2, <2>3, <2>4, <2>5
  <2>7. Sequential!Values(Shelved(entries, ids, ns))
          = [i \in 1..Len(acc[c]) |-> entries[KeyOf(ns, ids[i])]]
    BY <2>6 DEF Sequential!Values, Shelved
  <2>8. acc[c] = [i \in 1..Len(acc[c]) |-> acc[c][i]]
    BY <2>3
  <2>9. acc[c] = Sequential!Values(Shelved(entries, ids, ns))
    BY <2>6, <2>7, <2>8
  <2> QED BY <1>2, <2>1, <2>9 DEF ids
<1>5. LookUp(c) => pc'[c] = "look_up"
  BY DEF LookUp
<1> QED BY <1>1, <1>3, <1>4, <1>5

\* Once its entry is gone, what is left of a delete is not seen.
LEMMA PruneServes ==
    ASSUME NEW c, Thread = {c}, OneInv(c), Uncount(c) \/ RetainOrder(c)
    PROVE  UNCHANGED Sequential!vars
<1> DEFINE k == req[c].key
<1>0. c \in Thread /\ IndType /\ DOMAIN pc = Thread /\ DOMAIN req = Thread /\ DOMAIN ret = Thread
  BY OneTypes DEF OneInv
<1>1. CASE Uncount(c)
  <2>1. pc[c] = "uncount" /\ pc'[c] = "retain" /\ UNCHANGED <<entries, order, req, ret>>
    BY <1>0, <1>1 DEF Uncount, Goto
  <2>2. \A o, r, m : ListingOf("uncount", r, o, m) = ListingOf("retain", r, o, m)
    BY DEF ListingOf, DeletingSteps, ClearingSteps
  <2>3. Shelf' = Shelf
    BY <2>1, <2>2, View DEF ShelfOf
  <2>4. CallerPending' = CallerPending /\ CallerAnswer' = CallerAnswer
    BY <2>1, View DEF PendingOf, AnswerOf, DeletingSteps
  <2> QED BY <2>3, <2>4 DEF Sequential!vars
<1>2. CASE RetainOrder(c)
  <2>1. /\ pc[c] = "retain" /\ pc'[c] = "idle" /\ entries' = entries
        /\ req'[c] = NoRequest /\ ret'[c] = Answer("Ok", <<>>)
        /\ order' = IF k.namespace \in DOMAIN order
                    THEN [order EXCEPT ![k.namespace] = Retain(@, k.id)]
                    ELSE order
    BY <1>0, <1>2 DEF RetainOrder, Return, Goto
  <2>2. ASSUME NEW m \in Namespace
        PROVE  ListingOf("idle", req'[c], order', m) = ListingOf("retain", req[c], order, m)
    <3>1. CASE k.namespace \in DOMAIN order
      <4>1. /\ DOMAIN order' = DOMAIN order /\ order'[k.namespace] = Retain(order[k.namespace], k.id)
            /\ \A x \in DOMAIN order : x # k.namespace => order'[x] = order[x]
        BY <2>1, <3>1
      <4> QED BY <4>1 DEF ListingOf, DeletingSteps, ClearingSteps
    <3>2. CASE k.namespace \notin DOMAIN order
      BY <2>1, <3>2 DEF ListingOf, DeletingSteps, ClearingSteps
    <3> QED BY <3>1, <3>2
  <2>3. Shelf' = Shelf
    <3>1. Shelf' = ShelfOf("idle", req'[c], entries, order') /\ Shelf = ShelfOf("retain", req[c], entries, order)
      BY <2>1, View
    <3> QED BY <2>2, <3>1 DEF ShelfOf
  <2>4. CallerPending' = NoRequest /\ CallerAnswer' = Answer("Ok", <<>>)
    <3>1. CallerPending' = PendingOf("idle", NoRequest) /\ CallerAnswer' = AnswerOf("idle", seen'[c], Answer("Ok", <<>>))
      BY <2>1, View
    <3> QED BY <3>1 DEF PendingOf, AnswerOf, DeletingSteps, ClearingSteps
  <2>5. CallerPending = NoRequest /\ CallerAnswer = Answer("Ok", <<>>)
    BY <2>1, View DEF PendingOf, AnswerOf, DeletingSteps
  <2> QED BY <2>3, <2>4, <2>5 DEF Sequential!vars
<1> QED BY <1>1, <1>2

\* In a clear the shelves are empty.
LEMMA ClearedShelf ==
    ASSUME NEW s \in ClearingSteps, NEW r, NEW e, NEW o
    PROVE  ShelfOf(s, r, e, o) = [ns \in Namespace |-> <<>>]
<1>1. \A ns : ListingOf(s, r, o, ns) = <<>>
  BY DEF ListingOf
<1> QED BY <1>1, ShelvedEmpty DEF ShelfOf

\* A clear empties the shelves when it loads the counter, and answers with it.
LEMMA ClearServes ==
    ASSUME NEW c, Thread = {c}, OneInv(c),
           \/ ClearLoad(c)
           \/ \E k \in Key : SweepEntry(c, k)
           \/ \E ns \in Namespace : SweepOrder(c, ns)
           \/ ClearStore(c)
    PROVE  Sequential!Clear \/ UNCHANGED Sequential!vars
<1>0. /\ c \in Thread /\ IndType /\ DOMAIN pc = Thread /\ DOMAIN req = Thread
      /\ DOMAIN ret = Thread /\ DOMAIN seen = Thread
  BY OneTypes DEF OneInv
<1>1. CASE ClearLoad(c)
  <2>1. /\ pc[c] = "clear_load" /\ pc'[c] = "sweep_entries" /\ seen'[c] = count
        /\ UNCHANGED <<entries, order, req, ret>>
    BY <1>0, <1>1 DEF ClearLoad, Goto
  <2>2. Sequential!Total = count
    BY <2>1, TotalIs
  <2>3. CallerPending = req[c] /\ req[c].op = "clear"
    BY <1>0, <2>1, View DEF PendingOf, DeletingSteps, ClearingSteps, IndType, CallShape, ClearSteps
  <2>4. CallerPending' = NoRequest /\ CallerAnswer' = Answer("Ok", <<count>>)
    BY <2>1, View DEF PendingOf, AnswerOf, DeletingSteps, ClearingSteps
  <2>5. Shelf' = [ns \in Namespace |-> <<>>]
    BY <2>1, View, ClearedShelf DEF ClearingSteps
  <2> QED BY <2>2, <2>3, <2>4, <2>5 DEF Sequential!Clear, Sequential!Called, Sequential!Respond,
             Sequential!NoRequest, Sequential!Answer, NoRequest, Answer
<1>2. CASE \/ \E k \in Key : SweepEntry(c, k)
           \/ \E ns \in Namespace : SweepOrder(c, ns)
  <2>1. /\ pc[c] \in ClearingSteps /\ pc'[c] \in ClearingSteps /\ seen' = seen
    BY <1>0, <1>2 DEF SweepEntry, SweepOrder, Goto, ClearingSteps
  <2>2. Shelf' = Shelf
    BY <2>1, View, ClearedShelf
  <2>3. CallerPending' = CallerPending /\ CallerAnswer' = CallerAnswer
    BY <2>1, View DEF PendingOf, AnswerOf, DeletingSteps, ClearingSteps
  <2> QED BY <2>2, <2>3 DEF Sequential!vars
<1>3. CASE ClearStore(c)
  <2>1. /\ pc[c] = "clear_store" /\ pc'[c] = "idle" /\ req'[c] = NoRequest
        /\ ret'[c] = Answer("Ok", <<seen[c]>>) /\ order' = order
    BY <1>0, <1>3 DEF ClearStore, Return, Goto
  <2>2. DOMAIN order = {}
    BY <2>1 DEF OneInv, Swept
  <2>3. \A ns : ListingOf("idle", req'[c], order', ns) = <<>>
    BY <2>1, <2>2 DEF ListingOf
  <2>4. Shelf' = [ns \in Namespace |-> <<>>]
    BY <2>1, <2>3, View, ShelvedEmpty DEF ShelfOf
  <2>5. Shelf = [ns \in Namespace |-> <<>>]
    BY <2>1, View, ClearedShelf DEF ClearingSteps
  <2>6. CallerPending' = NoRequest /\ CallerAnswer' = Answer("Ok", <<seen[c]>>)
    <3>1. CallerPending' = PendingOf("idle", NoRequest) /\ CallerAnswer' = AnswerOf("idle", seen'[c], Answer("Ok", <<seen[c]>>))
      BY <2>1, View
    <3> QED BY <3>1 DEF PendingOf, AnswerOf, DeletingSteps, ClearingSteps
  <2>7. CallerPending = NoRequest /\ CallerAnswer = Answer("Ok", <<seen[c]>>)
    BY <2>1, View DEF PendingOf, AnswerOf, DeletingSteps, ClearingSteps
  <2> QED BY <2>4, <2>5, <2>6, <2>7 DEF Sequential!vars
<1> QED BY <1>1, <1>2, <1>3

\* A call begins in both specifications at once.
LEMMA InvokeServes ==
    ASSUME NEW c, Thread = {c}, OneInv(c), NEW r \in Requests, Invoke(c, r)
    PROVE  Sequential!Invoke
<1>0. c \in Thread /\ IndType /\ DOMAIN pc = Thread /\ DOMAIN req = Thread /\ DOMAIN ret = Thread
  BY OneTypes DEF OneInv
<1>1. Entry(r.op) \in Plainly
  BY RequestShapes DEF Entry, AllOps, Plainly, CreateSteps, ListSteps
<1>2. /\ pc[c] = "idle" /\ pc'[c] = Entry(r.op) /\ req'[c] = r /\ ret'[c] = NoAnswer
      /\ UNCHANGED <<entries, order>>
  BY <1>0 DEF Invoke, Goto
<1>3. pc[c] \in Plainly /\ pc'[c] \in Plainly /\ req[c] = NoRequest
  BY <1>0, <1>1, <1>2 DEF Plainly, IndType, CallShape
<1>4. /\ Shelf' = Shelf /\ CallerPending = NoRequest /\ CallerPending' = r
      /\ CallerAnswer' = NoAnswer
  BY <1>2, <1>3, PlainStep
<1> QED BY <1>4 DEF Sequential!Invoke, Sequential!NoRequest, Sequential!NoAnswer,
           Sequential!Answer, NoRequest, NoAnswer

\* One caller gets from the store what SequentialStore gives: listings in the
\* order of creation, the capacity across namespaces checked before the
\* identifier, and from clear the number of resources it dropped
\* (Store::create, ::read, ::update, ::delete, ::list and ::clear).
THEOREM OneCallerIsServed ==
    ASSUME NEW c, Thread = {c}
    PROVE  Spec => ImplementsSequentialStore
<1>1. Init => Sequential!Init
  <2> SUFFICES ASSUME Init PROVE Sequential!Init
    OBVIOUS
  <2>1. pc[c] = "idle" /\ req[c] = NoRequest /\ ret[c] = NoAnswer /\ DOMAIN order = {}
    BY DEF Init
  <2>2. \A ns : ListingOf("idle", req[c], order, ns) = <<>>
    BY <2>1 DEF ListingOf
  <2>3. Shelf = [ns \in Namespace |-> <<>>]
    BY <2>1, <2>2, View, ShelvedEmpty DEF ShelfOf
  <2>4. CallerPending = NoRequest /\ CallerAnswer = NoAnswer
    BY <2>1, View DEF PendingOf, AnswerOf, DeletingSteps, ClearingSteps
  <2> QED BY <2>3, <2>4 DEF Sequential!Init, Sequential!NoRequest, Sequential!NoAnswer,
             Sequential!Answer, NoRequest, NoAnswer
<1>2. OneInv(c) /\ [Next]_vars => [Sequential!Next]_(Sequential!vars)
  <2> SUFFICES ASSUME OneInv(c), [Next]_vars PROVE [Sequential!Next]_(Sequential!vars)
    OBVIOUS
  <2>1. CASE Step(c)
    <3>1. \/ Sequential!Create \/ Sequential!Miss \/ Sequential!Read \/ Sequential!Update
          \/ Sequential!Delete \/ Sequential!List \/ Sequential!Clear
          \/ UNCHANGED Sequential!vars
      BY <2>1, CreateServes, KeyedServes, PruneServes, ListServes, ClearServes DEF Step
    <3> QED BY <3>1 DEF Sequential!Next
  <2>2. ASSUME NEW r \in Requests, Invoke(c, r) PROVE Sequential!Next
    BY <2>2, InvokeServes DEF Sequential!Next
  <2>3. CASE UNCHANGED vars
    BY <2>3, View DEF vars, Sequential!vars
  <2> QED BY <2>1, <2>2, <2>3 DEF Next
<1> QED BY <1>1, <1>2, InitOne, NextKeepsOne, PTL DEF Spec, ImplementsSequentialStore, Sequential!Spec

=============================================================================
