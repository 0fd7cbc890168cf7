-------------------------- MODULE ValidatorProofs --------------------------
(***************************************************************************)
(* The validator cache stays within its limit and hands out the validators *)
(* that were asked for, for any number of threads and schemas.             *)
(***************************************************************************)
EXTENDS ValidatorCache, FiniteSetTheorems, TLAPS

\* The steps of threads are well placed and the cache is finite.
ShapeInv ==
    /\ pc \in [Thread -> Steps]
    /\ IsFiniteSet(DOMAIN cache)

BoundInv == ShapeInv /\ CacheBounded

LEMMA CapacityIsNat == Capacity \in Nat
BY MaxEntriesAssumption DEF Capacity

LEMMA TrimmingFinite == IsFiniteSet(Trimming) /\ Cardinality(Trimming) \in Nat
<1>1. Trimming \subseteq Thread
  BY DEF Trimming
<1>. QED
  BY <1>1, ThreadAssumption, FS_Subset, FS_CardinalityType

\* A step of thread t leaves everyone else where he was.
LEMMA TrimmingAfter ==
    ASSUME pc \in [Thread -> Steps], NEW t \in Thread, NEW step, Goto(t, step)
    PROVE  Trimming' = IF step \in {"trim", "choose", "remove"}
                       THEN Trimming \cup {t} ELSE Trimming \ {t}
BY DEF Goto, Trimming

\* Within the bound, the call may leave the trimming threads only at rest.
LEMMA BoundSteps ==
    ASSUME BoundInv, NEW t \in Thread, NEW step \in Steps, Goto(t, step),
           IsFiniteSet(DOMAIN cache'),
           \/ /\ pc[t] \notin {"trim", "choose", "remove"}
              /\ step \notin {"trim", "choose", "remove"}
              /\ Cardinality(DOMAIN cache') <= Cardinality(DOMAIN cache)
           \/ /\ pc[t] \notin {"trim", "choose", "remove"}
              /\ step \in {"trim", "choose", "remove"}
              /\ Cardinality(DOMAIN cache') <= Cardinality(DOMAIN cache) + 1
           \/ /\ pc[t] \in {"trim", "choose", "remove"}
              /\ step \in {"trim", "choose", "remove"}
              /\ Cardinality(DOMAIN cache') <= Cardinality(DOMAIN cache)
           \/ /\ step \notin {"trim", "choose", "remove"}
              /\ Cardinality(DOMAIN cache') <= Capacity
    PROVE  BoundInv'
<1>. DEFINE moved == Cardinality(Trimming')
<1>1. pc' \in [Thread -> Steps]
  BY DEF BoundInv, ShapeInv, Goto
<1>2. IsFiniteSet(Trimming) /\ Cardinality(Trimming) \in Nat
  BY TrimmingFinite
<1>3. Cardinality(DOMAIN cache) \in Nat /\ Cardinality(DOMAIN cache') \in Nat
  BY FS_CardinalityType DEF BoundInv, ShapeInv
<1>4. Cardinality(DOMAIN cache) <= Capacity + Cardinality(Trimming)
  BY DEF BoundInv, CacheBounded
<1>5. t \in Trimming <=> pc[t] \in {"trim", "choose", "remove"}
  BY DEF Trimming
<1>6. Trimming' = IF step \in {"trim", "choose", "remove"} THEN Trimming \cup {t} ELSE Trimming \ {t}
  BY TrimmingAfter DEF BoundInv, ShapeInv
<1>7. Cardinality(Trimming \cup {t}) =
        IF t \in Trimming THEN Cardinality(Trimming) ELSE Cardinality(Trimming) + 1
  BY <1>2, FS_AddElement
<1>8. Cardinality(Trimming \ {t}) =
        IF t \in Trimming THEN Cardinality(Trimming) - 1 ELSE Cardinality(Trimming)
  BY <1>2, FS_RemoveElement
<1>9. Cardinality(Trimming \ {t}) \in Nat
  BY <1>2, FS_RemoveElement, FS_CardinalityType
<1>10. Cardinality(DOMAIN cache') <= Capacity + moved
  BY <1>2, <1>3, <1>4, <1>5, <1>6, <1>7, <1>8, <1>9, CapacityIsNat
<1>. QED
  BY <1>1, <1>10 DEF BoundInv, ShapeInv, CacheBounded

LEMMA PutSize ==
    ASSUME NEW k, NEW v, IsFiniteSet(DOMAIN cache), k \notin DOMAIN cache, cache' = Put(cache, k, v)
    PROVE  /\ IsFiniteSet(DOMAIN cache')
           /\ Cardinality(DOMAIN cache') = Cardinality(DOMAIN cache) + 1
<1>1. DOMAIN cache' = DOMAIN cache \cup {k}
  BY DEF Put
<1>. QED
  BY <1>1, FS_AddElement

LEMMA DropSize ==
    ASSUME NEW k, IsFiniteSet(DOMAIN cache), cache' = Drop(cache, k)
    PROVE  /\ IsFiniteSet(DOMAIN cache')
           /\ Cardinality(DOMAIN cache') <= Cardinality(DOMAIN cache)
<1>1. DOMAIN cache' = DOMAIN cache \ {k}
  BY DEF Drop
<1>2. Cardinality(DOMAIN cache) \in Nat
  BY FS_CardinalityType
<1>. QED
  BY <1>1, <1>2, FS_RemoveElement

LEMMA BoundInvInductive == BoundInv /\ [Next]_vars => BoundInv'
<1>. SUFFICES ASSUME BoundInv, [Next]_vars PROVE BoundInv'
  OBVIOUS
<1>1. IsFiniteSet(DOMAIN cache) /\ Cardinality(DOMAIN cache) \in Nat
  BY FS_CardinalityType DEF BoundInv, ShapeInv
<1>2. ASSUME NEW t \in Thread, NEW s, Validate(t, s) PROVE BoundInv'
  <2>1. Goto(t, "read") /\ pc[t] = "idle" /\ cache' = cache
    BY <1>2 DEF Validate
  <2>. QED
    BY <1>1, <2>1, BoundSteps DEF Steps
<1>3. ASSUME NEW t \in Thread, ReadCache(t) PROVE BoundInv'
  <2>1. pc[t] = "read" /\ cache' = cache /\ (Goto(t, "idle") \/ Goto(t, "compile"))
    BY <1>3 DEF ReadCache, Return
  <2>2. CASE Goto(t, "idle")
    BY <1>1, <2>1, <2>2, BoundSteps DEF Steps
  <2>3. CASE Goto(t, "compile")
    BY <1>1, <2>1, <2>3, BoundSteps DEF Steps
  <2>. QED
    BY <2>1, <2>2, <2>3
<1>4. ASSUME NEW t \in Thread, Compile(t) PROVE BoundInv'
  <2>1. pc[t] = "compile" /\ cache' = cache /\ (Goto(t, "idle") \/ Goto(t, "insert"))
    BY <1>4 DEF Compile, Return
  <2>2. CASE Goto(t, "idle")
    BY <1>1, <2>1, <2>2, BoundSteps DEF Steps
  <2>3. CASE Goto(t, "insert")
    BY <1>1, <2>1, <2>3, BoundSteps DEF Steps
  <2>. QED
    BY <2>1, <2>2, <2>3
<1>5. ASSUME NEW t \in Thread, Insert(t) PROVE BoundInv'
  <2>1. CASE KeyOf(t) \notin DOMAIN cache
    <3>1. pc[t] = "insert" /\ Goto(t, "trim") /\ cache' = Put(cache, KeyOf(t), schema[t])
      BY <1>5, <2>1 DEF Insert
    <3>2. IsFiniteSet(DOMAIN cache') /\ Cardinality(DOMAIN cache') = Cardinality(DOMAIN cache) + 1
      BY <1>1, <2>1, <3>1, PutSize
    <3>. QED
      BY <1>1, <3>1, <3>2, BoundSteps DEF Steps
  <2>2. CASE KeyOf(t) \in DOMAIN cache
    <3>1. pc[t] = "insert" /\ Goto(t, "reread") /\ cache' = cache
      BY <1>5, <2>2 DEF Insert
    <3>. QED
      BY <1>1, <3>1, BoundSteps DEF Steps
  <2>. QED
    BY <2>1, <2>2
<1>6. ASSUME NEW t \in Thread, Reread(t) PROVE BoundInv'
  <2>1. pc[t] = "reread" /\ Goto(t, "idle") /\ cache' = cache
    BY <1>6 DEF Reread, Return
  <2>. QED
    BY <1>1, <2>1, BoundSteps DEF Steps
<1>7. ASSUME NEW t \in Thread, Trim(t) PROVE BoundInv'
  <2>1. CASE Cardinality(DOMAIN cache) <= Capacity
    <3>1. Goto(t, "idle") /\ cache' = cache
      BY <1>1, <1>7, <2>1, CapacityIsNat DEF Trim, Return
    <3>. QED
      BY <1>1, <2>1, <3>1, BoundSteps DEF Steps
  <2>2. CASE Cardinality(DOMAIN cache) > Capacity
    <3>1. pc[t] = "trim" /\ Goto(t, "choose") /\ cache' = cache
      BY <1>1, <1>7, <2>2, CapacityIsNat DEF Trim
    <3>. QED
      BY <1>1, <3>1, BoundSteps DEF Steps
  <2>. QED
    BY <1>1, <2>1, <2>2, CapacityIsNat
<1>8. ASSUME NEW t \in Thread, Choose(t) PROVE BoundInv'
  <2>1. pc[t] = "choose" /\ cache' = cache
    BY <1>8 DEF Choose
  <2>2. CASE Goto(t, "remove")
    BY <1>1, <2>1, <2>2, BoundSteps DEF Steps
  <2>3. CASE DOMAIN cache = {} /\ Goto(t, "idle")
    <3>1. Cardinality(DOMAIN cache') <= Capacity
      BY <2>1, <2>3, FS_EmptySet, CapacityIsNat
    <3>. QED
      BY <1>1, <2>1, <2>3, <3>1, BoundSteps DEF Steps
  <2>. QED
    BY <1>8, <2>2, <2>3 DEF Choose, Return
<1>9. ASSUME NEW t \in Thread, Remove(t) PROVE BoundInv'
  <2>1. pc[t] = "remove" /\ Goto(t, "trim") /\ cache' = Drop(cache, victim[t])
    BY <1>9 DEF Remove
  <2>2. IsFiniteSet(DOMAIN cache') /\ Cardinality(DOMAIN cache') <= Cardinality(DOMAIN cache)
    BY <1>1, <2>1, DropSize
  <2>. QED
    BY <2>1, <2>2, BoundSteps DEF Steps
<1>10. CASE UNCHANGED vars
  BY <1>10 DEF vars, BoundInv, ShapeInv, CacheBounded, Trimming
<1>. QED
  BY <1>2, <1>3, <1>4, <1>5, <1>6, <1>7, <1>8, <1>9, <1>10 DEF Next, Step

\* For any number of threads, the validator cache overshoots its limit by at most
\* the threads that are still trimming.
THEOREM CacheStaysBounded == Spec => []CacheBounded
<1>1. Init => BoundInv
  <2>. SUFFICES ASSUME Init PROVE BoundInv
    OBVIOUS
  <2>1. DOMAIN cache = {}
    BY DEF Init
  <2>2. IsFiniteSet(DOMAIN cache) /\ Cardinality(DOMAIN cache) = 0
    BY <2>1, FS_EmptySet
  <2>3. pc \in [Thread -> Steps]
    BY DEF Init, Steps
  <2>4. Cardinality(DOMAIN cache) <= Capacity + Cardinality(Trimming)
    BY <2>2, TrimmingFinite, CapacityIsNat
  <2>. QED
    BY <2>2, <2>3, <2>4 DEF BoundInv, ShapeInv, CacheBounded
<1>2. BoundInv => CacheBounded
  BY DEF BoundInv
<1>. QED
  BY <1>1, <1>2, BoundInvInductive, PTL DEF Spec

-----------------------------------------------------------------------------
(* The validator handed out *)

\* A call that got past compiling has a schema that compiles.
RightInv ==
    /\ pc \in [Thread -> Steps]
    /\ DOMAIN schema = Thread /\ DOMAIN result = Thread
    /\ \A t \in Thread : pc[t] \in {"insert", "trim", "choose", "remove"} => schema[t] \notin Broken
    /\ RightValidator

Right(t) ==
    result[t].status = "Ok" =>
        Hash[result[t].validator] = Hash[schema[t]] /\ result[t].validator \notin Broken

\* Steps of t that leave the schemas and the cache alone.
LEMMA RightReturns ==
    ASSUME RightInv, NEW t \in Thread, NEW step \in Steps, Goto(t, step), schema' = schema,
           DOMAIN result' = Thread, \A u \in Thread \ {t} : result'[u] = result[u], Right(t)',
           step \in {"insert", "trim", "choose", "remove"} => schema[t] \notin Broken,
           \A k \in DOMAIN cache' : Hash[cache'[k]] = k /\ cache'[k] \notin Broken
    PROVE  RightInv'
<1>1. pc' \in [Thread -> Steps] /\ pc'[t] = step /\ \A u \in Thread \ {t} : pc'[u] = pc[u]
  BY DEF RightInv, Goto
<1>2. \A u \in Thread : pc'[u] \in {"insert", "trim", "choose", "remove"} => schema'[u] \notin Broken
  BY <1>1 DEF RightInv
<1>3. \A u \in Thread : Right(u)'
  BY DEF RightInv, RightValidator, Right
<1>4. RightValidator'
  BY <1>3 DEF RightValidator, Right
<1>. QED
  BY <1>1, <1>2, <1>4 DEF RightInv

LEMMA RightInvInductive == RightInv /\ [Next]_vars => RightInv'
<1>. SUFFICES ASSUME RightInv, [Next]_vars PROVE RightInv'
  OBVIOUS
<1>1. \A k \in DOMAIN cache : Hash[cache[k]] = k /\ cache[k] \notin Broken
  BY DEF RightInv, RightValidator
<1>2. \A t \in Thread : Right(t)
  BY DEF RightInv, RightValidator, Right
<1>3. ASSUME NEW t \in Thread, NEW s, Validate(t, s) PROVE RightInv'
  <2>1. /\ pc' \in [Thread -> Steps] /\ pc'[t] = "read" /\ cache' = cache
        /\ DOMAIN schema' = Thread /\ DOMAIN result' = Thread /\ result'[t] = NoResult
        /\ \A u \in Thread \ {t} : pc'[u] = pc[u] /\ schema'[u] = schema[u] /\ result'[u] = result[u]
    BY <1>3 DEF Validate, Goto, RightInv, Steps
  <2>2. NoResult.status # "Ok"
    BY DEF NoResult
  <2>3. \A u \in Thread : Right(u)'
    BY <1>2, <2>1, <2>2 DEF Right
  <2>4. RightValidator'
    BY <1>1, <2>1, <2>3 DEF RightValidator, Right
  <2>. QED
    BY <2>1, <2>4 DEF RightInv
<1>4. \A s : Found(s).status = "Ok" /\ Found(s).validator = s
  BY DEF Found
<1>5. \A reason : Error(reason).status = reason
  BY DEF Error
<1>6. ASSUME NEW t \in Thread, ReadCache(t) PROVE RightInv'
  <2>1. schema' = schema /\ cache' = cache
    BY <1>6 DEF ReadCache
  <2>2. CASE KeyOf(t) \in DOMAIN cache
    <3>1. Goto(t, "idle") /\ result' = [result EXCEPT ![t] = Found(cache[KeyOf(t)])]
      BY <1>6, <2>2 DEF ReadCache, Return
    <3>2. Right(t)'
      BY <1>1, <1>4, <2>1, <2>2, <3>1 DEF Right, KeyOf, RightInv
    <3>. QED
      BY <1>1, <2>1, <3>1, <3>2, RightReturns DEF RightInv, Steps
  <2>3. CASE KeyOf(t) \notin DOMAIN cache
    <3>1. Goto(t, "compile") /\ result' = result
      BY <1>6, <2>3 DEF ReadCache
    <3>2. Right(t)'
      BY <1>2, <2>1, <3>1 DEF Right
    <3>. QED
      BY <1>1, <2>1, <3>1, <3>2, RightReturns DEF RightInv, Steps
  <2>. QED
    BY <2>2, <2>3
<1>7. ASSUME NEW t \in Thread, Compile(t) PROVE RightInv'
  <2>1. schema' = schema /\ cache' = cache
    BY <1>7 DEF Compile
  <2>2. CASE schema[t] \in Broken
    <3>1. Goto(t, "idle") /\ result' = [result EXCEPT ![t] = Error("Schema")]
      BY <1>7, <2>2 DEF Compile, Return
    <3>2. Right(t)'
      BY <1>5, <3>1 DEF Right, RightInv
    <3>. QED
      BY <1>1, <2>1, <3>1, <3>2, RightReturns DEF RightInv, Steps
  <2>3. CASE schema[t] \notin Broken
    <3>1. Goto(t, "insert") /\ result' = result
      BY <1>7, <2>3 DEF Compile
    <3>2. Right(t)'
      BY <1>2, <2>1, <3>1 DEF Right
    <3>. QED
      BY <1>1, <2>1, <2>3, <3>1, <3>2, RightReturns DEF RightInv, Steps
  <2>. QED
    BY <2>2, <2>3
<1>8. ASSUME NEW t \in Thread, Insert(t) PROVE RightInv'
  <2>1. schema' = schema /\ result' = result /\ schema[t] \notin Broken
    BY <1>8 DEF Insert, RightInv
  <2>2. Right(t)'
    BY <1>2, <2>1 DEF Right
  <2>3. CASE KeyOf(t) \notin DOMAIN cache
    <3>1. Goto(t, "trim") /\ cache' = Put(cache, KeyOf(t), schema[t])
      BY <1>8, <2>3 DEF Insert
    <3>2. \A k \in DOMAIN cache' : Hash[cache'[k]] = k /\ cache'[k] \notin Broken
      BY <1>1, <2>1, <3>1 DEF Put, KeyOf
    <3>. QED
      BY <2>1, <2>2, <3>1, <3>2, RightReturns DEF RightInv, Steps
  <2>4. CASE KeyOf(t) \in DOMAIN cache
    <3>1. Goto(t, "reread") /\ cache' = cache
      BY <1>8, <2>4 DEF Insert
    <3>. QED
      BY <1>1, <2>1, <2>2, <3>1, RightReturns DEF RightInv, Steps
  <2>. QED
    BY <2>3, <2>4
<1>9. ASSUME NEW t \in Thread, Reread(t) PROVE RightInv'
  <2>1. schema' = schema /\ cache' = cache /\ Goto(t, "idle")
    BY <1>9 DEF Reread, Return
  <2>2. CASE KeyOf(t) \in DOMAIN cache
    <3>1. result' = [result EXCEPT ![t] = Found(cache[KeyOf(t)])]
      BY <1>9, <2>2 DEF Reread, Return
    <3>2. Right(t)'
      BY <1>1, <1>4, <2>1, <2>2, <3>1 DEF Right, KeyOf, RightInv
    <3>. QED
      BY <1>1, <2>1, <3>1, <3>2, RightReturns DEF RightInv, Steps
  <2>3. CASE KeyOf(t) \notin DOMAIN cache
    <3>1. result' = [result EXCEPT ![t] = Error("Race")]
      BY <1>9, <2>3 DEF Reread, Return
    <3>2. Right(t)'
      BY <1>5, <3>1 DEF Right, RightInv
    <3>. QED
      BY <1>1, <2>1, <3>1, <3>2, RightReturns DEF RightInv, Steps
  <2>. QED
    BY <2>2, <2>3
<1>10. ASSUME NEW t \in Thread, pc[t] \in {"trim", "choose"}, schema' = schema, cache' = cache,
              result' = [result EXCEPT ![t] = Found(schema[t])], Goto(t, "idle")
       PROVE  RightInv'
  <2>1. schema[t] \notin Broken
    BY <1>10 DEF RightInv
  <2>2. Right(t)'
    BY <1>4, <1>10, <2>1 DEF Right, RightInv
  <2>. QED
    BY <1>1, <1>10, <2>2, RightReturns DEF RightInv, Steps
<1>11. ASSUME NEW t \in Thread, pc[t] \in {"trim", "choose"}, NEW step \in {"choose", "remove"},
              schema' = schema, cache' = cache, result' = result, Goto(t, step)
       PROVE  RightInv'
  <2>1. schema[t] \notin Broken
    BY <1>11 DEF RightInv
  <2>2. Right(t)'
    BY <1>2, <1>11 DEF Right
  <2>. QED
    BY <1>1, <1>11, <2>1, <2>2, RightReturns DEF RightInv, Steps
<1>12. ASSUME NEW t \in Thread, Remove(t) PROVE RightInv'
  <2>1. /\ schema' = schema /\ result' = result /\ schema[t] \notin Broken
        /\ Goto(t, "trim") /\ cache' = Drop(cache, victim[t])
    BY <1>12 DEF Remove, RightInv
  <2>2. Right(t)'
    BY <1>2, <2>1 DEF Right
  <2>3. \A k \in DOMAIN cache' : Hash[cache'[k]] = k /\ cache'[k] \notin Broken
    BY <1>1, <2>1 DEF Drop
  <2>. QED
    BY <2>1, <2>2, <2>3, RightReturns DEF RightInv, Steps
<1>13. ASSUME NEW t \in Thread, Trim(t) PROVE RightInv'
  BY <1>10, <1>11, <1>13 DEF Trim, Return
<1>14. ASSUME NEW t \in Thread, Choose(t) PROVE RightInv'
  BY <1>10, <1>11, <1>14 DEF Choose, Return
<1>15. CASE UNCHANGED vars
  BY <1>15 DEF vars, RightInv, RightValidator
<1>. QED
  BY <1>3, <1>6, <1>7, <1>8, <1>9, <1>12, <1>13, <1>14, <1>15 DEF Next, Step

\* For any threads, schemas and hash function, collisions included: a call that
\* succeeds has a validator of a schema that compiles and has the hash it asked for.
THEOREM ValidatorIsRight == Spec => []RightValidator
<1>1. Init => RightInv
  BY DEF Init, RightInv, RightValidator, Steps, NoResult
<1>2. RightInv => RightValidator
  BY DEF RightInv
<1>. QED
  BY <1>1, <1>2, RightInvInductive, PTL DEF Spec

-----------------------------------------------------------------------------
(* Types *)

VictimInv == TypeOK /\ DOMAIN victim = Thread

\* The hash of the schema of a call is a key.
LEMMA KeyIsHash ==
    ASSUME VictimInv, NEW t \in Thread
    PROVE  KeyOf(t) \in Range(Hash)
BY HashAssumption DEF VictimInv, TypeOK, KeyOf, Range

\* A step of thread t that neither chooses nor forgets a key.
LEMMA VictimStays ==
    ASSUME VictimInv, NEW t \in Thread, NEW step \in Steps \ {"remove"}, pc[t] # "remove",
           Goto(t, step), victim' = victim, schema' \in [Thread -> Schema],
           DOMAIN cache' \subseteq Range(Hash)
    PROVE  VictimInv'
<1>1. pc' \in [Thread -> Steps] /\ pc'[t] = step /\ \A u \in Thread \ {t} : pc'[u] = pc[u]
  BY DEF VictimInv, TypeOK, Goto
<1>2. \A u \in Thread : victim'[u] # NoKey <=> pc'[u] = "remove"
  BY <1>1 DEF VictimInv, TypeOK
<1>. QED
  BY <1>1, <1>2 DEF VictimInv, TypeOK

LEMMA VictimInductive == VictimInv /\ [Next]_vars => VictimInv'
<1>. SUFFICES ASSUME VictimInv, [Next]_vars PROVE VictimInv'
  OBVIOUS
<1>. USE DEF Steps
<1>1. schema \in [Thread -> Schema] /\ DOMAIN cache \subseteq Range(Hash)
  BY DEF VictimInv, TypeOK
<1>2. ASSUME NEW t \in Thread, NEW s \in Asks[t], Validate(t, s) PROVE VictimInv'
  <2>1. s \in Schema
    BY AsksAssumption
  <2>. QED
    BY <1>1, <1>2, <2>1, VictimStays DEF Validate
<1>3. ASSUME NEW t \in Thread, ReadCache(t) \/ Compile(t) \/ Reread(t) PROVE VictimInv'
  <2>1. /\ pc[t] \in {"read", "compile", "reread"}
        /\ \E step \in {"idle", "compile", "insert"} : Goto(t, step)
        /\ cache' = cache /\ schema' = schema /\ victim' = victim
    BY <1>3 DEF ReadCache, Compile, Reread, Return
  <2>. QED
    BY <1>1, <2>1, VictimStays
<1>4. ASSUME NEW t \in Thread, Insert(t) PROVE VictimInv'
  <2>1. DOMAIN cache' \subseteq DOMAIN cache \cup {KeyOf(t)}
    BY <1>4 DEF Insert, Put
  <2>2. DOMAIN cache' \subseteq Range(Hash)
    BY <1>1, <2>1, KeyIsHash
  <2>3. pc[t] = "insert" /\ schema' = schema /\ victim' = victim
        /\ \E step \in {"trim", "reread"} : Goto(t, step)
    BY <1>4 DEF Insert
  <2>. QED
    BY <1>1, <2>2, <2>3, VictimStays
<1>5. ASSUME NEW t \in Thread, Trim(t) PROVE VictimInv'
  <2>1. /\ pc[t] = "trim" /\ \E step \in {"idle", "choose"} : Goto(t, step)
        /\ cache' = cache /\ schema' = schema /\ victim' = victim
    BY <1>5 DEF Trim, Return
  <2>. QED
    BY <1>1, <2>1, VictimStays
<1>6. ASSUME NEW t \in Thread, Choose(t) PROVE VictimInv'
  <2>1. cache' = cache /\ schema' = schema /\ pc[t] = "choose"
    BY <1>6 DEF Choose
  <2>2. CASE victim' = victim /\ Goto(t, "idle")
    BY <1>1, <2>1, <2>2, VictimStays
  <2>3. CASE (\E k \in DOMAIN cache : victim' = [victim EXCEPT ![t] = k]) /\ Goto(t, "remove")
    <3>1. PICK k \in DOMAIN cache : victim' = [victim EXCEPT ![t] = k]
      BY <2>3
    <3>2. k # NoKey
      BY <1>1, HashAssumption DEF NoKey
    <3>3. victim'[t] = k /\ DOMAIN victim' = Thread /\ \A u \in Thread \ {t} : victim'[u] = victim[u]
      BY <3>1 DEF VictimInv
    <3>4. pc' \in [Thread -> Steps] /\ pc'[t] = "remove" /\ \A u \in Thread \ {t} : pc'[u] = pc[u]
      BY <2>3 DEF VictimInv, TypeOK, Goto
    <3>5. \A u \in Thread : victim'[u] # NoKey <=> pc'[u] = "remove"
      BY <3>2, <3>3, <3>4 DEF VictimInv, TypeOK
    <3>. QED
      BY <1>1, <2>1, <3>3, <3>4, <3>5 DEF VictimInv, TypeOK
  <2>. QED
    BY <1>6, <2>2, <2>3 DEF Choose, Return
<1>7. ASSUME NEW t \in Thread, Remove(t) PROVE VictimInv'
  <2>1. DOMAIN cache' \subseteq Range(Hash) /\ schema' = schema
    BY <1>1, <1>7 DEF Remove, Drop
  <2>2. victim'[t] = NoKey /\ DOMAIN victim' = Thread /\ \A u \in Thread \ {t} : victim'[u] = victim[u]
    BY <1>7 DEF Remove, VictimInv
  <2>3. pc' \in [Thread -> Steps] /\ pc'[t] = "trim" /\ \A u \in Thread \ {t} : pc'[u] = pc[u]
    BY <1>7 DEF Remove, VictimInv, TypeOK, Goto
  <2>4. \A u \in Thread : victim'[u] # NoKey <=> pc'[u] = "remove"
    BY <2>2, <2>3 DEF VictimInv, TypeOK
  <2>. QED
    BY <1>1, <2>1, <2>2, <2>3, <2>4 DEF VictimInv, TypeOK
<1>8. CASE UNCHANGED vars
  BY <1>8 DEF vars, VictimInv, TypeOK
<1>. QED
  BY <1>2, <1>3, <1>4, <1>5, <1>6, <1>7, <1>8 DEF Next, Step

\* For any threads and schemas: whatever is cached is filed under a schema's hash, and a
\* thread that trims evicts a key it has chosen itself, once.
THEOREM VictimsAreChosen == Spec => []TypeOK
<1>1. Init => VictimInv
  BY DEF Init, VictimInv, TypeOK, Steps
<1>2. VictimInv => TypeOK
  BY DEF VictimInv
<1>. QED
  BY <1>1, <1>2, VictimInductive, PTL DEF Spec

=============================================================================
