--------------------------- MODULE ValidatorCache ---------------------------
(***************************************************************************)
(* The process-wide cache of compiled JSON schema validators               *)
(* (crates/specmock-core/src/validate.rs).  Every request validation looks *)
(* its schema up by hash, compiles it on a miss, inserts the result and    *)
(* trims the cache.  One action is one operation on the map, which locks   *)
(* the bucket of its key.  A compiled validator is named by its schema.    *)
(***************************************************************************)
EXTENDS Integers, FiniteSets, Functions

CONSTANTS
    Thread,        \* threads that validate
    Schema,        \* the schemas of the documents being served
    Asks,          \* thread -> the schemas it validates against
    Broken,        \* the schemas that do not compile
    Hash,          \* schema -> cache key
    MaxEntries     \* VALIDATOR_CACHE_MAX_ENTRIES

ASSUME ThreadAssumption == IsFiniteSet(Thread)
ASSUME AsksAssumption == Asks \in [Thread -> SUBSET Schema]
ASSUME MaxEntriesAssumption == MaxEntries \in Nat

\* Every schema hashes; a hash is told apart from having chosen no key.
ASSUME HashAssumption == DOMAIN Hash = Schema /\ "none" \notin Range(Hash)

VARIABLES
    cache,     \* key -> schema compiled, partial
    pc,        \* per thread: the next step of its call, or "idle"
    schema,    \* per thread: the schema of its call or its last call
    victim,    \* per thread: the key its trimming chose
    result     \* per thread: what the call came to

vars == <<cache, pc, schema, victim, result>>

NoResult == [status |-> "none", validator |-> "none"]
NoKey == "none"
Found(s) == [status |-> "Ok", validator |-> s]
Error(reason) == [status |-> reason, validator |-> "none"]

Put(f, k, v) == [x \in DOMAIN f \cup {k} |-> IF x = k THEN v ELSE f[x]]
Drop(f, k) == [x \in DOMAIN f \ {k} |-> f[x]]

Goto(t, step) == pc' = [pc EXCEPT ![t] = step]
Return(t, r) == Goto(t, "idle") /\ result' = [result EXCEPT ![t] = r]

\* The cache key of the call of thread t.
KeyOf(t) == Hash[schema[t]]

\* max(1): the limit is never taken as zero.
Capacity == IF MaxEntries = 0 THEN 1 ELSE MaxEntries

-----------------------------------------------------------------------------
Init ==
    /\ cache = [k \in {} |-> "none"]
    /\ pc = [t \in Thread |-> "idle"]
    /\ schema \in [Thread -> Schema]
    /\ victim = [t \in Thread |-> NoKey]
    /\ result = [t \in Thread |-> NoResult]

\* validate_instance asks for the validator of its schema.
Validate(t, s) ==
    /\ pc[t] = "idle"
    /\ schema' = [schema EXCEPT ![t] = s]
    /\ result' = [result EXCEPT ![t] = NoResult]
    /\ Goto(t, "read")
    /\ UNCHANGED <<cache, victim>>

ReadCache(t) ==
    /\ pc[t] = "read"
    /\ \/ KeyOf(t) \in DOMAIN cache /\ Return(t, Found(cache[KeyOf(t)]))
       \/ KeyOf(t) \notin DOMAIN cache /\ Goto(t, "compile") /\ UNCHANGED result
    /\ UNCHANGED <<cache, schema, victim>>

\* validator_for, outside any lock.
Compile(t) ==
    /\ pc[t] = "compile"
    /\ \/ schema[t] \in Broken /\ Return(t, Error("Schema"))
       \/ schema[t] \notin Broken /\ Goto(t, "insert") /\ UNCHANGED result
    /\ UNCHANGED <<cache, schema, victim>>

\* Faulty variant: an insertion over a full cache is not followed by trimming.
InsertUntrimmed(t) ==
    /\ pc[t] = "insert"
    /\ cache' = Put(cache, KeyOf(t), schema[t])
    /\ Return(t, Found(schema[t]))
    /\ UNCHANGED <<schema, victim>>

\* Keep what was compiled, unless another thread was first.
Insert(t) ==
    /\ pc[t] = "insert"
    /\ \/ /\ KeyOf(t) \notin DOMAIN cache
          /\ cache' = Put(cache, KeyOf(t), schema[t])
          /\ Goto(t, "trim")
       \/ /\ KeyOf(t) \in DOMAIN cache
          /\ Goto(t, "reread")
          /\ UNCHANGED cache
    /\ UNCHANGED <<schema, victim, result>>

\* Faulty variant: whatever validator is at hand is taken.
RereadAny(t) ==
    /\ pc[t] = "reread"
    /\ \E k \in DOMAIN cache : Return(t, Found(cache[k]))
    /\ UNCHANGED <<cache, schema, victim>>

\* The thread that was not first takes the validator that was, if it is still there.
Reread(t) ==
    /\ pc[t] = "reread"
    /\ Return(t, IF KeyOf(t) \in DOMAIN cache THEN Found(cache[KeyOf(t)]) ELSE Error("Race"))
    /\ UNCHANGED <<cache, schema, victim>>

\* The loop condition; a call whose trimming is over returns what it compiled.
Trim(t) ==
    /\ pc[t] = "trim"
    /\ \/ /\ Cardinality(DOMAIN cache) <= Capacity
          /\ Return(t, Found(schema[t]))
       \/ /\ Cardinality(DOMAIN cache) > Capacity
          /\ Goto(t, "choose")
          /\ UNCHANGED result
    /\ UNCHANGED <<cache, schema, victim>>

\* Faulty variant: the limit is tested after the choice, which is then forgotten.
ChooseEarly(t) ==
    /\ pc[t] = "choose"
    /\ \E k \in DOMAIN cache : victim' = [victim EXCEPT ![t] = k]
    /\ Goto(t, "trim")
    /\ UNCHANGED <<cache, schema, result>>

\* The first key an iteration meets, or the end when others emptied the cache.
Choose(t) ==
    /\ pc[t] = "choose"
    /\ \/ /\ \E k \in DOMAIN cache : victim' = [victim EXCEPT ![t] = k]
          /\ Goto(t, "remove")
          /\ UNCHANGED result
       \/ /\ DOMAIN cache = {}
          /\ Return(t, Found(schema[t]))
          /\ UNCHANGED victim
    /\ UNCHANGED <<cache, schema>>

\* Faulty variant: the chosen key is left where it is.
RemoveNothing(t) ==
    /\ pc[t] = "remove"
    /\ victim' = [victim EXCEPT ![t] = NoKey]
    /\ Goto(t, "trim")
    /\ UNCHANGED <<cache, schema, result>>

Remove(t) ==
    /\ pc[t] = "remove"
    /\ cache' = Drop(cache, victim[t])
    /\ victim' = [victim EXCEPT ![t] = NoKey]
    /\ Goto(t, "trim")
    /\ UNCHANGED <<schema, result>>

Step(t) ==
    \/ ReadCache(t) \/ Compile(t) \/ Insert(t) \/ Reread(t)
    \/ Trim(t) \/ Choose(t) \/ Remove(t)

Next == \E t \in Thread : Step(t) \/ \E s \in Asks[t] : Validate(t, s)

Spec == Init /\ [][Next]_vars

\* A thread inside a call keeps running; nobody is obliged to call.
FairSpec == Spec /\ \A t \in Thread : WF_vars(Step(t))

-----------------------------------------------------------------------------
(* Properties *)

Steps == {"idle", "read", "compile", "insert", "reread", "trim", "choose", "remove"}

\* Threads that have inserted and have not finished trimming.
Trimming == {t \in Thread : pc[t] \in {"trim", "choose", "remove"}}

\* Every call is at one of its steps, cached keys are hashes of schemas, and a thread
\* has chosen a key to evict exactly while it is about to remove it.
TypeOK ==
    /\ pc \in [Thread -> Steps]
    /\ schema \in [Thread -> Schema]
    /\ DOMAIN cache \subseteq Range(Hash)
    /\ \A t \in Thread : victim[t] # NoKey <=> pc[t] = "remove"

\* trim_validator_cache_if_needed: concurrent insertions overshoot the limit by at
\* most the threads that are trimming, so the cache is within it at rest.
CacheBounded == Cardinality(DOMAIN cache) <= Capacity + Cardinality(Trimming)

\* A call that succeeds hands out a validator compiled from a schema with the hash
\* of its own, whoever compiled it and whatever was evicted and put back since.  That
\* it is the same schema, as README.md has it, depends on the hash: the code compares
\* hashes of 64 bits and no schemas.
RightValidator ==
    /\ \A k \in DOMAIN cache : Hash[cache[k]] = k /\ cache[k] \notin Broken
    /\ \A t \in Thread : result[t].status = "Ok" =>
          Hash[result[t].validator] = Hash[schema[t]] /\ result[t].validator \notin Broken

Quiescent == \A t \in Thread : pc[t] = "idle"

\* Calls return as long as calls stop coming: threads that trim the same cache do
\* not keep each other trimming.
CallsDrain ==
    \/ []<><<\E t \in Thread : \E s \in Asks[t] : Validate(t, s)>>_vars
    \/ <>[]Quiescent

\* specs/README.md, CORRECTNESS-01: the thread that loses the race to insert reads
\* the winner's value, so a schema that compiles is never refused.
LoserReadsWinner == \A t \in Thread : result[t].status # "Race"

=============================================================================
