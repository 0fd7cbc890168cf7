---------------------------- MODULE RefResolver ----------------------------
(***************************************************************************)
(* The $ref resolver (crates/specmock-core/src/ref_resolver.rs): it loads  *)
(* a document and replaces every reference in it by what it refers to,     *)
(* keeping the external files it read in a cache of bounded size.          *)
(*                                                                         *)
(* A value is [leaf], [array |-> sequence] or [object |-> map]; a $ref is  *)
(* an object of the other members with a field ref beside it, a record of  *)
(* form ("text", "url" or "number"), file ("" when it is local) and        *)
(* pointer, a sequence of keys.  Keys are numbers, since maps are walked   *)
(* in the order of their keys, and an index is a key.                      *)
(***************************************************************************)
EXTENDS Integers, Sequences, SequencesExt, FiniteSets, Functions, TLC

CONSTANTS
    Lookup,          \* <<directory, file part>> -> canonical path, for the files that exist
    Tree,            \* canonical path -> [directory, allowed, extension, syntax, content]
    MaxDepth,        \* max_depth
    MaxCalls         \* bound: calls of resolve on one resolver

VARIABLES
    limit,           \* external_cache_limit
    cacheOrder,      \* cache_order; the cache holds the content of these files
    calls,           \* calls made so far
    asked,           \* the file of the last call
    outcome          \* what the last call returned

resolverVars == <<limit, cacheOrder, calls, asked, outcome>>

IsReference(v) == "ref" \in DOMAIN v
IsObject(v) == "object" \in DOMAIN v

\* What a call gives back: a value or an error, and the cache it leaves.
Done(value, order) == [value |-> value, order |-> order]
Failed(error, order) == [error |-> error, order |-> order]
HasFailed(r) == "error" \in DOMAIN r

-----------------------------------------------------------------------------
(* Pointers and files *)

\* resolve_pointer, through the members of objects and the indices of arrays; a set
\* of at most one value.
ResolvePointer(root, pointer) ==
    LET step(found, key) ==
            UNION {CASE IsObject(v) -> {v.object[k] : k \in {key} \cap DOMAIN v.object}
                     [] "array" \in DOMAIN v -> {v.array[i] : i \in {key + 1} \cap DOMAIN v.array}
                     [] OTHER -> {} : v \in found}
    IN FoldLeft(step, {root}, pointer)

\* evict_external_cache_if_needed: the oldest entries go until one more fits.
Evict(order) ==
    IF Len(order) < limit THEN order ELSE SubSeq(order, Len(order) - limit + 2, Len(order))

\* load_file: the extension chooses the parser, and the one for YAML reads JSON too.
LoadFile(path) ==
    LET parsed == IF Tree[path].extension \in {"yaml", "yml"} THEN {"yaml", "json"} ELSE {"json"}
    IN IF Tree[path].syntax \in parsed THEN {Tree[path].content} ELSE {}
Loads(path) == LoadFile(path) # {}

\* The cache after a file was asked for; a file that does not parse is not kept.
Cached(order, path) ==
    IF path \in Range(order) THEN order
    ELSE IF Loads(path) THEN Append(Evict(order), path) ELSE Evict(order)

\* The siblings of a $ref fill what its target leaves open; there is nothing to fill in
\* a target that is not an object.
Merge(target, siblings) ==
    IF IsObject(target) THEN [target EXCEPT !.object = @ @@ siblings] ELSE target

-----------------------------------------------------------------------------
(* Resolution *)

RECURSIVE ResolveValue(_, _, _, _, _)

\* The target of a $ref as it is written: in the document at hand, or in a file that
\* exists, lies under an allowed root and parses.
Locate(ref, root, base, order) ==
    LET external == ref.file # ""
        place == <<base, ref.file>>
        path  == Lookup[place]
        next  == IF external THEN Cached(order, path) ELSE order
        found == ResolvePointer(IF external THEN Tree[path].content ELSE root, ref.pointer)
    IN IF ref.form # "text" THEN Failed(ref.form, order)
       ELSE IF external /\ place \notin DOMAIN Lookup THEN Failed("no file", order)
       ELSE IF external /\ ~Tree[path].allowed THEN Failed("outside", order)
       ELSE IF external /\ ~Loads(path) THEN Failed("parse", next)
       ELSE IF found = {} THEN Failed("not found", next)
       ELSE Done(CHOOSE v \in found : TRUE, next)

\* Faulty variant: a target in another file is returned as it is written there.
ResolveRefAsWritten(ref, root, base, depth, order) == Locate(ref, root, base, order)

\* resolve_ref: a local target is returned as it is written; one in another file is
\* resolved first, against its own document and directory.
ResolveRef(ref, root, base, depth, order) ==
    LET target == Locate(ref, root, base, order)
        file   == Tree[Lookup[<<base, ref.file>>]]
    IN IF HasFailed(target) \/ ref.file = "" THEN target
       ELSE ResolveValue(target.value, file.content, file.directory, depth, target.order)

\* resolve_value: a $ref is replaced, merged with its siblings and walked again; an
\* object or an array is walked in order until something fails.
ResolveValue(v, root, base, depth, order) ==
    LET target == ResolveRef(v.ref, root, base, depth + 1, order)
        walk(parts, keys) ==
            FoldLeft(LAMBDA r, k :
                         IF HasFailed(r) THEN r
                         ELSE LET child == ResolveValue(parts[k], root, base, depth + 1, r.order) IN
                              IF HasFailed(child) THEN child
                              ELSE Done([r.value EXCEPT ![k] = child.value], child.order),
                     Done(parts, order), keys)
        within(r, kind) == IF HasFailed(r) THEN r ELSE Done(kind :> r.value, r.order)
    IN CASE depth > MaxDepth -> Failed("depth", order)
         [] depth <= MaxDepth /\ IsReference(v) ->
                IF HasFailed(target) THEN target
                ELSE ResolveValue(Merge(target.value, v.object), root, base, depth + 1, target.order)
         [] depth <= MaxDepth /\ ~IsReference(v) /\ IsObject(v) ->
                within(walk(v.object, SetToSortSeq(DOMAIN v.object, <)), "object")
         [] depth <= MaxDepth /\ "array" \in DOMAIN v ->
                within(walk(v.array, [i \in DOMAIN v.array |-> i]), "array")
         [] OTHER -> Done(v, order)

-----------------------------------------------------------------------------
(* The resolver *)

\* new and with_external_cache_limit, which takes zero for one.
ResolverInit(limits) ==
    /\ limit \in {IF n = 0 THEN 1 ELSE n : n \in limits}
    /\ cacheOrder = <<>>
    /\ calls = 0
    /\ asked = "none"
    /\ outcome = [value |-> [leaf |-> 0], order |-> <<>>]

\* resolve: the document itself is read past the cache and the allowed roots.
Resolve(path) ==
    /\ calls < MaxCalls
    /\ calls' = calls + 1
    /\ asked' = path
    /\ outcome' = IF Loads(path)
                  THEN ResolveValue(Tree[path].content, Tree[path].content, Tree[path].directory, 0, cacheOrder)
                  ELSE Failed("parse", cacheOrder)
    /\ cacheOrder' = outcome'.order
    /\ UNCHANGED limit

ResolverNext == \E path \in DOMAIN Tree : Resolve(path)
ResolverFinished == calls = MaxCalls /\ UNCHANGED resolverVars

-----------------------------------------------------------------------------
(* What a resolved document should be: each value is read where it stands, *)
(* with the file it stands in, and a reference is followed when what is    *)
(* behind it is looked at.                                                 *)

Standing(file, value) == [file |-> file, value |-> value]
Parts(v) == CASE IsObject(v) -> v.object [] "array" \in DOMAIN v -> v.array [] OTHER -> <<>>

\* Where a reference points: at most one place.
Behind(file, ref) ==
    LET files == IF ref.file = "" THEN {file}
                 ELSE {Lookup[p] : p \in {p \in DOMAIN Lookup :
                            /\ p = <<Tree[file].directory, ref.file>>
                            /\ Tree[Lookup[p]].allowed /\ Loads(Lookup[p])}}
    IN IF ref.form # "text" THEN {}
       ELSE UNION {{Standing(f, v) : v \in ResolvePointer(Tree[f].content, ref.pointer)} : f \in files}

RECURSIVE Seen(_, _)

\* What is seen at a place, a leaf or an array or object of places, and how many of n
\* steps are left; nothing if a reference leads nowhere or the steps do not suffice.
Seen(place, n) ==
    LET v == place.value
        here(parts) == [k \in DOMAIN parts |-> Standing(place.file, parts[k])]
    IN CASE IsReference(v) ->
                IF n = 0 THEN {}
                ELSE UNION {{[s EXCEPT !.seen = Merge(s.seen, here(v.object))] : s \in Seen(p, n - 1)} :
                            p \in Behind(place.file, v.ref)}
         [] ~IsReference(v) /\ IsObject(v) -> {[left |-> n, seen |-> [object |-> here(v.object)]]}
         [] "array" \in DOMAIN v           -> {[left |-> n, seen |-> [array |-> here(v.array)]]}
         [] OTHER                          -> {[left |-> n, seen |-> v]}

RECURSIVE Reads(_, _), Whole(_, _)

\* A value without references reads as what is seen at a place, all the way down.
Reads(v, place) ==
    \E s \in {found.seen : found \in Seen(place, MaxDepth)} :
        /\ DOMAIN v = DOMAIN s
        /\ "leaf" \in DOMAIN s => v = s
        /\ DOMAIN Parts(v) = DOMAIN Parts(s)
        /\ \A k \in DOMAIN Parts(s) : Reads(Parts(v)[k], Parts(s)[k])

\* All that is at a place and below it can be seen in n steps, along references and down.
Whole(place, n) ==
    /\ n >= 0
    /\ \E s \in Seen(place, n) : \A p \in Range(Parts(s.seen)) : Whole(p, s.left - 1)

\* resolve returns the document with every reference replaced by what it names in its
\* own file and directory, whatever earlier calls left in the cache, and the cache keeps
\* its bound; it fails only for a reference that leads nowhere it may, or too deep or
\* round in a circle, and never returns a document in part.
ResolvedAsWritten ==
    /\ Len(cacheOrder) <= limit
    /\ \A i, j \in DOMAIN cacheOrder : i # j => cacheOrder[i] # cacheOrder[j]
    /\ calls > 0 /\ Loads(asked) =>
          LET place == Standing(asked, Tree[asked].content) IN
          /\ ~HasFailed(outcome) => Reads(outcome.value, place)
          /\ HasFailed(outcome) => ~Whole(place, MaxDepth)

=============================================================================
