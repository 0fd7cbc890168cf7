----------------------------- MODULE MCLoading -----------------------------
(***************************************************************************)
(* Loading what a server is started with, for TLC: a scenario sidecar, a   *)
(* document with references, or an OpenAPI document and one request to the *)
(* server loaded from it.  A behaviour loads one of them; the others are   *)
(* at rest.                                                                *)
(***************************************************************************)
EXTENDS MCSidecar, RefResolver, MCRefTree, MCContracts

VARIABLE kind      \* "sidecar", "references" or "document", for a whole behaviour

loadingVars == <<vars, resolverVars, documentVars, kind>>

MCEmpty == Doc(<<>>, <<>>)
SomeContract == CHOOSE c \in Shadowing : TRUE

LoadingInit ==
    \/ /\ kind = "sidecar"
       /\ Init /\ ResolverInit({1}) /\ DocumentInit({SomeContract})
    \/ /\ kind = "references"
       /\ doc = MCEmpty /\ Init /\ ResolverInit(MCLimits) /\ DocumentInit({SomeContract})
    \/ /\ kind = "document"
       /\ doc = MCEmpty /\ Init /\ ResolverInit({1}) /\ DocumentInit(Contracts)

SidecarStep == kind = "sidecar" /\ Next /\ UNCHANGED <<kind, resolverVars, documentVars>>
ResolverStep ==
    kind = "references" /\ (ResolverNext \/ ResolverFinished) /\ UNCHANGED <<kind, vars, documentVars>>
DocumentStep ==
    kind = "document" /\ (DocumentNext(MCDemands) \/ DocumentFinished) /\ UNCHANGED <<kind, vars, resolverVars>>

\* The search goes on once it was begun.
SearchStep == pc = "search" /\ SidecarStep

LoadingNext == SidecarStep \/ ResolverStep \/ DocumentStep

LoadingSpec == LoadingInit /\ [][LoadingNext]_loadingVars /\ WF_loadingVars(SearchStep)

=============================================================================
