------------------------------ MODULE MCServer ------------------------------
(***************************************************************************)
(* The two ways the SDK runs a server, for TLC: in the process of its      *)
(* owner (Server) or in a process of its own (ProcessServer).  A behaviour *)
(* is about one of them; the other one is never started.                   *)
(***************************************************************************)
EXTENDS Server, MCProcess

VARIABLE mode      \* "embedded" or "process", for a whole behaviour

modeVars == <<vars, processVars, mode>>

MCScenario == [c \in Conn |-> "events"]

\* No name, and a name that the server will mint unless clients are first to choose it.
MCNames == {Unnamed, Minted(0)}

ModeInit ==
    /\ mode \in {"embedded", "process"}
    /\ Init
    /\ ProcessInit
    /\ mode = "embedded" => config = Plain /\ foreign = {}

ModeNext ==
    \/ mode = "embedded" /\ Next /\ UNCHANGED <<processVars, mode>>
    \/ mode = "process" /\ ProcessNext /\ UNCHANGED <<vars, mode>>

ModeSpec == ModeInit /\ [][ModeNext]_modeVars /\ Fairness /\ ProcessFairness

=============================================================================
