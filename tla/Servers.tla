-------------------------------- MODULE Servers --------------------------------
(***************************************************************************)
(* A server from its start (main.rs of crates/basemyai-rest and            *)
(* crates/basemyai-mcp): it provisions the model, while the other programs *)
(* of the user may do the same, loads it, opens the store, and serves.     *)
(***************************************************************************)
EXTENDS Serving

CONSTANTS
    Server,                             \* the program that is the server
    Programs, FILES, PIECES, Consent, NoFile    \* see Provision

ASSUME ServersAssumption ==
    /\ IsFiniteSet(Programs)
    /\ Server \in Programs /\ Consent \subseteq Programs
    /\ FILES \in Nat \ {0} /\ PIECES \in Nat \ {0} /\ NoFile \notin Nat

VARIABLES
    dest, tmp, content, config, pc, file, fd, done, raced,  \* see Provision
    up                                  \* the server serves

Cache == INSTANCE Provision

cacheVars == <<dest, tmp, content, config, pc, file, fd, done, raced>>
allVars   == <<vars, cacheVars, up>>

StartsOff == Init /\ Cache!Init /\ up = FALSE

\* The programs look for the model and fetch it.
Provisions ==
    /\ ~up /\ Cache!Next
    /\ UNCHANGED <<vars, up>>

\* Bound: serving is explored from one state of the cache; it reads none of it.
AtRest ==
    /\ \A p \in Programs \ {Server} : pc[p] = "off"
    /\ \A f \in 1 .. FILES : dest[f] = f /\ tmp[f] = NoFile
    /\ config = "saved" /\ raced = {}

\* run: the model is there, it is loaded, the store is open.  Where loading or
\* opening fails the program ends (End of Provision).
Comes ==
    /\ ~up /\ pc[Server] = "ready" /\ AtRest
    /\ up' = TRUE
    /\ UNCHANGED <<vars, cacheVars>>

Requested ==
    /\ up /\ Next
    /\ UNCHANGED <<cacheVars, up>>

AllNext == Provisions \/ Comes \/ Requested

AllSpec == StartsOff /\ [][AllNext]_allVars

(* A model file in its place is whole, so that its mere presence may be    *)
(* taken for a checked download, unless two programs wrote it at once; a   *)
(* program that was given the model finds all its files                    *)
(* (provision/embedder.rs); and a server that serves is one of those.      *)
CacheWhole == Cache!ProvisionedIsWhole /\ (up => Cache!model_present)
===============================================================================
