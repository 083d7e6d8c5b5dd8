------------------------------ MODULE DurableMap ------------------------------
(***************************************************************************)
(* What the engine promises its callers: a map updated by atomic batches.  *)
(* A batch whose call returns Ok is part of the map for ever.  A batch     *)
(* whose call fails, or is cut short by a crash, may be left out or be     *)
(* part of the map, whole and at its place in the order of the calls; a    *)
(* reopening settles that, and may settle it differently from what the     *)
(* process saw before.                                                     *)
(***************************************************************************)
EXTENDS Integers, Sequences, FiniteSets

CONSTANT Keys

Batches == {b \in [Keys -> {"put", "del", "none"}] : \E k \in Keys : b[k] # "none"}

VARIABLES
    ops,     \* the batches handed to the map, in order
    acked,   \* those whose call returned Ok, by position
    up,      \* is the map open?
    view     \* while it is: for each key the batch whose value it has, 0 if absent

vars == <<ops, acked, up, view>>

last == Len(ops)

Latest(S) == CHOOSE n \in S : \A m \in S : m <= n

\* The map after exactly the batches of S.
Outcome(S) ==
    [k \in Keys |-> LET T == {n \in S : ops[n][k] # "none"}
                    IN IF T = {} \/ ops[Latest(T)][k] = "del" THEN 0 ELSE Latest(T)]

\* The map once the last batch is applied to what it shows.
Applied ==
    [k \in Keys |-> CASE ops[last][k] = "none" -> view[k]
                      [] ops[last][k] = "del"  -> 0
                      [] ops[last][k] = "put"  -> last]

Nothing == [k \in Keys |-> 0]

Init == ops = <<>> /\ acked = {} /\ up = FALSE /\ view = Nothing

Submit ==
    /\ up
    /\ \E b \in Batches : ops' = Append(ops, b)
    /\ UNCHANGED <<acked, up, view>>

\* The batch shows, and its call may return Ok at once or later.
Show ==
    /\ up /\ last > 0
    /\ view' = Applied
    /\ acked' = acked \/ acked' = acked \cup {last}
    /\ UNCHANGED <<ops, up>>

\* Only what shows is acknowledged.
Ack ==
    /\ up /\ last > 0 /\ view = Applied
    /\ acked' = acked \cup {last}
    /\ UNCHANGED <<ops, up, view>>

Down ==
    /\ up /\ up' = FALSE /\ view' = Nothing
    /\ UNCHANGED <<ops, acked>>

Reopen ==
    /\ ~up /\ up' = TRUE
    /\ \E S \in SUBSET (1 .. last) : acked \subseteq S /\ view' = Outcome(S)
    /\ UNCHANGED <<ops, acked>>

Next == Submit \/ Show \/ Ack \/ Down \/ Reopen

Spec == Init /\ [][Next]_vars
===============================================================================
