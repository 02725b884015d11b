----------------------------- MODULE DurableSet -----------------------------
(***************************************************************************)
(* What vextor's database promises its client about durability, with       *)
(* segments, files and the registry abstracted away: a set of entries in   *)
(* memory, and the set of entries that a load() would bring back.          *)
(*                                                                         *)
(*   - an entry becomes durable when the segment that holds it is sealed   *)
(*     by a later insert, or when save() returns (docs/PRD.md:146,148);    *)
(*   - a process that ends, cleanly or not, loses the entries that are not *)
(*     durable and no other;                                               *)
(*   - the durable set never loses an entry.                               *)
(***************************************************************************)

CONSTANT Entry        \* what the client inserts: a user id with its vector

VARIABLES
    up,               \* TRUE while a process has the database open
    live,             \* the entries the open database holds
    durable           \* the entries a load() would return

vars == <<up, live, durable>>

Init ==
    /\ up = FALSE
    /\ live = {}
    /\ durable = {}

Open ==
    /\ ~up
    /\ up' = TRUE
    /\ live' = durable
    /\ UNCHANGED durable

Insert(e) ==
    /\ up
    /\ live' = live \cup {e}
    /\ UNCHANGED <<up, durable>>

\* The insert that finds the active segment full: what was live becomes
\* durable, the new entry is only live.
InsertSealing(e) ==
    /\ up
    /\ durable' = live
    /\ live' = live \cup {e}
    /\ UNCHANGED up

Save ==
    /\ up
    /\ durable' = live
    /\ UNCHANGED <<up, live>>

Close ==
    /\ up
    /\ up' = FALSE
    /\ live' = {}
    /\ UNCHANGED durable

Next ==
    \/ Open
    \/ Save
    \/ Close
    \/ \E e \in Entry : Insert(e) \/ InsertSealing(e)

Spec == Init /\ [][Next]_vars

=============================================================================
