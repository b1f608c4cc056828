----------------------------- MODULE PositionSpec -----------------------------
(***************************************************************************)
(* What the position store promises (spec 3, 4.6): a device has at most   *)
(* one kept position, the latest report; a report replaces it in one      *)
(* step, or, when it fails, leaves none; a purge forgets it; a gc forgets *)
(* exactly the positions older than the expiry window, a device's only   *)
(* one included ("independent of per-device latest-only pruning"); a read *)
(* returns the kept position.  The comments above GcDatabase say instead  *)
(* that the latest record is kept; the statement that did so is commented *)
(* out, and this module follows the spec and the live statement.          *)
(***************************************************************************)
EXTENDS Naturals

CONSTANTS Devices, Coords, MaxTime, Expiry, None

VARIABLES kept,   \* kept[d]: [coord, time] or None
          clock,  \* the time stamps come from
          seen    \* seen[d]: what the last read of d returned

vars == <<kept, clock, seen>>

Init == /\ kept = [d \in Devices |-> None]
        /\ clock = 0
        /\ seen = [d \in Devices |-> None]

Report(d, p) == /\ kept' = [kept EXCEPT ![d] = [coord |-> p, time |-> clock]]
                /\ UNCHANGED <<clock, seen>>

Forget(d) == /\ kept' = [kept EXCEPT ![d] = None]
             /\ UNCHANGED <<clock, seen>>

Expired(d) == kept[d] # None /\ kept[d].time + Expiry < clock

Expire == /\ kept' = [d \in Devices |-> IF Expired(d) THEN None ELSE kept[d]]
          /\ UNCHANGED <<clock, seen>>

Read(d) == /\ seen' = [seen EXCEPT ![d] = IF kept[d] = None THEN None
                                          ELSE kept[d].coord]
           /\ UNCHANGED <<kept, clock>>

Tick == /\ clock < MaxTime
        /\ clock' = clock + 1
        /\ UNCHANGED <<kept, seen>>

Next == \/ \E d \in Devices, p \in Coords : Report(d, p)
        \/ \E d \in Devices : Forget(d) \/ Read(d)
        \/ Expire
        \/ Tick

Spec == Init /\ [][Next]_vars
=============================================================================
