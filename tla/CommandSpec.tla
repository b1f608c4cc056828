----------------------------- MODULE CommandSpec -----------------------------
(***************************************************************************)
(* What the command queue promises (spec 3 and 4.5): at most one pending  *)
(* command per (device, type); storing replaces payload and enqueue time; *)
(* a pop hands out the device's oldest pending command and removes it;    *)
(* a purge drops all of a device's commands.                              *)
(***************************************************************************)
EXTENDS Naturals

CONSTANTS Devices, Types, Cmds, MaxTime, None

VARIABLES queue,    \* queue[<<d, t>>]: [cmd, time] or None
          clock,    \* the time stamps come from
          out       \* out[d]: the last [type, cmd] handed to device d

vars == <<queue, clock, out>>

Entry == [cmd : Cmds, time : 0..MaxTime]

Init == /\ queue = [k \in Devices \X Types |-> None]
        /\ clock = 0
        /\ out = [d \in Devices |-> None]

Store(d, t, c) == /\ queue' = [queue EXCEPT ![<<d, t>>] = [cmd |-> c, time |-> clock]]
                  /\ UNCHANGED <<clock, out>>

\* The keys of device d's pending commands, and the oldest among them.
Held(d) == {k \in {d} \X Types : queue[k] # None}
Oldest(d) == {k \in Held(d) : \A j \in Held(d) : queue[k].time <= queue[j].time}

Pop(d) == \E k \in Oldest(d) :
            /\ queue' = [queue EXCEPT ![k] = None]
            /\ out' = [out EXCEPT ![d] = [type |-> k[2], cmd |-> queue[k].cmd]]
            /\ UNCHANGED clock

Purge(d) == /\ queue' = [k \in DOMAIN queue |-> IF k[1] = d THEN None ELSE queue[k]]
            /\ UNCHANGED <<clock, out>>

Tick == /\ clock < MaxTime
        /\ clock' = clock + 1
        /\ UNCHANGED <<queue, out>>

Next == \/ \E d \in Devices, t \in Types, c \in Cmds : Store(d, t, c)
        \/ \E d \in Devices : Pop(d) \/ Purge(d)
        \/ Tick

Spec == Init /\ [][Next]_vars
=============================================================================
