---------------------------- MODULE CommandQueue ----------------------------
(***************************************************************************)
(* The pending-command table of the Postgres store: StoreCommand,         *)
(* GetPending (with the Touch it ends with) and PurgeCommands in          *)
(* src/unnamed/part_001.  Each SQL statement is one atomic step; a        *)
(* request that issues several statements is a worker moving through     *)
(* them, and workers interleave.  There is no transaction and no unique   *)
(* index on (deviceid, type): StoreCommand is update-then-insert keyed on *)
(* the affected row count, GetPending is select-then-delete by row id.    *)
(*                                                                         *)
(* Data abstraction: devices, types and payloads are model values; dbNow  *)
(* is a bounded clock; row ids are serial, and an insert once MaxInserts  *)
(* ids are used takes the insert's error path.  Touch is part of the step *)
(* that precedes it (it only writes lastExchange).                        *)
(***************************************************************************)
EXTENDS Naturals, FiniteSets

CONSTANTS Devices,     \* device ids
          Types,       \* command types
          Cmds,        \* command payloads
          Workers,     \* concurrent request handlers
          MaxTime,     \* bound on the clock
          MaxInserts,  \* bound on the serial row ids
          Faults,      \* statements that may fail in this model:
                       \*   "update", "insert" (error returned),
                       \*   "select" (error or nil-rows panic, request aborted),
                       \*   "purge" (error returned)
          None

ASSUME Faults \subseteq {"update", "insert", "select", "purge"}

VARIABLES pending,       \* pendingCommands: a set of [id, dev, type, cmd, time]
          nextId,        \* the next serial id
          now,           \* dbNow()
          lastExchange,  \* deviceInfo.lastExchange, as written by Touch
          worker,        \* per-request state
          owed,          \* history: [dev, type, cmd] a StoreCommand succeeded
                         \* with, not yet delivered, replaced or purged
          out            \* history: out[d], the last [type, cmd] GetPending
                         \* returned to device d

vars == <<pending, nextId, now, lastExchange, worker, owed, out>>

Ids == 1..MaxInserts

Row == [id : Ids, dev : Devices, type : Types, cmd : Cmds, time : 0..MaxTime]

Cmd == [dev : Devices, type : Types, cmd : Cmds]

WorkerState ==
    [pc : {"idle"}] \cup
    [pc : {"insert"}, dev : Devices, type : Types, cmd : Cmds] \cup
    [pc : {"delete"}, row : Row]

Idle == [pc |-> "idle"]

TypeOK == /\ pending \subseteq Row
          /\ nextId \in 1..MaxInserts + 1
          /\ now \in 0..MaxTime
          /\ lastExchange \in [Devices -> 0..MaxTime]
          /\ worker \in [Workers -> WorkerState]
          /\ owed \subseteq Cmd
          /\ \A r, q \in pending : r.id = q.id => r = q
          /\ \A r \in pending : r.id < nextId
          /\ out \in [Devices -> [type : Types, cmd : Cmds] \cup {None}]

Init == /\ pending = {}
        /\ nextId = 1
        /\ now = 0
        /\ lastExchange = [d \in Devices |-> 0]
        /\ worker = [w \in Workers |-> Idle]
        /\ owed = {}
        /\ out = [d \in Devices |-> None]

\* StoreCommand returned nil for (d, t, c): c is now what (d, t) is owed.
Owe(d, t, c) == {o \in owed : o.dev # d \/ o.type # t}
                    \cup {[dev |-> d, type |-> t, cmd |-> c]}

(***************************************************************************)
(* Faulty variants of definitions below, each a slip the code could make.  *)
(***************************************************************************)
KeyedByDevice(d, t) == {r \in pending : r.dev = d}

KeyedNone(d, t) == {}

NewestFirst(d) == {r \in pending : r.dev = d /\
                     \A s \in pending : s.dev = d => s.time <= r.time}

(* where deviceid = $3 and type = $4 *)
Keyed(d, t) == {r \in pending : r.dev = d /\ r.type = t}

(* where deviceId = $1 order by time limit 1 (ties in any order) *)
OldestOf(d) == {r \in pending : r.dev = d /\
                  \A s \in pending : s.dev = d => r.time <= s.time}

(* Touch: update deviceInfo set lastexchange = now() where deviceid = $1 *)
Touched(d) == [lastExchange EXCEPT ![d] = now]

(* delete from pendingCommands where id = $1 *)
DeletedRow(id) == {r \in pending : r.id # id}

(***************************************************************************)
(* StoreCommand, first statement: update time and cmd of the (devId,      *)
(* cType) rows.  An error is returned; a non-zero count returns nil; a    *)
(* zero count goes on to the insert.                                      *)
(***************************************************************************)
StoreCommandUpdate(w, d, c, t) ==
    LET hits == Keyed(d, t) IN
    /\ worker[w].pc = "idle"
    /\ \/ /\ "update" \in Faults
          /\ UNCHANGED <<pending, owed, worker>>
       \/ /\ hits # {}
          /\ pending' = (pending \ hits) \cup
                          {[r EXCEPT !.time = now, !.cmd = c] : r \in hits}
          /\ owed' = Owe(d, t, c)
          /\ UNCHANGED worker
       \/ /\ hits = {}
          /\ worker' = [worker EXCEPT ![w] =
                          [pc |-> "insert", dev |-> d, type |-> t, cmd |-> c]]
          /\ UNCHANGED <<pending, owed>>
    /\ UNCHANGED <<nextId, now, lastExchange, out>>

StoreCommandInsertSameId(w) ==
    LET s == worker[w] IN
    /\ s.pc = "insert"
    /\ \/ /\ "insert" \in Faults \/ nextId > MaxInserts
          /\ UNCHANGED <<pending, nextId, owed>>
       \/ /\ nextId <= MaxInserts
          /\ pending' = pending \cup {[id |-> 1, dev |-> s.dev,
                              type |-> s.type, cmd |-> s.cmd, time |-> now]}
          /\ nextId' = nextId + 1
          /\ owed' = Owe(s.dev, s.type, s.cmd)
    /\ worker' = [worker EXCEPT ![w] = Idle]
    /\ UNCHANGED <<now, lastExchange, out>>

(* StoreCommand, second statement: insert a row; an error is returned. *)
StoreCommandInsert(w) ==
    LET s == worker[w] IN
    /\ s.pc = "insert"
    /\ \/ /\ "insert" \in Faults \/ nextId > MaxInserts
          /\ UNCHANGED <<pending, nextId, owed>>
       \/ /\ nextId <= MaxInserts
          /\ pending' = pending \cup {[id |-> nextId, dev |-> s.dev,
                              type |-> s.type, cmd |-> s.cmd, time |-> now]}
          /\ nextId' = nextId + 1
          /\ owed' = Owe(s.dev, s.type, s.cmd)
    /\ worker' = [worker EXCEPT ![w] = Idle]
    /\ UNCHANGED <<now, lastExchange, out>>

(***************************************************************************)
(* GetPending, first statement: select the oldest row of the device.  A   *)
(* failed query or scan ends the request; no row touches the device and   *)
(* returns an empty command.                                               *)
(***************************************************************************)
GetPendingSelect(w, d) ==
    /\ worker[w].pc = "idle"
    /\ \/ /\ "select" \in Faults
          /\ UNCHANGED <<worker, lastExchange>>
       \/ /\ OldestOf(d) = {}
          /\ lastExchange' = Touched(d)
          /\ UNCHANGED worker
       \/ \E r \in OldestOf(d) :
             /\ worker' = [worker EXCEPT ![w] = [pc |-> "delete", row |-> r]]
             /\ UNCHANGED lastExchange
    /\ UNCHANGED <<pending, nextId, now, owed, out>>

(***************************************************************************)
(* GetPending, second statement: delete the row by id (error ignored),    *)
(* Touch the device, and return the command and type read by the select. *)
(***************************************************************************)
GetPendingDelete(w) ==
    LET r == worker[w].row IN
    /\ worker[w].pc = "delete"
    /\ pending' = DeletedRow(r.id)
    /\ lastExchange' = Touched(r.dev)
    /\ owed' = owed \ {[dev |-> r.dev, type |-> r.type, cmd |-> r.cmd]}
    /\ out' = [out EXCEPT ![r.dev] = [type |-> r.type, cmd |-> r.cmd]]
    /\ worker' = [worker EXCEPT ![w] = Idle]
    /\ UNCHANGED <<nextId, now>>

(* PurgeCommands: delete every row of the device; an error is returned. *)
PurgeCommands(w, d) ==
    /\ worker[w].pc = "idle"
    /\ \/ /\ pending' = {r \in pending : r.dev # d}
          /\ owed' = {o \in owed : o.dev # d}
       \/ "purge" \in Faults /\ UNCHANGED <<pending, owed>>
    /\ UNCHANGED <<nextId, now, lastExchange, worker, out>>

Tick == /\ now < MaxTime
        /\ now' = now + 1
        /\ UNCHANGED <<pending, nextId, lastExchange, worker, owed, out>>

Next == \/ \E w \in Workers :
              \/ \E d \in Devices, c \in Cmds, t \in Types : StoreCommandUpdate(w, d, c, t)
              \/ StoreCommandInsert(w)
              \/ \E d \in Devices : GetPendingSelect(w, d) \/ PurgeCommands(w, d)
              \/ GetPendingDelete(w)
        \/ Tick

Spec == Init /\ [][Next]_vars

-----------------------------------------------------------------------------
\* The pending rows of a key, as the properties read the table.
RowsOf(d, t) == {r \in pending : r.dev = d /\ r.type = t}

(***************************************************************************)
(* At most one pending command per (device, type) (spec 3): a second      *)
(* StoreCommand for the key overwrites instead of adding a row.  Concerns *)
(* the update-then-insert of StoreCommand.                                 *)
(***************************************************************************)
AtMostOnePending == \A d \in Devices, t \in Types : Cardinality(RowsOf(d, t)) <= 1

(***************************************************************************)
(* No stored command is lost: once StoreCommand has returned nil for      *)
(* (d, t, c), a row (d, t, c) stays pending until c is delivered, another *)
(* store for (d, t) succeeds, or the device's commands are purged.        *)
(* Concerns StoreCommand's update racing GetPending's select and delete.  *)
(***************************************************************************)
NoLostCommand ==
    \A o \in owed : \E r \in pending :
        r.dev = o.dev /\ r.type = o.type /\ r.cmd = o.cmd

(***************************************************************************)
(* The table behaves as the abstract queue of CommandSpec: one entry per  *)
(* key, a store replaces payload and time, GetPending returns the oldest  *)
(* entry of the device.                                                    *)
(***************************************************************************)
QueueOf == [k \in Devices \X Types |->
              IF RowsOf(k[1], k[2]) = {} THEN None
              ELSE LET r == CHOOSE r \in RowsOf(k[1], k[2]) : TRUE
                   IN [cmd |-> r.cmd, time |-> r.time]]

Abstract == INSTANCE CommandSpec WITH queue <- QueueOf, clock <- now, out <- out

CommandSpecRefined == Abstract!Spec
=============================================================================
