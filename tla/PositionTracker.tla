--------------------------- MODULE PositionTracker ---------------------------
(***************************************************************************)
(* The position table of the Postgres store: SetDeviceLocation (with the  *)
(* PurgePosition it starts with), PurgePosition, GetPositions and         *)
(* GcDatabase in src/unnamed/part_001.  Each SQL statement is one atomic  *)
(* step; SetDeviceLocation is two (purge, insert) and concurrent requests *)
(* interleave between them.                                               *)
(*                                                                         *)
(* Data abstraction: a position (latitude, longitude, altitude, accuracy, *)
(* each cut to float32) is one model value; dbNow and now() are one       *)
(* bounded clock; defExpry is Expiry ticks; position ids are serial and   *)
(* an insert once MaxInserts ids are used takes the insert's error path.  *)
(***************************************************************************)
EXTENDS Naturals, FiniteSets

CONSTANTS Devices,     \* device ids
          Coords,      \* reported positions
          Workers,     \* concurrent request handlers
          MaxTime,     \* bound on the clock
          Expiry,      \* db.default_expry, in clock ticks
          MaxInserts,  \* bound on position ids
          Faults,      \* statements that may fail in this model:
                       \*   "purge" (PurgePosition on its own), "insert",
                       \*   "gc" (returned)
          None

ASSUME Faults \subseteq {"purge", "insert", "gc"}

VARIABLES position,   \* the position table: a set of [id, dev, time, coord]
          nextId,     \* the next position id
          now,        \* the database clock
          worker,     \* per-request state of SetDeviceLocation
          latest,     \* history: latest[d], the position of the last
                      \* SetDeviceLocation of d that returned nil (None
                      \* after a PurgePosition of d)
          lastRead,   \* history: lastRead[d], what the last GetPositions of
                      \* d returned (got) and latest[d] at that moment (want)
          purged      \* history: purged[w], the rows the purge of worker w's
                      \* SetDeviceLocation deleted

vars == <<position, nextId, now, worker, latest, lastRead, purged>>

Ids == 1..MaxInserts

Row == [id : Ids, dev : Devices, time : 0..MaxTime, coord : Coords]

WorkerState == [pc : {"idle"}] \cup [pc : {"insert"}, dev : Devices, coord : Coords]

Idle == [pc |-> "idle"]

TypeOK == /\ position \subseteq Row
          /\ nextId \in 1..MaxInserts + 1
          /\ \A r, q \in position : r.id = q.id => r = q
          /\ now \in 0..MaxTime
          /\ worker \in [Workers -> WorkerState]
          /\ latest \in [Devices -> Coords \cup {None}]
          /\ lastRead \in [Devices -> [got : Coords \cup {None},
                                       want : Coords \cup {None}] \cup {None}]
          /\ purged \in [Workers -> SUBSET Row]

Init == /\ position = {}
        /\ nextId = 1
        /\ now = 0
        /\ worker = [w \in Workers |-> Idle]
        /\ latest = [d \in Devices |-> None]
        /\ lastRead = [d \in Devices |-> None]
        /\ purged = [w \in Workers |-> {}]

(***************************************************************************)
(* Faulty variants of definitions below, each a slip the code could make.  *)
(***************************************************************************)
PurgedNothing(d) == position

PurgedOlder(d) == {r \in position : r.dev # d \/ r.time >= now}

StaleAtEdge(r) == r.time + Expiry <= now

(* PurgePosition: delete from position where deviceid = $1 *)
Purged(d) == {r \in position : r.dev # d}

(* GetPositions: where deviceid = $1 order by time limit 1 *)
FirstPosition(d) == {r \in position : r.dev = d /\
                       \A q \in position : q.dev = d => r.time <= q.time}

(* GcDatabase: time < (now() - interval 'defExpry seconds') *)
Stale(r) == r.time + Expiry < now

(***************************************************************************)
(* SetDeviceLocation, first statement: PurgePosition(devId).  Its error  *)
(* is dropped and the request goes on to the insert either way; that     *)
(* failure is not injected here (README, "Not modelled").                *)
(***************************************************************************)
SetDeviceLocationPurge(w, d, p) ==
    /\ worker[w].pc = "idle"
    /\ position' = Purged(d)
    /\ worker' = [worker EXCEPT ![w] = [pc |-> "insert", dev |-> d, coord |-> p]]
    /\ purged' = [purged EXCEPT ![w] = position \ position']
    /\ UNCHANGED <<nextId, now, latest, lastRead>>

SetDeviceLocationInsertSameId(w) ==
    LET s == worker[w] IN
    /\ s.pc = "insert"
    /\ \/ /\ "insert" \in Faults \/ nextId > MaxInserts
          /\ UNCHANGED <<position, nextId, latest>>
       \/ /\ nextId <= MaxInserts
          /\ position' = position \cup {[id |-> 1, dev |-> s.dev,
                                         time |-> now, coord |-> s.coord]}
          /\ nextId' = nextId + 1
          /\ latest' = [latest EXCEPT ![s.dev] = s.coord]
    /\ worker' = [worker EXCEPT ![w] = Idle]
    /\ UNCHANGED <<now, lastRead, purged>>

(***************************************************************************)
(* SetDeviceLocation, second statement: prepare and insert the new row.   *)
(* A failed prepare (nil statement) or exec ends the request with no row. *)
(***************************************************************************)
SetDeviceLocationInsert(w) ==
    LET s == worker[w] IN
    /\ s.pc = "insert"
    /\ \/ /\ "insert" \in Faults \/ nextId > MaxInserts
          /\ UNCHANGED <<position, nextId, latest>>
       \/ /\ nextId <= MaxInserts
          /\ position' = position \cup {[id |-> nextId, dev |-> s.dev,
                                         time |-> now, coord |-> s.coord]}
          /\ nextId' = nextId + 1
          /\ latest' = [latest EXCEPT ![s.dev] = s.coord]
    /\ worker' = [worker EXCEPT ![w] = Idle]
    /\ UNCHANGED <<now, lastRead, purged>>

(* PurgePosition called on its own: one delete, its error returned. *)
PurgePosition(w, d) ==
    /\ worker[w].pc = "idle"
    /\ \/ /\ position' = Purged(d)
          /\ latest' = [latest EXCEPT ![d] = None]
       \/ "purge" \in Faults /\ UNCHANGED <<position, latest>>
    /\ UNCHANGED <<nextId, now, worker, lastRead, purged>>

(***************************************************************************)
(* GetPositions: one select.  On a query error rows is nil and the        *)
(* deferred rows.Close() panics: the request ends with no reply and no    *)
(* state changes, a stutter, so only the select's results are steps.     *)
(***************************************************************************)
GetPositions(w, d) ==
    /\ worker[w].pc = "idle"
    /\ \/ /\ FirstPosition(d) = {}
          /\ lastRead' = [lastRead EXCEPT ![d] = [got |-> None, want |-> latest[d]]]
       \/ \E r \in FirstPosition(d) :
             lastRead' = [lastRead EXCEPT ![d] = [got |-> r.coord, want |-> latest[d]]]
    /\ UNCHANGED <<position, nextId, now, worker, latest, purged>>

(* GcDatabase: one delete over all devices; its error is returned. *)
GcDatabase(w) ==
    /\ worker[w].pc = "idle"
    /\ \/ position' = {r \in position : ~Stale(r)}
       \/ "gc" \in Faults /\ UNCHANGED position
    /\ UNCHANGED <<nextId, now, worker, latest, lastRead, purged>>

Tick == /\ now < MaxTime
        /\ now' = now + 1
        /\ UNCHANGED <<position, nextId, worker, latest, lastRead, purged>>

Next == \/ \E w \in Workers :
              \/ \E d \in Devices, p \in Coords : SetDeviceLocationPurge(w, d, p)
              \/ SetDeviceLocationInsert(w)
              \/ \E d \in Devices : PurgePosition(w, d) \/ GetPositions(w, d)
              \/ GcDatabase(w)
        \/ Tick

Spec == Init /\ [][Next]_vars

-----------------------------------------------------------------------------
\* The rows of device d, as the properties read the table.
RowsOf(d) == {r \in position : r.dev = d}

(***************************************************************************)
(* Latest only (spec 3 and 4.6): at most one position row per device.     *)
(* Concerns the purge-then-insert of SetDeviceLocation.                   *)
(***************************************************************************)
AtMostOnePosition == \A d \in Devices : Cardinality(RowsOf(d)) <= 1

(***************************************************************************)
(* GetPositions never returns a position older than the device's latest   *)
(* successful report: it returns that one or nothing.  Concerns the       *)
(* purge of SetDeviceLocation together with the ascending "order by time  *)
(* limit 1" of GetPositions.                                               *)
(***************************************************************************)
NoStalePosition ==
    \A d \in Devices : lastRead[d] # None =>
        lastRead[d].got \in {None, lastRead[d].want}

-----------------------------------------------------------------------------
(***************************************************************************)
(* Refinement mapping onto PositionSpec.  While a SetDeviceLocation of d  *)
(* is between its purge and its insert, d's kept position is still the    *)
(* row the purge deleted: the report takes effect, as one step, at the    *)
(* insert (a Report when it succeeds, a Forget when it fails).            *)
(***************************************************************************)
InFlight(d) == {w \in Workers : worker[w].pc = "insert" /\ worker[w].dev = d}

KeptRows(d) == IF InFlight(d) = {} THEN RowsOf(d)
               ELSE UNION {purged[w] : w \in InFlight(d)}

Kept(d) == IF KeptRows(d) = {} THEN None
           ELSE LET r == CHOOSE r \in KeptRows(d) : TRUE
                IN [coord |-> r.coord, time |-> r.time]

Seen(d) == IF lastRead[d] = None THEN None ELSE lastRead[d].got

Abstract == INSTANCE PositionSpec WITH kept <- [d \in Devices |-> Kept(d)],
                                       clock <- now,
                                       seen <- [d \in Devices |-> Seen(d)]

(***************************************************************************)
(* The position store implements PositionSpec: SetDeviceLocation's purge  *)
(* and insert together replace (or, failing, forget) the one position,    *)
(* GcDatabase's "time < now() - interval" forgets exactly the positions   *)
(* past the window and no fresh one, PurgePosition forgets, and           *)
(* GetPositions returns the kept position.                                *)
(***************************************************************************)
PositionSpecRefined == Abstract!Spec

=============================================================================
