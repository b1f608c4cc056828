--------------------------- MODULE DeviceRegistry ---------------------------
(***************************************************************************)
(* The device tables of the Postgres store, deviceInfo and                *)
(* userToDeviceMap, with the operations of src/unnamed/part_001 that      *)
(* write them: RegisterDevice, GetDevicesForUser (its re-key), the        *)
(* lastExchange updates SetAccessToken, SetDeviceLock and Touch, and      *)
(* DeleteDevice; and GetDeviceInfo, whose answer a property reads.  Each  *)
(* SQL statement is one atomic step and requests interleave between them. *)
(*                                                                         *)
(* Data abstraction: users, devices and hawk secrets are model values;    *)
(* of the deviceInfo columns only hawkSecret and lastExchange are kept    *)
(* (lockable, accepts, pushUrl and accesstoken are written by the same    *)
(* statements and read by no property).  Neither table has a unique index *)
(* in the code, so rows carry a physical row id; an insert once MaxRows    *)
(* ids are used takes the insert's error path.  dbNow() and now() are one  *)
(* bounded clock.  A device id generated by GenUUID4 is one no row         *)
(* mentions, which a caller-supplied id of Devices already covers.         *)
(***************************************************************************)
EXTENDS Naturals, FiniteSets, Sequences

CONSTANTS Users,      \* user ids (FxA uids and old sha hashes alike)
          Devices,    \* device ids
          Secrets,    \* hawk secrets a device registers with
          Workers,    \* concurrent request handlers
          MaxTime,    \* bound on the clock
          MaxRows,    \* bound on the row ids of each table
          Faults,     \* statements that may fail in this model:
                      \*   "select" (Register goes on to insert), "update",
                      \*   "insert" (request ends), "delete" (DeleteDevice
                      \*   stops), "info" (GetDeviceInfo's query)
          None

ASSUME Faults \subseteq {"select", "update", "insert", "delete", "info"}

VARIABLES info,       \* deviceInfo: a set of [rid, dev, secret, seen]
          map,        \* userToDeviceMap: a set of [rid, user, dev, date]
          nextRow,    \* the next physical row id
          now,        \* the database clock
          worker,     \* per-request state
          lastReg,    \* history: lastReg[d], the request (user, device,
                      \* secret) of the last RegisterDevice of d that
                      \* returned no error (None once a DeleteDevice of d
                      \* has returned nil)
          lastRead,   \* history: what the last GetDeviceInfo (a secret)
                      \* or GetUserFromDevice (a user) returned (got), and
                      \* what lastReg of the device said then (want)
          raced       \* history: the workers whose RegisterDevice had
                      \* selected under a user id that a GetDevicesForUser
                      \* then re-keyed away

vars == <<info, map, nextRow, now, worker, lastReg, lastRead, raced>>

Ids == 1..MaxRows

InfoRow == [rid : Ids, dev : Devices, secret : Secrets, seen : 0..MaxTime]

MapRow == [rid : Ids, user : Users, dev : Devices, date : 0..MaxTime]

Req == [user : Users, dev : Devices, secret : Secrets]

WorkerState ==
    [pc : {"idle"}] \cup
    [pc : {"update", "insertInfo", "insertMap"}, req : Req] \cup
    [pc : {"delete"}, dev : Devices, step : 1..4]

Idle == [pc |-> "idle"]

TypeOK == /\ info \subseteq InfoRow
          /\ map \subseteq MapRow
          /\ nextRow \in [{"info", "map"} -> 1..MaxRows + 1]
          /\ now \in 0..MaxTime
          /\ worker \in [Workers -> WorkerState]
          /\ lastReg \in [Devices -> Req \cup {None}]
          /\ lastRead \in [of : {"secret", "user"}, got : Secrets \cup Users \cup {None},
                           want : Secrets \cup Users \cup {None}] \cup {None}
          /\ raced \subseteq Workers
          /\ \A r, q \in info : r.rid = q.rid => r = q
          /\ \A r, q \in map : r.rid = q.rid => r = q

Init == /\ info = {}
        /\ map = {}
        /\ nextRow = [t \in {"info", "map"} |-> 1]
        /\ now = 0
        /\ worker = [w \in Workers |-> Idle]
        /\ lastReg = [d \in Devices |-> None]
        /\ lastRead = None
        /\ raced = {}

(***************************************************************************)
(* Faulty variants of definitions below, each a slip the code could make.  *)
(***************************************************************************)
TablesInfoFirst == <<"pendingcommands", "position", "deviceinfo", "usertodevicemap">>

(* DeleteDevice's table list, in the order it deletes from them. *)
Tables == <<"pendingcommands", "position", "usertodevicemap", "deviceinfo">>

(* select deviceid from userToDeviceMap where userId = $1 and deviceid = $2 *)
OwnedBy(u, d) == {m \in map : m.user = u /\ m.dev = d}

(* update deviceInfo set ..., lastexchange = now() where deviceid = $1 *)
Refreshed(d) == {IF r.dev = d THEN [r EXCEPT !.seen = now] ELSE r : r \in info}

(* delete from <table> where deviceid = $1, for the two tables kept here *)
DeletedFrom(t, d) ==
    [info |-> IF t = "deviceinfo" THEN {r \in info : r.dev # d} ELSE info,
     map  |-> IF t = "usertodevicemap" THEN {m \in map : m.dev # d} ELSE map]

(***************************************************************************)
(* RegisterDevice, first statement: is the device the user's already?  A  *)
(* row found goes on to the update; no row, or a failed query (err is not *)
(* nil either way), goes on to the inserts.                                *)
(***************************************************************************)
RegisterDeviceSelect(w, u, d, s) ==
    LET req == [user |-> u, dev |-> d, secret |-> s] IN
    /\ worker[w].pc = "idle"
    /\ \/ /\ OwnedBy(u, d) # {}
          /\ worker' = [worker EXCEPT ![w] = [pc |-> "update", req |-> req]]
       \/ /\ OwnedBy(u, d) = {} \/ "select" \in Faults
          /\ worker' = [worker EXCEPT ![w] = [pc |-> "insertInfo", req |-> req]]
    /\ raced' = raced \ {w}
    /\ UNCHANGED <<info, map, nextRow, now, lastReg, lastRead>>

(***************************************************************************)
(* Update path: one update of every deviceInfo row of the device (the     *)
(* affected count is not read).  An error ends the request (the deferred  *)
(* Close of the nil rows panics); otherwise dev.ID is returned.            *)
(***************************************************************************)
RegisterDeviceUpdate(w) ==
    LET q == worker[w].req IN
    /\ worker[w].pc = "update"
    /\ \/ "update" \in Faults /\ UNCHANGED <<info, lastReg>>
       \/ /\ info' = {IF r.dev = q.dev THEN [r EXCEPT !.secret = q.secret, !.seen = now]
                      ELSE r : r \in info}
          /\ lastReg' = [lastReg EXCEPT ![q.dev] = q]
    /\ worker' = [worker EXCEPT ![w] = Idle]
    /\ UNCHANGED <<map, nextRow, now, lastRead, raced>>

RegisterDeviceInsertInfoSameId(w) ==
    LET q == worker[w].req IN
    /\ worker[w].pc = "insertInfo"
    /\ \/ /\ "insert" \in Faults \/ nextRow["info"] > MaxRows
          /\ worker' = [worker EXCEPT ![w] = Idle]
          /\ UNCHANGED <<info, nextRow>>
       \/ /\ nextRow["info"] <= MaxRows
          /\ info' = info \cup {[rid |-> 1, dev |-> q.dev,
                                 secret |-> q.secret, seen |-> now]}
          /\ nextRow' = [nextRow EXCEPT !["info"] = @ + 1]
          /\ worker' = [worker EXCEPT ![w].pc = "insertMap"]
    /\ UNCHANGED <<map, now, lastReg, lastRead, raced>>

(* Insert path, first statement: a new deviceInfo row; an error ends it. *)
RegisterDeviceInsertInfo(w) ==
    LET q == worker[w].req IN
    /\ worker[w].pc = "insertInfo"
    /\ \/ /\ "insert" \in Faults \/ nextRow["info"] > MaxRows
          /\ worker' = [worker EXCEPT ![w] = Idle]
          /\ UNCHANGED <<info, nextRow>>
       \/ /\ nextRow["info"] <= MaxRows
          /\ info' = info \cup {[rid |-> nextRow["info"], dev |-> q.dev,
                                 secret |-> q.secret, seen |-> now]}
          /\ nextRow' = [nextRow EXCEPT !["info"] = @ + 1]
          /\ worker' = [worker EXCEPT ![w].pc = "insertMap"]
    /\ UNCHANGED <<map, now, lastReg, lastRead, raced>>

(* Insert path, second statement: the mapping row; dev.ID is returned. *)
RegisterDeviceInsertMap(w) ==
    LET q == worker[w].req IN
    /\ worker[w].pc = "insertMap"
    /\ \/ /\ "insert" \in Faults \/ nextRow["map"] > MaxRows
          /\ UNCHANGED <<map, nextRow, lastReg>>
       \/ /\ nextRow["map"] <= MaxRows
          /\ map' = map \cup {[rid |-> nextRow["map"], user |-> q.user,
                               dev |-> q.dev, date |-> now]}
          /\ nextRow' = [nextRow EXCEPT !["map"] = @ + 1]
          /\ lastReg' = [lastReg EXCEPT ![q.dev] = q]
    /\ worker' = [worker EXCEPT ![w] = Idle]
    /\ UNCHANGED <<info, now, lastRead, raced>>

(***************************************************************************)
(* GetDevicesForUser(u, old) with old # "" and old # u: one update moves  *)
(* every mapping of old to u.  On an error the list is read under old and *)
(* no row changes; the list itself (a read) is not modelled.              *)
(***************************************************************************)
GetDevicesForUser(w, u, old) ==
    /\ worker[w].pc = "idle"
    /\ old # u
    /\ map' = {IF m.user = old THEN [m EXCEPT !.user = u] ELSE m : m \in map}
    /\ raced' = raced \cup {v \in Workers : /\ worker[v].pc \in {"insertInfo", "insertMap"}
                                            /\ worker[v].req.user = old}
    /\ lastReg' = [d \in Devices |-> IF lastReg[d] # None /\ lastReg[d].user = old
                                      THEN [lastReg[d] EXCEPT !.user = u] ELSE lastReg[d]]
    /\ UNCHANGED <<info, nextRow, now, worker, lastRead>>

(* SetAccessToken, SetDeviceLock and Touch: one update each, error returned. *)
SetAccessToken(w, d) ==
    /\ worker[w].pc = "idle"
    /\ info' = Refreshed(d)
    /\ UNCHANGED <<map, nextRow, now, worker, lastReg, lastRead, raced>>

SetDeviceLock(w, d) ==
    /\ worker[w].pc = "idle"
    /\ info' = Refreshed(d)
    /\ UNCHANGED <<map, nextRow, now, worker, lastReg, lastRead, raced>>

Touch(w, d) ==
    /\ worker[w].pc = "idle"
    /\ info' = Refreshed(d)
    /\ UNCHANGED <<map, nextRow, now, worker, lastReg, lastRead, raced>>

(***************************************************************************)
(* DeleteDevice: one delete per table of Tables, in order; the first      *)
(* error is returned and the later tables are left as they are.  The     *)
(* pendingcommands and position tables belong to CommandQueue and         *)
(* PositionTracker: their deletes are steps here that change no row of    *)
(* this module.                                                            *)
(***************************************************************************)
DeleteDeviceStep(w, d, i) ==
    /\ \/ /\ "delete" \in Faults
          /\ worker' = [worker EXCEPT ![w] = Idle]
          /\ UNCHANGED <<info, map, lastReg>>
       \/ LET after == DeletedFrom(Tables[i], d) IN
          /\ info' = after.info
          /\ map' = after.map
          /\ IF i = Len(Tables)
                THEN /\ worker' = [worker EXCEPT ![w] = Idle]
                     /\ lastReg' = [lastReg EXCEPT ![d] = None]
                ELSE /\ worker' = [worker EXCEPT ![w] = [pc |-> "delete", dev |-> d, step |-> i + 1]]
                     /\ UNCHANGED lastReg
    /\ UNCHANGED <<nextRow, now, lastRead, raced>>

DeleteDevice(w, d) == worker[w].pc = "idle" /\ DeleteDeviceStep(w, d, 1)

DeleteDeviceNext(w) == worker[w].pc = "delete" /\ DeleteDeviceStep(w, worker[w].dev, worker[w].step)

\* The secret and the user of d's last registration, None if there is none.
RegSecret(d) == IF lastReg[d] = None THEN None ELSE lastReg[d].secret

RegUser(d) == IF lastReg[d] = None THEN None ELSE lastReg[d].user

(***************************************************************************)
(* GetDeviceInfo: one select joining the device's mapping rows with its   *)
(* deviceInfo rows; QueryRow scans the first row of the join, in no       *)
(* order the query fixes.  No row is ErrUnknownDevice; a failed prepare   *)
(* or query is an error.  Either way no secret is returned.               *)
(***************************************************************************)
GetDeviceInfo(w, d) ==
    LET joined == {r \in info : r.dev = d /\ \E m \in map : m.dev = d} IN
    /\ worker[w].pc = "idle"
    /\ \/ /\ joined = {} \/ "info" \in Faults
          /\ lastRead' = [of |-> "secret", got |-> None, want |-> RegSecret(d)]
       \/ \E r \in joined :
             lastRead' = [of |-> "secret", got |-> r.secret, want |-> RegSecret(d)]
    /\ UNCHANGED <<info, map, nextRow, now, worker, lastReg, raced>>

(***************************************************************************)
(* GetUserFromDevice: select userId from userToDeviceMap where deviceId = *)
(* $1 limit 1 -- no order, so any mapping row of the device; none is      *)
(* ErrUnknownDevice.  A failed query leaves rows nil and the deferred     *)
(* Close panics: the request ends with no answer and changes nothing.     *)
(***************************************************************************)
GetUserFromDevice(w, d) ==
    /\ worker[w].pc = "idle"
    /\ \/ /\ ~\E m \in map : m.dev = d
          /\ lastRead' = [of |-> "user", got |-> None, want |-> RegUser(d)]
       \/ \E m \in map :
             /\ m.dev = d
             /\ lastRead' = [of |-> "user", got |-> m.user, want |-> RegUser(d)]
    /\ UNCHANGED <<info, map, nextRow, now, worker, lastReg, raced>>

Tick == /\ now < MaxTime
        /\ now' = now + 1
        /\ UNCHANGED <<info, map, nextRow, worker, lastReg, lastRead, raced>>

Next == \/ \E w \in Workers :
              \/ \E u \in Users, d \in Devices, s \in Secrets : RegisterDeviceSelect(w, u, d, s)
              \/ RegisterDeviceUpdate(w)
              \/ RegisterDeviceInsertInfo(w)
              \/ RegisterDeviceInsertMap(w)
              \/ \E u, old \in Users : GetDevicesForUser(w, u, old)
              \/ \E d \in Devices : \/ SetAccessToken(w, d)
                                    \/ SetDeviceLock(w, d)
                                    \/ Touch(w, d)
                                    \/ DeleteDevice(w, d)
                                    \/ GetDeviceInfo(w, d)
                                    \/ GetUserFromDevice(w, d)
              \/ DeleteDeviceNext(w)
        \/ Tick

Spec == Init /\ [][Next]_vars

-----------------------------------------------------------------------------
(***************************************************************************)
(* A device listed for a user can be looked up: every mapping row has a   *)
(* deviceInfo row of its device, so GetDeviceInfo of a device that        *)
(* GetDevicesForUser lists never answers ErrUnknownDevice.  Concerns the  *)
(* order of RegisterDevice's inserts and of DeleteDevice's tables, and    *)
(* where each stops on an error.                                          *)
(***************************************************************************)
MappedHasInfo == \A m \in map : \E r \in info : r.dev = m.dev

(***************************************************************************)
(* What the store answers about a device is what its last registration   *)
(* said, or that there is no such device: GetDeviceInfo returns the hawk  *)
(* secret it last registered with (spec 3: the secret changes only        *)
(* through re-registration), and GetUserFromDevice the user it last      *)
(* registered under (its owning user, spec 3).  Concerns RegisterDevice's *)
(* choice between updating and inserting rows, and the unordered          *)
(* single-row reads of GetDeviceInfo and GetUserFromDevice.               *)
(***************************************************************************)
RegistrationCurrent == lastRead # None => lastRead.got \in {None, lastRead.want}

(***************************************************************************)
(* A re-key is not undone by a RegisterDevice it raced with (spec 5:     *)
(* re-key and list are one logical transaction): a RegisterDevice that    *)
(* selected under a user id before a GetDevicesForUser moved that id's    *)
(* mappings away inserts no mapping under the old id afterwards.          *)
(* Concerns RegisterDevice's select-then-insert running beside the        *)
(* re-key update of GetDevicesForUser.                                    *)
(***************************************************************************)
NoResurrectedMapping ==
    [][\A w \in raced :
         worker[w].pc = "insertMap" =>
            ~\E m \in map' \ map : m.user = worker[w].req.user]_vars
=============================================================================
