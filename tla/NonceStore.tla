----------------------------- MODULE NonceStore -----------------------------
(***************************************************************************)
(* The nonce handler of the Postgres store (pgStore.genSig, GetNonce and   *)
(* CheckNonce in src/unnamed/part_001).  Every SQL statement runs in its   *)
(* own implicit transaction, so a CheckNonce request is a sequence of      *)
(* atomic steps -- purge, select, delete -- and steps of concurrent        *)
(* requests interleave between them.                                       *)
(*                                                                         *)
(* Data abstraction: UUIDs are model values, never repeated (GenUUID4);    *)
(* genSig, hex(md5(key "." val)), is an injective tuple; a nonce string    *)
(* "key.sig" is the record [key, sig] and a string with no "." is          *)
(* Malformed.  The clock is current_timestamp in units of the purge        *)
(* window's granularity.                                                   *)
(***************************************************************************)
EXTENDS Naturals, FiniteSets

CONSTANTS Keys,       \* UUIDs GenUUID4 can return as a nonce key
          Vals,       \* UUIDs GenUUID4 can return as a nonce value
          Workers,    \* request handlers that may run CheckNonce at once
          Window,     \* the purge interval, '5 minutes', in clock ticks
          MaxTime,    \* bound on the clock
          Faults,     \* statements whose failure this model admits:
                      \*   "select" (error returned by the code)
          Malformed,  \* a nonce string without a "."
          None        \* no value

ASSUME Faults \subseteq {"select"}

VARIABLES nonce,      \* the nonce table: a set of [key, val, time] rows
          now,        \* current_timestamp
          used,       \* UUIDs handed out so far
          worker,     \* per-request state of CheckNonce
          issued,     \* history: the [key, val, time] of every GetNonce
          accepts     \* history: how often each nonce string was accepted,
                      \* saturating at 2 ("more than once")

vars == <<nonce, now, used, worker, issued, accepts>>

\* genSig: the md5 checksum over key "." val, taken as collision free.
genSig(key, val) == <<key, val>>

Sigs == {genSig(k, v) : k \in Keys, v \in Vals}

\* The strings GetNonce returns have this shape; a caller may present any.
NonceStrings == [key : Keys, sig : Sigs]

Inputs == NonceStrings \cup {Malformed}

Row == [key : Keys, val : Vals, time : 0..MaxTime]

WorkerState == [pc : {"idle", "select", "delete"}, in : Inputs \cup {None},
                start : 0..MaxTime, val : Vals \cup {None}]

Idle == [pc |-> "idle", in |-> None, start |-> 0, val |-> None]

TypeOK == /\ nonce \subseteq Row
          /\ now \in 0..MaxTime
          /\ used \subseteq Keys \cup Vals
          /\ worker \in [Workers -> WorkerState]
          /\ issued \subseteq Row
          /\ accepts \in [NonceStrings -> 0..2]
          /\ \A r, q \in nonce : r.key = q.key => r = q

Init == /\ nonce = {}
        /\ now = 0
        /\ used = {}
        /\ worker = [w \in Workers |-> Idle]
        /\ issued = {}
        /\ accepts = [n \in NonceStrings |-> 0]

(***************************************************************************)
(* Faulty variants of definitions below, each a slip the code could make.  *)
(***************************************************************************)
ExpiredLate(r) == r.time + Window + 1 < now

KeptAll(key) == nonce

\* GenUUID4's error ignored: the key may be one already handed out.
GetNonceAnyKey(key, val) ==
    /\ val \notin used
    /\ used' = used \cup {key, val}
    /\ nonce' = nonce \cup {[key |-> key, val |-> val, time |-> now]}
    /\ issued' = issued \cup {[key |-> key, val |-> val, time |-> now]}
    /\ UNCHANGED <<now, worker, accepts>>

(***************************************************************************)
(* GetNonce: two fresh UUIDs, one insert, return key "." genSig(key,val).  *)
(* A failed insert returns an error and changes nothing, a stutter.        *)
(***************************************************************************)
GetNonce(key, val) ==
    /\ key \notin used
    /\ val \notin used
    /\ used' = used \cup {key, val}
    /\ nonce' = nonce \cup {[key |-> key, val |-> val, time |-> now]}
    /\ issued' = issued \cup {[key |-> key, val |-> val, time |-> now]}
    /\ UNCHANGED <<now, worker, accepts>>

\* The purge predicate: time < current_timestamp - interval '5 minutes'.
Expired(r) == r.time + Window < now

\* delete from nonce where key = $1
Consumed(key) == {r \in nonce : r.key # key}

\* The comparison of the recomputed checksum with the presented one.
SigMatches(key, val, sig) == genSig(key, val) = sig

(***************************************************************************)
(* CheckNonce, first step: the purge (its error is ignored), then the     *)
(* split on "."; a string without one returns false at once.               *)
(***************************************************************************)
CheckNonceStart(w, n) ==
    /\ worker[w].pc = "idle"
    /\ nonce' = {r \in nonce : ~Expired(r)}
    /\ worker' = [worker EXCEPT ![w] =
                    IF n = Malformed THEN Idle
                    ELSE [pc |-> "select", in |-> n, start |-> now, val |-> None]]
    /\ UNCHANGED <<now, used, issued, accepts>>

(***************************************************************************)
(* Second step: select val from nonce where key = $1 limit 1.  A query or *)
(* scan error returns (false, err); no row returns (false, nil).           *)
(***************************************************************************)
CheckNonceSelect(w) ==
    LET rows == {r \in nonce : r.key = worker[w].in.key} IN
    /\ worker[w].pc = "select"
    /\ \/ "select" \in Faults /\ worker' = [worker EXCEPT ![w] = Idle]
       \/ rows = {} /\ worker' = [worker EXCEPT ![w] = Idle]
       \/ \E r \in rows :
             worker' = [worker EXCEPT ![w].pc = "delete", ![w].val = r.val]
    /\ UNCHANGED <<nonce, now, used, issued, accepts>>

(***************************************************************************)
(* Third step: delete the row (error ignored), then return whether the    *)
(* recomputed checksum equals the presented one.                           *)
(***************************************************************************)
CheckNonceDelete(w) ==
    LET n == worker[w].in IN
    /\ worker[w].pc = "delete"
    /\ nonce' = Consumed(n.key)
    /\ accepts' = IF SigMatches(n.key, worker[w].val, n.sig)
                  THEN [accepts EXCEPT ![n] = IF @ < 2 THEN @ + 1 ELSE 2]
                  ELSE accepts
    /\ worker' = [worker EXCEPT ![w] = Idle]
    /\ UNCHANGED <<now, used, issued>>

Tick == /\ now < MaxTime
        /\ now' = now + 1
        /\ UNCHANGED <<nonce, used, worker, issued, accepts>>

Next == \/ \E k \in Keys, v \in Vals : GetNonce(k, v)
        \/ \E w \in Workers :
              \/ \E n \in Inputs : CheckNonceStart(w, n)
              \/ CheckNonceSelect(w)
              \/ CheckNonceDelete(w)
        \/ Tick

Spec == Init /\ [][Next]_vars

-----------------------------------------------------------------------------
(* The nonce strings GetNonce has returned. *)
IssuedStrings == {[key |-> i.key, sig |-> genSig(i.key, i.val)] : i \in issued}

(***************************************************************************)
(* Replay protection (spec 4.3): the store refines NonceSpec -- a nonce   *)
(* string is accepted by CheckNonce only if GetNonce returned it (a key  *)
(* with a forged checksum is refused), and at most once.  Concerns the    *)
(* checksum comparison and the select-then-delete sequence of CheckNonce. *)
(***************************************************************************)
Abstract == INSTANCE NonceSpec WITH Nonces <- NonceStrings,
                                    issued <- IssuedStrings,
                                    uses <- accepts

NonceSpecRefined == Abstract!Spec

(***************************************************************************)
(* A nonce that was more than the window old when CheckNonce began is     *)
(* never accepted by that request ("a nonce older than 5 minutes is       *)
(* rejected").  Concerns the purge that CheckNonce runs before its select.*)
(***************************************************************************)
IssueTime(key) == (CHOOSE i \in issued : i.key = key).time

AcceptsIn(w) == /\ worker[w].pc = "delete"
                /\ worker'[w].pc = "idle"
                /\ accepts'[worker[w].in] # accepts[worker[w].in]

NoExpiredAccept ==
    [][\A w \in Workers :
          AcceptsIn(w) => IssueTime(worker[w].in.key) + Window >= worker[w].start]_vars

(* Single use alone, for the runs that show how it is lost. *)
SingleUse == \A n \in NonceStrings : accepts[n] <= 1
=============================================================================
