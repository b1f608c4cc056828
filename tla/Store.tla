------------------------------- MODULE Store -------------------------------
(***************************************************************************)
(* The pgStore of src/unnamed/part_001 as a process: Init (module Meta)   *)
(* runs when the process starts, and the command-queue methods (module    *)
(* CommandQueue) are served only after it returned nil (spec 7: a store   *)
(* in an inconsistent schema state must not serve).  The process may stop *)
(* at any step -- a crash, or the exit after Init panics -- and is        *)
(* started again: every request in flight ends there, the tables keep     *)
(* their rows.                                                             *)
(***************************************************************************)
EXTENDS CommandQueue

CONSTANTS Versions, DB_VERSION

VARIABLES meta, hasTable, proc, lastSet, lastGet

M == INSTANCE Meta

metaVars == <<meta, hasTable, proc, lastSet, lastGet>>

storeVars == <<vars, metaVars>>

StoreTypeOK == TypeOK /\ M!MetaTypeOK

StoreInit == Init /\ M!MetaInit

(* The process stops: the requests in flight end, no row changes. *)
Restart == /\ M!Stop
           /\ worker' = [w \in Workers |-> Idle]
           /\ UNCHANGED <<pending, nextId, now, lastExchange, owed, out>>

StoreNext == \/ M!MetaStep /\ UNCHANGED vars
             \/ proc = "serving" /\ Next /\ UNCHANGED metaVars
             \/ Restart

StoreSpec == StoreInit /\ [][StoreNext]_storeVars

-----------------------------------------------------------------------------
(* The property of Meta, for the composed process. *)
SetMetaReadBack == M!SetMetaReadBack
=============================================================================
