-------------------------------- MODULE Meta --------------------------------
(***************************************************************************)
(* The meta table of the Postgres store and the methods that use it:      *)
(* Init (run when the store starts), markDb, getMeta and setMeta in       *)
(* src/unnamed/part_001.  The process may stop at any moment (a crash, or *)
(* the panic of Init) and is started again; the table keeps its rows.     *)
(*                                                                         *)
(* A statement runs only if the table and the columns it names exist; the *)
(* schema (the comment at the top of the file) gives meta the columns key *)
(* and value.  Versions are model values; the only key is "db.ver".       *)
(* Init's statements run before the process serves anything, so Init is   *)
(* one step.                                                               *)
(***************************************************************************)
EXTENDS FiniteSets

CONSTANTS Versions,     \* version strings a db.ver row may hold
          DB_VERSION,   \* the version this build expects
          None

ASSUME DB_VERSION \in Versions

VARIABLES meta,      \* the meta table: a set of [key, value] rows
          hasTable,  \* whether the meta table exists (sql/create_db.sql ran)
          proc,      \* the process: "down", "serving" or "panicked"
          lastSet,   \* history: key, value and outcome of the last setMeta
          lastGet    \* history: what the last getMeta returned (got) and
                     \* the value a successful setMeta of that key last
                     \* wrote (want), None if none did

metaVars == <<meta, hasTable, proc, lastSet, lastGet>>

Key == "db.ver"

\* The columns of each table of the schema; met is no table.
Schema == [t \in {"meta"} |-> {"key", "value"}]

\* A statement over table t naming columns cols can run.
Names(t, cols) == t \in DOMAIN Schema /\ cols \subseteq Schema[t]

Row(k) == {r \in meta : r.key = k}

ValueOf(k) == IF Row(k) = {} THEN None ELSE (CHOOSE r \in Row(k) : TRUE).value

MetaTypeOK == /\ meta \subseteq [key : {Key}, value : Versions]
              /\ hasTable \in BOOLEAN
              /\ proc \in {"down", "serving", "panicked"}
              /\ lastSet \in [key : {Key}, value : Versions, ok : BOOLEAN] \cup {None}
              /\ lastGet \in [got : Versions \cup {None}, want : Versions \cup {None}]
                               \cup {None}

\* The table as sql/create_db.sql and earlier builds may have left it.
MetaInit == /\ hasTable \in BOOLEAN
            /\ meta \in IF hasTable THEN {{}} \cup {{[key |-> Key, value |-> v]} : v \in Versions}
                        ELSE {{}}
            /\ proc = "down"
            /\ lastSet = None
            /\ lastGet = None

(***************************************************************************)
(* Faulty variants of definitions below, each a slip the code could make.  *)
(***************************************************************************)
SetMetaResultIgnored(k, v) ==
    [rows |-> IF Row(k) # {} THEN {[r EXCEPT !.value = v] : r \in Row(k)} \cup (meta \ Row(k))
              ELSE meta,
     ok |-> TRUE]

(***************************************************************************)
(* markDb(ver): "update meta set val=$2 where key=$1"; an error is        *)
(* returned; no row updated goes on to "insert into meta (key, val)".     *)
(***************************************************************************)
MarkDb(ver) ==
    IF ~Names("meta", {"key", "val"}) THEN meta
    ELSE IF Row(Key) # {} THEN {[r EXCEPT !.value = ver] : r \in Row(Key)} \cup (meta \ Row(Key))
    ELSE meta \cup {[key |-> Key, value |-> ver]}

(***************************************************************************)
(* What Init does once its select of db.ver has answered ver (None: no    *)
(* row): the expected version serves; any other answer but "no rows" is   *)
(* a panic (a different version included: err is nil there).              *)
(***************************************************************************)
Started(ver) ==
    IF ver = DB_VERSION THEN "serving"
    ELSE IF ver = None THEN "serving"
    ELSE "panicked"

(***************************************************************************)
(* Init: select the version (an error when the table is missing, which   *)
(* panics before createDb is reached); on "no rows" the information-      *)
(* schema query finds the table and markDb(DB_VERSION) runs, its error    *)
(* dropped, and Init returns nil.                                          *)
(***************************************************************************)
InitDb ==
    /\ proc = "down"
    /\ IF ~hasTable \/ ~Names("meta", {"key", "value"})
          THEN /\ proc' = "panicked"
               /\ UNCHANGED meta
          ELSE /\ proc' = Started(ValueOf(Key))
               /\ meta' = IF ValueOf(Key) = None THEN MarkDb(DB_VERSION) ELSE meta
    /\ UNCHANGED <<hasTable, lastSet, lastGet>>

(***************************************************************************)
(* setMeta(k, v): "update meta set value" (an error is returned); no row  *)
(* updated goes on to "insert into met (key, value)", whose error is      *)
(* returned.                                                               *)
(***************************************************************************)
SetMetaResult(k, v) ==
    IF ~Names("meta", {"key", "value"}) THEN [rows |-> meta, ok |-> FALSE]
    ELSE IF Row(k) # {} THEN [rows |-> {[r EXCEPT !.value = v] : r \in Row(k)} \cup (meta \ Row(k)),
                              ok |-> TRUE]
    ELSE IF Names("met", {"key", "value"}) THEN [rows |-> meta \cup {[key |-> k, value |-> v]},
                                                 ok |-> TRUE]
    ELSE [rows |-> meta, ok |-> FALSE]

SetMeta(k, v) ==
    /\ proc = "serving"
    /\ meta' = SetMetaResult(k, v).rows
    /\ lastSet' = [key |-> k, value |-> v, ok |-> SetMetaResult(k, v).ok]
    /\ UNCHANGED <<hasTable, proc, lastGet>>

(***************************************************************************)
(* getMeta(k): QueryRow never returns nil, Scan's error is dropped: the   *)
(* value, or "" (None here) when there is no row, with a nil error.       *)
(***************************************************************************)
GetMeta(k) ==
    /\ proc = "serving"
    /\ lastGet' = [got |-> ValueOf(k),
                   want |-> IF lastSet # None /\ lastSet.key = k /\ lastSet.ok
                            THEN lastSet.value ELSE None]
    /\ UNCHANGED <<meta, hasTable, proc, lastSet>>

(* The process stops (crash, or exit after a panic); the table remains. *)
Stop == /\ proc # "down"
        /\ proc' = "down"
        /\ UNCHANGED <<meta, hasTable, lastSet, lastGet>>

\* The steps of the meta methods, without the process stopping.
MetaStep == InitDb \/ \E v \in Versions : SetMeta(Key, v) \/ GetMeta(Key)

MetaNext == MetaStep \/ Stop

MetaSpec == MetaInit /\ [][MetaNext]_metaVars

-----------------------------------------------------------------------------
(***************************************************************************)
(* A value setMeta reported as written is what getMeta reads back, until  *)
(* the next setMeta.  Concerns setMeta's update-then-insert and the       *)
(* errors it returns.                                                      *)
(***************************************************************************)
SetMetaReadBack == lastGet # None /\ lastGet.want # None => lastGet.got = lastGet.want
=============================================================================
