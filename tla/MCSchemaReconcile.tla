-------------------------- MODULE MCSchemaReconcile --------------------------
EXTENDS SchemaReconcile, TLC

(* Schema a has table t with a locked column k, and a locked table l;       *)
(* schema b is listed by no specification.                                  *)
MCSource ==
    "a" :> ("t" :> [locked |-> FALSE, columns |-> "k" :> TRUE @@ "x" :> FALSE @@ "y" :> FALSE] @@
            "l" :> [locked |-> TRUE, columns |-> NoMap]) @@
    "b" :> ("u" :> [locked |-> FALSE, columns |-> NoMap])

(* A specification that lists table t of schema a with these columns.       *)
Lists(policy, level, columns) ==
    [policy |-> policy, level |-> level,
     schemas |-> "a" :> [enabled |-> TRUE,
       tables |-> "t" :> [enabled |-> TRUE, sync |-> "", columns |-> columns]]]

Plain == [enabled |-> TRUE, hashed |-> FALSE]
Hashed == [enabled |-> TRUE, hashed |-> TRUE]
Off == [enabled |-> FALSE, hashed |-> FALSE]

Blocks == Lists("BLOCK_ALL", "TABLES", "x" :> Plain)
BlocksUnvalidated == Lists("BLOCK_ALL", "NONE", "x" :> Plain)
AllowsColumns == Lists("ALLOW_COLUMNS", "TABLES", "x" :> Off)
AllowsAll == Lists("ALLOW_ALL", "TABLES", "x" :> Hashed)
DisablesLocked == Lists("BLOCK_ALL", "TABLES", "k" :> Off)
DisablesLockedOpen == Lists("", "TABLES", "k" :> Off)

(* Table t is listed to be left out, also where Fivetran does not know it.   *)
LeavesOut ==
    [DisablesLockedOpen EXCEPT !.policy = "ALLOW_ALL",
                               !.schemas["a"].tables["t"].enabled = FALSE]

(* It wants a table that the source does not have.                          *)
WantsMissing ==
    [Blocks EXCEPT !.schemas["a"].tables =
        @ @@ "z" :> [enabled |-> TRUE, sync |-> "LIVE", columns |-> NoMap]]

(* A column without a name.                                                 *)
Nameless == Lists("BLOCK_ALL", "TABLES", "" :> Plain)

(* Fivetran knows nothing yet.                                              *)
Unknown == [exists |-> FALSE, policy |-> "ALLOW_ALL", schemas |-> NoMap]

On(locked) == [enabled |-> TRUE, hashed |-> FALSE, locked |-> locked]

(* Everything is known and synchronised.                                    *)
Everything ==
    [exists |-> TRUE, policy |-> "ALLOW_ALL",
     schemas |-> [s \in DOMAIN MCSource |->
       [enabled |-> TRUE, tables |-> [t \in DOMAIN MCSource[s] |->
         [enabled |-> TRUE, sync |-> "", locked |-> MCSource[s][t].locked, shown |-> TRUE,
          columns |-> [c \in DOMAIN MCSource[s][t].columns |->
                         On(MCSource[s][t].columns[c])]]]]]]

(* Table t, and all of schema b, came to the source later.                  *)
Partly ==
    [Everything EXCEPT !.schemas =
        "a" :> [enabled |-> TRUE, tables |-> "l" :> Everything.schemas["a"].tables["l"]]]

MCAccounts == {Unknown, Everything, Partly}

MCSpecs == {Blocks, BlocksUnvalidated, AllowsColumns, AllowsAll,
            DisablesLocked, DisablesLockedOpen, LeavesOut, WantsMissing, Nameless}
=============================================================================
