--------------------------- MODULE MCSchemaPayload ---------------------------
(* One schema and one table with two columns: schemas, tables and columns   *)
(* are treated key by key, and a key is listed or not, known or not.        *)
EXTENDS SchemaPayload

MCSchemaNames == {"a"}
MCTableNames == {"t"}
MCColumnNames == {"x", "y"}
MCSyncModes == {"", "LIVE"}
=============================================================================
