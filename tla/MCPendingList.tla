--------------------------- MODULE MCPendingList ---------------------------
(* PendingList with four ids and up to four entries: two repetitions of one *)
(* id, a crossed-out smallest entry, and an empty container all occur.      *)
EXTENDS PendingList
=============================================================================
