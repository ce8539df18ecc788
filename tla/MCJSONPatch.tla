----------------------------- MODULE MCJSONPatch -----------------------------
(* Documents of one field and an array of at most two items. *)
EXTENDS JSONPatch

MCFields == {"f"}
=============================================================================
