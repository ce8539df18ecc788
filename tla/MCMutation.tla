----------------------------- MODULE MCMutation -----------------------------
(* A call of any operation with all its attempts, and other clients. *)
EXTENDS Mutation

MCOps == {"create", "generate", "update", "overwrite", "delete"}
=============================================================================
