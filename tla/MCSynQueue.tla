----------------------------- MODULE MCSynQueue -----------------------------
(* A small instance of the queue: three getters on a ring of two slots, so  *)
(* that there are more waiters than slots; the values are a socket and a    *)
(* termination order. Symmetry would be unsound for the fair specification. *)
EXTENDS SynQueue
=============================================================================
