---------------------------- MODULE MCCoroutines ----------------------------
(***************************************************************************)
(* Two connections and two forks: descriptors and addresses of coroutines   *)
(* are used again, a SAVE and a SYNC run at once, and one batch of events   *)
(* holds several descriptors.                                               *)
(***************************************************************************)
EXTENDS Coroutines
=============================================================================
