-------------------------- MODULE MCPublishWorker --------------------------
(* Up to MaxVersion changes; the remote starts empty or with a history. *)
EXTENDS PublishWorker
=============================================================================
