----------------------- MODULE MCKnowledgeIndexWorker -----------------------
(***************************************************************************)
(* Instance of KnowledgeIndexWorker for TLC: three threads, so that two    *)
(* may still be exiting when a third is started.                           *)
(***************************************************************************)
EXTENDS KnowledgeIndexWorker
=============================================================================
