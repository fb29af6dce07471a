-------------------------- MODULE MCWorkerService --------------------------
(***************************************************************************)
(* The API and one of the workers start together on one database.          *)
(***************************************************************************)
EXTENDS WorkerService

CONSTANTS user1, user2

MCUsers == <<user1, user2>>
MCServices == {"worker", "rag", "api"}
MCStarted == {{"worker", "api"}, {"rag", "api"}}
=============================================================================
