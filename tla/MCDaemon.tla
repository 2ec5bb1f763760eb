------------------------------ MODULE MCDaemon ------------------------------
(* Two accounts, so that one can fail; requests of both servers; a second   *)
(* start with a later binary.                                              *)
EXTENDS Daemon

MCAccounts   == {"alice", "bob"}
MCWorkers    == {"w"}
MCTypes      == {"message", "reaction"}
MCApiCalls   == {"ask"}
MCAdminCalls == {"rotate"}
=============================================================================
