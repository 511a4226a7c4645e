---------------------------- MODULE MCMigrations ---------------------------
(***************************************************************************)
(* Instance of Migrations: three albums of an old release, one crash.      *)
(***************************************************************************)
EXTENDS Migrations
=============================================================================
