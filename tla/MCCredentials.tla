----------------------------- MODULE MCCredentials -----------------------------
(***************************************************************************)
(* A small instance of Credentials.  A node's name is all that the others  *)
(* share, so one node meets every order of requests, failures and expiries *)
(* within the bound, and two nodes share the event loop.                   *)
(***************************************************************************)
EXTENDS Credentials
=============================================================================
