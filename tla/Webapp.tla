------------------------------- MODULE Webapp -------------------------------
(***************************************************************************)
(* What the modules of the web client have in common: no value (null,      *)
(* undefined, an empty string), and the failures of requests.              *)
(***************************************************************************)
CONSTANTS
    None,
    MaxFaults   \* bound: requests that fail
=============================================================================
