------------------------------ MODULE Requests ------------------------------
(* The calls the daemon serves, one identifier per D-Bus method call. *)
CONSTANTS Req,   \* the calls
          None   \* "no call"

ASSUME NoneAssumption == None \notin Req
=============================================================================
