-------------------------- MODULE ConnectionManager --------------------------
(***************************************************************************)
(* server/network/ws_connection_manager.cpp: the registry that tells which *)
(* connection speaks for which player of which session.  Its mutex makes   *)
(* every operation one step.  The registry holds weak pointers: an entry   *)
(* may outlive its connection.                                             *)
(***************************************************************************)

VARIABLE connections   \* connections_, from <<session, player>>

NoConnections == [k \in {} |-> k]

(* A later registration of the same player replaces the earlier one.       *)
Register(s, p, c) ==
  connections' = [k \in DOMAIN connections \cup {<<s, p>>} |->
                    IF k = <<s, p>> THEN c ELSE connections[k]]

(* Mutant: nothing is erased.                                            *)
KeepRegistered(s, p) == connections' = connections

(* Whatever is registered for the player is erased, whoever asks.          *)
Unregister(s, p) ==
  connections' = [k \in DOMAIN connections \ {<<s, p>>} |-> connections[k]]

(* The connections of a session, those of the weak pointers still alive.   *)
GetSessionConnections(s, alive) ==
  {connections[k] : k \in {j \in DOMAIN connections : j[1] = s}} \cap alive
=============================================================================
