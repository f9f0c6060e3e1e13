------------------------- MODULE MCTerminalControl -------------------------
(* What the host keeps for its clients, for TLC, in settings that share no      *)
(* state: the leases of one terminal, the catalogue of sessions, tabs and       *)
(* terminals, and paired devices.  `part` says, from the start on, which moves. *)
EXTENDS TerminalControl, MuxCatalogue, DeviceAuth

CONSTANTS c1, c2, p1, p2
ASSUME DeviceBounds == DeviceLimits

\* Two connections of two principals: a transfer between them mints a lease
\* that belongs to neither (principal, connection) pair in use.
TwoPrincipals == (c1 :> p1) @@ (c2 :> p2)

VARIABLE part

KeptInit ==
  /\ part \in {"leases", "catalogue", "devices"}
  /\ Init /\ CatalogueInit /\ AuthInit

KeptNext ==
  /\ UNCHANGED part
  /\ \/ part = "leases" /\ Next /\ UNCHANGED <<catalogueVars, authVars>>
     \/ part = "catalogue" /\ CatalogueNext /\ UNCHANGED <<vars, authVars>>
     \/ part = "devices" /\ AuthNext /\ UNCHANGED <<vars, catalogueVars>>

KeptSpec == KeptInit /\ [][KeptNext]_<<part, vars, catalogueVars, authVars>>

=============================================================================
