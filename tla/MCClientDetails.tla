--------------------------- MODULE MCClientDetails ---------------------------
(* A clientId with and without a leading space, two authenticators.        *)
EXTENDS ClientDetails

MCClientIds == {"app", " app"}
MCTrim == [v \in MCClientIds |-> "app"]
MCAuthTypes == {"client-secret", "client-jwt"}
=============================================================================
