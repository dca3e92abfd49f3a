------------------------------ MODULE MCSecIpc ------------------------------
(***************************************************************************)
(* Two clients: a diagnostic tester, which also sends wrong keys and       *)
(* re-initializes the service, and the TSP service, which also asks for    *)
(* what only the MQTT service may have.                                    *)
(***************************************************************************)
EXTENDS SecIpc, TLC

CONSTANTS c1, c2

MCPeerOf == c1 :> "" @@ c2 :> "tbox-tsp.service"

MCSlots == c1 :> 2 @@ c2 :> 1

Ask(m, level) == [m |-> m, level |-> level]

MCAsks ==
  c1 :> {Ask("GET_SEED", 1), Ask("VERIFY_KEY", 2), Ask("INITIALIZE", 0)}
  @@ c2 :> {Ask("GET_TRUSTED_TIME", 0), Ask("GET_BUSINESS_KEY_STATUS", 0)}

=============================================================================
