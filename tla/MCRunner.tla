------------------------------ MODULE MCRunner ------------------------------
(* Motor 1 and the reconciler, and in the run of the finding also data     *)
(* capture, which may return unasked; under three settings.                *)
EXTENDS Runner

Config(trading, production, failing) ==
  [trading |-> trading, production |-> production, failing |-> failing]

MCConfigs ==
  {Config(FALSE, FALSE, {}), Config(TRUE, TRUE, {}), Config(TRUE, FALSE, {"limits"})}
=============================================================================
