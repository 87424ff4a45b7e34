--------------------------- MODULE MCServiceStart ---------------------------
(* Instances of ServiceStart for TLC.                                        *)
EXTENDS ServiceStart, TLC

CONSTANTS migrate, app, wrapper

\* The app waits for migrate; the wrapper is of an older release and was started
\* by hand.
MCKind == (migrate :> "migrate") @@ (app :> "api") @@ (wrapper :> "memory")
MCRelease == (migrate :> 3) @@ (app :> 3) @@ (wrapper :> 2)
=============================================================================
