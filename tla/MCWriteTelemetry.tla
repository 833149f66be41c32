--------------------------- MODULE MCWriteTelemetry ---------------------------
(* Exports of run.ld onto itself, to out.ld, and to out.ldx, which is its  *)
(* own sidecar and that of out.ld.                                         *)
EXTENDS WriteTelemetry, TLC

MCFiles == {"run.ld", "run.ldx", "out.ld", "out.ldx"}
MCTargets == {"run.ld", "out.ld", "out.ldx"}
MCLdxOf == ("run.ld" :> "run.ldx") @@ ("out.ld" :> "out.ldx") @@ ("out.ldx" :> "out.ldx")
OverSource == {"run.ld"}
OverSourceLdx == "run.ld" :> "run.ldx"

=============================================================================
