---------------------- MODULE MC_CompanionInstallation ----------------------
(* Two releases that share one path and each bring one of their own, as the *)
(* releases in companion/releases.ts do.                                    *)
EXTENDS CompanionInstallation, TLC

CONSTANTS v1, v2, manifest1, manifest2, panel1, panel2

MCContent ==
    v1 :> (1 :> manifest1 @@ 2 :> panel1 @@ 3 :> Null)
    @@ v2 :> (1 :> manifest2 @@ 2 :> Null @@ 3 :> panel2)
=============================================================================
