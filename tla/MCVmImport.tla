----------------------------- MODULE MCVmImport -----------------------------
(* Two domains whose names differ in the prefix only, so that they want the  *)
(* same entry, and a second entry for --target.                              *)
EXTENDS VmImport, TLC

StripPrefix == ("charly-web" :> "web") @@ ("web" :> "web")

=============================================================================
