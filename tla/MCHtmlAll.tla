------------------------------ MODULE MCHtmlAll ------------------------------
(***************************************************************************)
(* Two families, the first with three devices: two list tile types, the   *)
(* type CIB in both as for LFE5U-25F and LFE5U-45F, and one lists none;    *)
(* the second family has one device and no tile list.                      *)
(***************************************************************************)
EXTENDS HtmlAll, TLC

CONSTANTS ECP5, MachXO2, d25, d45, d85, d1200, CIB, PLC2, EBR

MCFams == <<ECP5, MachXO2>>
MCDevices == (ECP5 :> <<d25, d45, d85>>) @@ (MachXO2 :> <<d1200>>)
MCTiles == (<<ECP5, d25>> :> {CIB, PLC2}) @@ (<<ECP5, d45>> :> {CIB, EBR})
=============================================================================
