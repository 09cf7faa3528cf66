---------------------------- MODULE MCWifiStation ---------------------------
(***************************************************************************)
(* WifiStation for TLC: two EdcaTxopN with the AIFSN of two access         *)
(* categories, or one as in FlywaysWifiMac.                                *)
(***************************************************************************)
EXTENDS WifiStation

TwoCategories == <<1, 2>>
OneCategory == <<2>>
=============================================================================
