---------------------------- MODULE MCLiveIngestion ----------------------------
(***************************************************************************)
(* Instances of LiveIngestion for TLC: two sources, the first with two     *)
(* records and the second with one.                                        *)
(***************************************************************************)
EXTENDS LiveIngestion

TwoSources == <<"sophos_api", "hirschmann_traps">>
OneSource == <<"sophos_api">>
ThirdApart == [r \in Records |-> IF r = 3 THEN "hirschmann_traps" ELSE "sophos_api"]
=============================================================================
