---------------------------- MODULE MCDetection ----------------------------
(* Instances of Detection for TLC. *)
EXTENDS Detection, TLC

CONSTANTS s1, s2, s3

\* The database below two services that do not depend on each other.
ThreeServices == s1 :> "api" @@ s2 :> "db" @@ s3 :> "web"
ThreeRanks    == s1 :> 3 @@ s2 :> 0 @@ s3 :> 4
\* s3 is an alert of unknown severity.
TheAlerts     == {s1, s3}
Dependencies  == {<<"api", "db">>, <<"web", "db">>}

=============================================================================
