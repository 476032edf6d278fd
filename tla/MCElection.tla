---------------------------- MODULE MCElection ----------------------------
(* Three nodes, each of which may be young, up for 34 hours and a little    *)
(* more trusted, or better in battery and link but distrusted.              *)
EXTENDS Election, TLC

MCExpNeg == 0 :> 1000 @@ 40 :> 670 @@ 180 :> 165 @@ 190 :> 150 @@ 200 :> 135

\* The surpluses of the only profile whose four utilities exceed the disagreement.
MCLn == 97 :> -2333 @@ 474 :> -747 @@ 849 :> -164 @@ 865 :> -145

MCRoot == 90 :> 949 @@ 95 :> 975

Profile(b, u, t, l) == [battery |-> b, uptime |-> u, trust |-> t, linkq |-> l]

MCProfiles == { Profile(90, 0, 50, 90), Profile(90, 20, 55, 90), Profile(95, 0, 15, 95) }

MCWeights == { <<300, 200, 300, 200>> }

\* The battery of the third node has jumped; the metrics of the others are steady.
MCVaried ==
    [n \in {1, 2, 3} |-> [battery |-> IF n = 3 THEN 300 ELSE 30, trust |-> 30, linkq |-> 30]]
MCSignals == { -50, -74, -80 }
=============================================================================
