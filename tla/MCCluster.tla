----------------------------- MODULE MCCluster -----------------------------
(* Two nodes, one a little better than the other.                           *)
EXTENDS Cluster, TLC

MCExpNeg == 0 :> 1000 @@ 30 :> 741 @@ 180 :> 165 @@ 200 :> 135
MCLn == 97 :> -2333 @@ 474 :> -747 @@ 849 :> -164 @@ 865 :> -145
MCRoot == 90 :> 949

M(b, t, score) == [battery |-> b, uptime |-> 0, trust |-> t, linkq |-> 90, score |-> score]

MCProfile == 1 :> M(90, 50, 60000) @@ 2 :> M(90, 50, 60900)
MCDrained == 1 :> M(15, 50, 40000) @@ 2 :> M(15, 50, 40500)
MCWeights == <<300, 200, 300, 200>>
=============================================================================
