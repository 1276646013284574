------------------------------- MODULE MCProberV1 -------------------------------
(* Two services; pods a and b run on the first host, c on the second.  The    *)
(* second host may be over the agreed latency.                                *)
EXTENDS ProberV1, TLC

CONSTANTS h1, h2, a, b, c, s1, s2

MCHostOf == a :> h1 @@ b :> h1 @@ c :> h2
MCNameOrder == <<s1, s2>>
MCObjects == s1 :> {{a, b, c}, {c}, {}} @@ s2 :> {{a, c}}
MCCpuEwmas == h1 :> {40} @@ h2 :> {40}
MCLatencyEwmas == {h1 :> 60 @@ h2 :> -90, h1 :> 60 @@ h2 :> 20}
=============================================================================
