-------------------------- MODULE MCProxyScheduler --------------------------
(***************************************************************************)
(* A proxy of one prefiller and one decoder, and one more address.         *)
(***************************************************************************)
EXTENDS ProxyScheduler

CONSTANTS p1, p2, d1, r1, r2

OnePrefiller == <<p1>>
OneDecoder   == <<d1>>
Instances    == {<<"prefill", p1>>, <<"prefill", p2>>, <<"decode", d1>>}
Sizes        == [r \in Requests |-> IF r = r1 THEN 1 ELSE 2]
=============================================================================
