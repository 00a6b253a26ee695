------------------------ MODULE MCMqttSubscriptions ------------------------
\* Two rows, on one topic (fan-out) or on one topic each.
EXTENDS MqttSubscriptions, TLC

CONSTANTS r1, r2, a, b, t1, t2

Shared   == r1 :> a @@ r2 :> a
OneToOne == r1 :> a @@ r2 :> b


=============================================================================
