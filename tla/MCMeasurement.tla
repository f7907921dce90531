---- MODULE MCMeasurement ----
EXTENDS Measurement
MCLegs == <<"t1", "t2">>
====
