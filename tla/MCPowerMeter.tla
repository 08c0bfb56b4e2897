---------------------------- MODULE MCPowerMeter ----------------------------
\* A heater of 1000 W on the meter, with the widths of the code.
EXTENDS PowerMeter

MCFrames == {[head |-> 85, Uk |-> 2300, Ut |-> 10, Ik |-> 435, It |-> 100,
              Pk |-> 10000, Pt |-> 10, Adj |-> 112]}
MCDamages == {<<"none", 0>>}
=============================================================================
