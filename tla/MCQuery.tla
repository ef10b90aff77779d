------------------------------ MODULE MCQuery ------------------------------
(***************************************************************************)
(* Tables l(a PRIMARY KEY, b) with up to three rows and r(d PRIMARY KEY,  *)
(* c) with up to two, over the values Null, 1, 2 and 1.0.                  *)
(***************************************************************************)
EXTENDS Query

I1 == Integer(1)
I2 == Integer(2)
I3 == Integer(3)
F1 == Float(1)

MCLKeys == {I1, I2, I3}
MCRKeys == {I1, I2}
MCVals == {Null, I1, I2, F1}
=============================================================================
