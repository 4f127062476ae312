---------------------------- MODULE MCUVCControls ----------------------------
(* A small instance of UVCControls for TLC: ranges of one step, of less and *)
(* of more than a hundred, signed, and nearly as wide as an int16.          *)
EXTENDS UVCControls

MCValues   == {-64, 0, 28, 200, 32767}
MCPercents == {-10, 0, 7, 50, 99, 100, 150}
=============================================================================
