--------------------------- MODULE MCTabletPackets ---------------------------
(***************************************************************************)
(* Small instance of TabletPackets for TLC: samples whose bits tell every  *)
(* field's octets apart, and the ends of their ranges.                     *)
(***************************************************************************)
EXTENDS TabletPackets

SomeSamples ==
    {[x |-> 0, y |-> 65535, press |-> 0, buttons |-> {}, tiltx |-> 0, tilty |-> -1, aux |-> 0],
     [x |-> 65535, y |-> 0, press |-> 1023, buttons |-> 0..7, tiltx |-> -64, tilty |-> 63,
      aux |-> -899],
     [x |-> 21930, y |-> 43605, press |-> 21, buttons |-> {1, 3, STYLUS}, tiltx |-> 21,
      tilty |-> -43, aux |-> 341],
     [x |-> 128, y |-> 8191, press |-> 20, buttons |-> {0, 2, 4, STYLUS2}, tiltx |-> 63,
      tilty |-> -64, aux |-> -1]}
=============================================================================
