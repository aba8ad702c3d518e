-------------------------- MODULE MCPropertyValue --------------------------
(***************************************************************************)
(* Values for the constants of PropertyValue: bytes of four values, scales *)
(* of both signs and zero, limits inside, at and outside what the type can *)
(* express, and not on a step of the scale.                                *)
(***************************************************************************)
EXTENDS PropertyValue

MCProperties ==
  [type : {"uint8", "uint16", "int8"}, offset : {-3, 0}, scale : {-2, 0, 1, 2, 3, 5},
   min : {-4, -3, 0, 1}, max : {1, 4, 9, 31}]
  \cup [type : {"uint32"}, offset : {-3}, scale : {2}, min : {-3, 0}, max : {507, 508}]

MCTyped == -4..12 \cup {30, 31, 506, 507, 508}

MCWritten == 0..16 \cup {63, 64, 254, 255}
=============================================================================
