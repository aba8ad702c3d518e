--------------------------- MODULE MCManifestScan ---------------------------
(***************************************************************************)
(* ManifestScan for TLC: segments of two bytes, a header of one, segment   *)
(* numbers up to 2 and node ids up to 2, of which some have no device.     *)
(***************************************************************************)
EXTENDS ManifestScan, TLC

Im(name, claims, size, sound) ==
  [name |-> name, claims |-> claims, size |-> size, sound |-> sound]

Odd   == Im("odd", 4, 5, TRUE)        \* the last segment is not full
Odd2  == Im("odd2", 4, 5, TRUE)       \* as many, different bytes
Most  == Im("most", 5, 6, TRUE)       \* all the segments there are
Over  == Im("over", 6, 7, TRUE)       \* a payload of as many bytes, and the header
Tiny  == Im("tiny", 0, 1, TRUE)       \* not a full first segment
Cut   == Im("cut", 5, 4, TRUE)        \* shorter than it claims
Long  == Im("long", 2, 5, TRUE)       \* longer than it claims
Bad   == Im("bad", 3, 4, FALSE)       \* the hash or the format is wrong

MCNone    == << >>
MCForeign == {1}

MCFirst   == 0 :> Odd @@ 2 :> Most
MCUpdates == {Odd2, Over, Tiny, Cut, Long, Bad}
=============================================================================
