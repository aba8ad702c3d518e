-------------------------- MODULE MCPropertyAccess --------------------------
(***************************************************************************)
(* PropertyAccess for TLC: devices with two one-byte properties, so that   *)
(* one can be taken for the other, and a two-byte one, so that lengths     *)
(* differ.  A byte has two values.                                         *)
(***************************************************************************)
EXTENDS PropertyAccess

MCPropSize == <<1, 1, 2>>
MCLimit    == <<1, 1, 2>>
MCInitVals == <<0, 1, 2>>
MCForeign  == {1, MakeId(DEVICE_TO_CLIENT, 1, 5, 1)}
MCErrors   == {GENERIC_ERROR}

Query(list)    == [op |-> READ_PROPERTY, list |-> list, data |-> << >>]
Set(n, p, data) == [op |-> WRITE_PROPERTY, list |-> << <<n, p>> >>, data |-> data]

MCCalls ==
  {Query(<< <<1, 1>>, <<1, 2>> >>), Query(<< <<2, 3>> >>),
   Set(1, 1, <<1>>), Set(1, 2, <<0>>), Set(2, 3, <<1, 1>>)}

\* Calls of one device only, for runs with two clients.
MCFewCalls ==
  {Query(<< <<1, 1>> >>), Query(<< <<1, 3>> >>), Set(1, 1, <<1>>), Set(1, 3, <<1, 1>>)}
=============================================================================
