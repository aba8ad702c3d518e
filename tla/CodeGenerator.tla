--------------------------- MODULE CodeGenerator ----------------------------
(***************************************************************************)
(* The C generator (devprop/lang_c/__init__.py and its templates): from a  *)
(* manifest to the property table of a device, the INDEX_ enumerators of   *)
(* the application and the names of the callbacks it has to write.  The C  *)
(* compiler is external: it takes identifiers, and each enumerator once.   *)
(***************************************************************************)
EXTENDS ManifestText

UnsignedType == {"uint8", "uint16", "uint32"}

\* C_identifier
Identifier(text) == [i \in DOMAIN text |-> IF text[i] = DOT THEN "_" ELSE text[i]]

\* upper
Capitals(text) ==
  [i \in DOMAIN text |-> IF text[i] \in DOMAIN Upper THEN Upper[text[i]] ELSE text[i]]

\* What makes a template raise: C_type of a signed type, is_const of a
\* property that was never in YAML, of an implementation of another type or
\* of one that can be written, and const_raw_value without a raw_value.
PropertyRaises(p) ==
  \/ p.type \notin UnsignedType
  \/ p.implementation \notin {"none", "const"}
  \/ p.implementation = "const" /\ p.operations # <<"r">>

GenerationRaises(manifest) ==
  \E i \in DOMAIN manifest.properties : PropertyRaises(manifest.properties[i])

NULL == << >>

\* devprop_user.c: a row of the property table.  A getter or setter is known
\* by the identifier it has behind "get_" or "set_".
Table(manifest) ==
  [i \in DOMAIN manifest.properties |->
    LET p == manifest.properties[i]
    IN  [type   |-> p.type,
         getter |-> IF Readable(p) THEN Identifier(p.name) ELSE NULL,
         setter |-> IF Writable(p) THEN Identifier(p.name) ELSE NULL]]

\* devprop_user.h: what INDEX_ is followed by, property by property.
Enumerators(manifest) ==
  [i \in DOMAIN manifest.properties |-> Capitals(Identifier(manifest.properties[i].name))]

IsIdentifier(text) == text # << >> /\ \A i \in DOMAIN text : text[i] \in DOMAIN Upper

CompilesAsC(manifest) ==
  /\ IsIdentifier(Identifier(manifest.device))
  /\ \A i \in DOMAIN manifest.properties : IsIdentifier(Identifier(manifest.properties[i].name))
  /\ IsInjective(Enumerators(manifest))
=============================================================================
