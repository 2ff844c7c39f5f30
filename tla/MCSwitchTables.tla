--------------------------- MODULE MCSwitchTables ---------------------------
(* Sections for SwitchTables, with entries of two bytes and bytes of three   *)
(* values: code lies at 0 to 7, the section at 8.                            *)
EXTENDS SwitchTables

CONSTANTS Length, MostUses

MCInstructions == [f |-> {1, 2}, g |-> {5}]
MCAddresses == Base..(Base + Length - 1)
MCUses   == {u \in [{"f", "g"} -> SUBSET MCAddresses] :
               Cardinality(u["f"]) + Cardinality(u["g"]) <= MostUses /\ Cardinality(u["f"]) <= 2}
MCBytes  == [1..Length -> 0..(Radix - 1)]
MCInputs == [bytes : MCBytes, used : MCUses]
=============================================================================
