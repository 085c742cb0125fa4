---------------------------- MODULE MCPerfectHash ----------------------------
(* Tables of no, two or three names that all have one check byte, hash values of
   four bits, and up to three images that define a class of one name.  Of a table
   of one name the code leaves the index undefined. *)
EXTENDS PerfectHash

CONSTANTS s1, s2, s3, absent, empty

MCStrings == {s1, s2, s3, absent, empty}
MCCheckByte == [k \in MCStrings |-> IF k = empty THEN 0 ELSE 5]
Two == {s \in SUBSET {s1, s2, s3} : Cardinality(s) = 2}
MCStored == {{}, {s1, s2, s3}} \cup Two \cup {s \cup {empty} : s \in Two}
MCClassTables == {{}} \cup Two
MCDefiners == {{1}, {1, 2}, {1, 2, 3}}
=============================================================================
