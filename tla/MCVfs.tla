-------------------------------- MODULE MCVfs --------------------------------
(* Three extra nodes, one of which bears the name of ram0 and one the name   *)
(* of null, in a table with room for two of them.                            *)
EXTENDS Vfs

CONSTANT Top

MCMemmap == << [base |-> 36, length |-> Top - 36, usable |-> TRUE] >>

MCExtra == {[name |-> "ram0", dev |-> "null"], [name |-> "null", dev |-> "zero"],
            [name |-> "disk", dev |-> "zero"]}

MCContents == { <<>>, <<1>>, <<0, 1>>, <<1, 0, 1>> }
=============================================================================
