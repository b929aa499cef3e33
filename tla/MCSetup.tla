------------------------------- MODULE MCSetup -------------------------------
(* Two categories; a user with two grants; an asset that is tagged and owned, *)
(* one that is only tagged, and one that is only owned.                     *)
EXTENDS Setup

CONSTANTS n1, n2, anna, ben, builder, buyer, press, lathe, drill

List2 == <<n1, n2>>
Grants == {[id |-> 1, user |-> anna], [id |-> 2, user |-> anna], [id |-> 3, user |-> ben]}
Tags == {[company |-> builder, urn |-> press]}
Tagged == {[company |-> builder, urn |-> lathe]}
Twins == {[company |-> builder, urn |-> press, owner |-> buyer],
          [company |-> builder, urn |-> drill, owner |-> buyer]}
=============================================================================
