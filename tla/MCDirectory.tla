---------------------------- MODULE MCDirectory ----------------------------
(* A builder with two roles and two users; an owner with one of each, the   *)
(* factory, and the machine that stands in it.                              *)
EXTENDS Directory, TLC

CONSTANTS builder, buyer, anna, ben, cora, chief, clerk, boss, hall, machine,
          maker, owner, n1, n2

Homes == [x \in {anna, ben, chief, clerk} |-> builder]
         @@ [x \in {cora, boss, hall} |-> buyer]
Installed == builder :> maker @@ buyer :> owner @@ anna :> chief @@ ben :> clerk
             @@ cora :> boss
             @@ chief :> [name |-> n1, reads |-> TRUE]
             @@ clerk :> [name |-> n2, reads |-> FALSE]
             @@ boss :> [name |-> n1, reads |-> TRUE]
             @@ machine :> [maker |-> builder, owner |-> buyer, site |-> hall]
=============================================================================
