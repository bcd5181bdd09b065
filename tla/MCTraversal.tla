---------------------------- MODULE MCTraversal ----------------------------
(* A scene of two instances: a mesh, and a scene with two instances of its *)
(* own, the mesh again and a strand of hair.                               *)
EXTENDS Traversal

TheChildren ==
  [top |-> (0 :> {1, 2}), inner |-> (0 :> {1, 2}), mesh |-> (0 :> {1, 2} @@ 2 :> {3}), hair |-> (0 :> {1})]

TheContents ==
  [top   |-> (1 :> 11 @@ 2 :> 12),
   inner |-> (1 :> 21 @@ 2 :> 22),
   mesh  |-> (1 :> <<<<1, 2>>, <<3, InvalidValue>>>> @@ 3 :> <<<<4, InvalidValue>>>>),
   hair  |-> (1 :> <<<<1, InvalidValue>>>>)]

TheCover ==
  [top   |-> (0 :> {1, 2} @@ 1 :> {1} @@ 2 :> {2}),
   inner |-> (0 :> {1, 2} @@ 1 :> {1} @@ 2 :> {2}),
   mesh  |-> (0 :> {1, 3} @@ 1 :> {1} @@ 2 :> {3} @@ 3 :> {3}),
   hair  |-> (0 :> {1} @@ 1 :> {1})]

TheInstances == (11 :> "mesh" @@ 12 :> "inner" @@ 21 :> "hair" @@ 22 :> "mesh")

(* Everything but any-hit with identity transforms and the format of       *)
(* pairs.  Only a closest-hit search compares times.                       *)
Sound ==
  {c \in [type : {"any", "closest"}, format : {"pairs", "packets"}, stackSize : {4, 8},
          identity : {{}, {11, 12}}, masked : {{}, {22}}, times : {{1}, {1, 2}}] :
     /\ c.type = "any" => c.times = {1}
     /\ c.type = "closest" => c.times = {1, 2}
     /\ c.type = "any" /\ c.format = "pairs" => c.identity = {}
     /\ c.stackSize = 4 => c.identity = {} /\ c.masked = {}}

Resuming == [type : {"any"}, format : {"pairs"}, stackSize : {8}, identity : {{11}},
             masked : {{}}, times : {{1}}]
=============================================================================
