---------------------------- MODULE MCWorkerPool ----------------------------
(* WorkerPool on a search tree of depth two: a root with two children, one of *)
(* which has two children of its own.                                         *)
EXTENDS WorkerPool

CONSTANTS root, left, right, leaf1, leaf2

MCNode == {root, left, right, leaf1, leaf2}
MCBelow ==
  [n \in MCNode |->
     CASE n = root -> {left, right}
       [] n = left -> {leaf1, leaf2}
       [] OTHER -> {}]
=============================================================================
