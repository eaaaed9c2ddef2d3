-------------------------- MODULE MCVideobufQueue ---------------------------
(* The threads are numbered from 1: 0 is "no thread".                      *)
EXTENDS VideobufRefinement

OneThread  == {1}
TwoThreads == {1, 2}
=============================================================================
