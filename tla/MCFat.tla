------------------------------- MODULE MCFat -------------------------------
(* Small volumes: the root directory, one subdirectory and a few more      *)
(* clusters for two files and a second directory cluster, so that the      *)
(* volume fills up and the directory grows.                                *)
EXTENDS Fat

\* An empty file or one of two clusters, one of a cluster that is changed, and
\* for the disk errors a third one, which makes the directory grow once more.
Saves == [A |-> { <<>>, <<"p", "q">> }, B |-> { <<"p">>, <<"q">> }, C |-> { <<"p">> },
          D |-> { <<"p">> }]
=============================================================================
