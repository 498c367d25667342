------------------------------- MODULE MCDisk -------------------------------
(* The operations on blocks of module Disk that are model-checked. *)
EXTENDS Disk

MCRequests == <<{<<"log", 1>>, <<"write", 4>>}, {<<"install", 1>>, <<"write", 1>>}, {<<"read", 4>>, <<"write", 2>>}>>
=============================================================================
