------------------------ MODULE MCConfigAllComputes ------------------------
(* Instances of ConfigAllComputes for TLC.                                 *)
EXTENDS ConfigAllComputes

\* Two options: one is given a new value, the other is deleted, as in
\* config_all_computes(('compute', 'cpu_shared_set', None)).
MCOptionOf == <<"a", "b">>
MCValueOf == <<"new", NoValue>>
=============================================================================
