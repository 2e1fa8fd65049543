---------------------------- MODULE MCNodeConfig ----------------------------
(* A small instance of NodeConfig. *)
EXTENDS NodeConfig

\* Two addresses that differ in the vendor half alone, and one of the clock's.
MCMacs == {<<"52:54:00", "aa">>, <<"2e:33:5f", "aa">>}
MCKvmMacs == {<<"52:54:00", "bb">>}
MCIfNames == {<<"tap0">>, <<"tap1">>}
============================================================================
