---------------------------- MODULE MCBrokerSync ----------------------------
(* Small instances of BrokerSync.                                          *)
EXTENDS BrokerSync
=============================================================================
