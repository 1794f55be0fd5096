------------------------- MODULE MCServerLifecycle -------------------------
EXTENDS ServerLifecycle

Config(key, len) ==
  [ClientID |-> "id", ClientName |-> "name", ClientKey |-> [text |-> key, len |-> len],
   IPRPM |-> 0, ClientRPM |-> 0, Flapping |-> Nil]

\* A configuration, the same with another key, and one with a short key.
MCConfigs == {Config("old", 8), Config("new", 8), Config("short", 7)}
=============================================================================
