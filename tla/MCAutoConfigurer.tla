-------------------------- MODULE MCAutoConfigurer --------------------------
(* The connectors a configuration file may list, for TLC.                  *)
EXTENDS AutoConfigurer

Conf(kind, label, resolves, configures) ==
    [kind |-> kind, label |-> label, resolves |-> resolves,
     configures |-> configures]

SomeConfs ==
    { Conf("multi", "a", "yes", "ok"),      \* connection-check
      Conf("pymulti", "a", "yes", "ok"),
      Conf("dc", "a", "yes", "ok"), Conf("dc", "b", "yes", "null"),
      Conf("mt", "a", "yes", "ok"),         \* opencv camera
      Conf("mt", "b", "yes", "ok"), Conf("mt", "b", "yes", "throws"),
      Conf("mt", "b", "yes", "null"),
      Conf("other", "a", "yes", "ok"), Conf("dc", "b", "no", "ok"),
      Conf("other", "b", "raises", "ok") }

Both == {TRUE, FALSE}
=============================================================================
