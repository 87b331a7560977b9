--------------------------- MODULE MCDesktopBoot ----------------------------
(* Three hosts: an old installation, a drifted one and a foreign machine.  *)
EXTENDS DesktopBoot

MCHealthy ==
    [staged |-> TRUE, machine |-> "serving", helper |-> FALSE, image |-> TRUE,
     core |-> "on", port |-> TRUE, scaffold |-> TRUE, adsImage |-> TRUE, ads |-> TRUE,
     disk |-> 1, other |-> FALSE]

MCOldHost == [MCHealthy EXCEPT !.image = FALSE, !.core = "stale", !.adsImage = FALSE]

MCHosts ==
    { MCOldHost,
      [MCHealthy EXCEPT !.staged = FALSE, !.machine = "drifted_off", !.core = "none",
                        !.ads = FALSE],
      [NoFacts EXCEPT !.disk = 1, !.staged = TRUE, !.machine = "foreign",
                      !.helper = TRUE, !.image = TRUE, !.core = "off"] }
=============================================================================
