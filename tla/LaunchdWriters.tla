-------------------------- MODULE LaunchdWriters --------------------------
(***************************************************************************)
(* The launchd services of the production writers, as the DCS adoption     *)
(* (production_dcs_v8_adoption.py) commands and observes them.  A service  *)
(* is enabled or not, loaded or not, and its process runs or not.  launchd *)
(* itself is external: it refuses to bootstrap a disabled or loaded        *)
(* service, and to kickstart or boot out one that is not loaded.           *)
(***************************************************************************)
CONSTANTS
    Writer,   \* the discovered writer services
    Periodic  \* those started by launchd on an interval; the others are daemons

VARIABLE service

ServiceStates == [Writer -> [enabled : BOOLEAN, loaded : BOOLEAN, running : BOOLEAN]]

\* _launch_state: ACTIVE is a loaded service with a live process of its own.
\* The process of an unloaded service is not seen here, only by process_scan.
Active(w) == service[w].loaded /\ service[w].running

Classes == {"A", "B", "C", "?"}

\* _physical_before_class: running, resting, off, or a mixture discover rejects.
Class(w) ==
    CASE service[w].enabled /\ Active(w) -> "A"
      [] service[w].enabled /\ service[w].loaded /\ ~service[w].running -> "B"
      [] ~service[w].enabled /\ ~service[w].loaded -> "C"
      [] OTHER -> "?"

Inventory == [w \in Writer |-> Class(w)]

Discoverable == \A w \in Writer : Class(w) # "?"

\* _wait_for_stable_nonrunning on one target.
Off(w) == ~service[w].enabled /\ ~service[w].loaded /\ ~service[w].running

InClass(class) ==
    [enabled |-> class # "C", loaded |-> class # "C", running |-> class = "A"]

(***************************************************************************)
(* launchctl.  Each command is one effect, and may fail without any.       *)
(***************************************************************************)
DisableService(w) == service' = [service EXCEPT ![w].enabled = FALSE]

EnableService(w) == service' = [service EXCEPT ![w].enabled = TRUE]

\* The process of a service booted out may outlive it.
BootOutService(w) ==
    /\ service[w].loaded
    /\ \E lingers \in {FALSE, service[w].running} :
          service' = [service EXCEPT ![w].loaded = FALSE, ![w].running = lingers]

\* A RunAtLoad or KeepAlive service may start on its own when it is loaded.
BootstrapService(w) ==
    /\ service[w].enabled /\ ~service[w].loaded
    /\ \E starts \in {TRUE, service[w].running} :
          service' = [service EXCEPT ![w].loaded = TRUE, ![w].running = starts]

KickstartService(w) ==
    /\ service[w].loaded
    /\ service' = [service EXCEPT ![w].running = TRUE]

\* The interval of a periodic service elapses, and its process ends.
Fire(w) ==
    /\ w \in Periodic /\ service[w].loaded /\ ~service[w].running
    /\ service' = [service EXCEPT ![w].running = TRUE]

Finish(w) ==
    /\ service[w].running
    /\ w \in Periodic \/ ~service[w].loaded
    /\ service' = [service EXCEPT ![w].running = FALSE]
=============================================================================
