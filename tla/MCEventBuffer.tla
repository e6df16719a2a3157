--------------------------- MODULE MCEventBuffer ---------------------------
(***************************************************************************)
(* Small instances of EventBuffer.  A behaviour follows one scenario: live *)
(* events of a chat and a message; the initial app-state sync of a chat,   *)
(* with its conditional updates, beside history; contacts and groups       *)
(* beside history.                                                         *)
(***************************************************************************)
EXTENDS EventBuffer

CONSTANTS c1, m1, p1, g1,
          Scenarios   \* the scenarios of a configuration

VARIABLE scenario

AllKinds == {"chats.upsert", "chats.update", "chats.delete", "messages.upsert", "messages.update",
             "messages.delete", "messages.reaction", "messaging-history.set",
             "conditional chats.update", "contacts.upsert", "contacts.update", "groups.update"}
StatusKinds == {"messaging-history.set", "messages.upsert", "messages.update"}

Offered(s) ==
    CASE s = "live" -> [on : {c1, m1}, kind : AllKinds \ {"messaging-history.set", "conditional chats.update"}]
      [] s = "sync" -> [on : {c1}, kind : AllKinds \ {"chats.update"}]
      [] s = "directory" -> [on : {p1, g1}, kind : AllKinds]
      [] s = "status" -> [on : {m1}, kind : StatusKinds]

Longest(s) == IF s = "sync" THEN 5 ELSE 4

ScenarioNext ==
    /\ Next
    /\ Len(log') <= Longest(scenario)
    /\ \A i \in DOMAIN log' : log'[i] \in Offered(scenario)
    /\ UNCHANGED scenario

ScenarioInit == scenario \in Scenarios /\ Init

ScenarioSpec ==
    /\ ScenarioInit
    /\ [][ScenarioNext]_<<vars, scenario>>
    /\ WF_vars(SafetyTimer)
=============================================================================
