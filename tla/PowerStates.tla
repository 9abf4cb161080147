---------------------------- MODULE PowerStates ----------------------------
(***************************************************************************)
(* The power states of internal/bmc/redfish.go and the pure decisions that *)
(* the server takes about them: which transition an action starts, when a  *)
(* BMC reading confirms it, and what a browser is shown.                   *)
(*                                                                         *)
(* A reading is what the cache hands to an SSE handler: "On" or "Off" as   *)
(* the BMC reports them, or "Unknown", the state that stands for a failed  *)
(* GetStatus (CachedResult.Err is not nil).                                *)
(***************************************************************************)

None == ""   \* no transition in force; also prevState before the first event

Readings == {"On", "Off", "Unknown"}
TransitionStates == {"PoweringOn", "ShuttingDown", "Restarting"}
ShownStates == Readings \union TransitionStates

PowerActions == {"power_on", "power_off", "power_forceoff", "power_cycle", "power_reset"}

Failed(reading) == reading = "Unknown"

TransitionForAction(action) ==
    CASE action = "power_on" -> "PoweringOn"
      [] action \in {"power_off", "power_forceoff"} -> "ShuttingDown"
      [] action \in {"power_cycle", "power_reset"} -> "Restarting"

\* Does the reading prove that the transition is over?  A BMC that cannot be
\* reached proves a shutdown; a restart needs an On that follows a shown Off,
\* or an On once the grace of 15 seconds is over.
Confirmed(transition, reading, prev, pastGrace) ==
    \/ transition = "PoweringOn" /\ reading = "On"
    \/ transition = "ShuttingDown" /\ (reading = "Off" \/ Failed(reading))
    \/ transition = "Restarting" /\ reading = "On" /\ (prev = "Off" \/ pastGrace)

\* The state left in status.PowerState when the transition is dropped: an
\* unreachable BMC counts as off while the machine goes down.
Settled(transition, reading) ==
    IF Failed(reading) /\ transition \in {"ShuttingDown", "Restarting"}
    THEN "Off" ELSE reading
=============================================================================
