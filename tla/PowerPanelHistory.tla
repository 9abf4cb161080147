------------------------- MODULE PowerPanelHistory -------------------------
(***************************************************************************)
(* PowerPanel with history variables: what each reading of the BMC can     *)
(* know of the power commands sent so far.  They watch the steps of        *)
(* PowerPanel and restrict none of them.                                   *)
(***************************************************************************)
EXTENDS PowerPanel

VARIABLES
    reached,       \* requests whose command has been sent to the machine
    cacheKnows,    \* reached when the cached reading was taken
    readingKnows,  \* readingKnows[c]: reached when c's reading was taken
    sawOff         \* sawOff[c]: the restart during which a poll of c read Off

historyVars == <<reached, cacheKnows, readingKnows, sawOff>>

Moves(c, from, to) == cpc[c] = from /\ cpc'[c] = to
Decides(c) == cpc[c] = "transition" /\ cpc'[c] # "transition"

\* The step sends r's reset or its magic packet.
Sends(r) ==
    \/ rpc[r] = "command" /\ rpc'[r] # "command" /\ jobOf' = r
    \/ rpc[r] = "wol" /\ rpc'[r] # "wol" /\ ok'[r]

HistoryInit ==
    /\ reached = {} /\ cacheKnows = {}
    /\ readingKnows = [c \in Clients |-> {}]
    /\ sawOff = [c \in Clients |-> NoOne]

HistoryStep ==
    /\ reached' = reached \union {r \in Requests : Sends(r)}
    /\ cacheKnows' = IF \E c \in Clients : Moves(c, "poll", "fetch")
                     THEN reached ELSE cacheKnows
    /\ readingKnows' = [c \in Clients |->
         IF Moves(c, "poll", "transition") \/ Moves(c, "fetch", "transition")
         THEN cacheKnows
         ELSE IF cpc'[c] = "arm" THEN {} ELSE readingKnows[c]]
    /\ sawOff' = [c \in Clients |->
         IF Decides(c) /\ transition = "Restarting" /\ ~Expired /\ reading[c] = "Off"
         THEN transitionBy
         ELSE IF cpc'[c] = "gone" THEN NoOne ELSE sawOff[c]]

InitH == Init /\ HistoryInit
NextH == Next /\ HistoryStep
SpecH == InitH /\ [][NextH]_<<vars, historyVars>>

-----------------------------------------------------------------------------
(* Properties *)

\* Once a successful action has invalidated the cache, nothing the cache still
\* serves as fresh was read before the action's command: browsers woken by
\* notifySSE see the machine after the command.
FreshAfterAction ==
    \A r \in Requests :
        rpc[r] \in {"notify", "done"} /\ ok[r] /\ cacheAge < PollInterval => r \in cacheKnows

-----------------------------------------------------------------------------
(* What the documents say and the code does not keep *)

\* The machine has yet to do what the state announces.
StillToCome(state) ==
    CASE state = "PoweringOn" -> host = "Off"
      [] state = "ShuttingDown" -> host = "On"
      [] state = "Restarting" -> job # "none"

\* README: transition states auto-clear "on BMC confirmation".  An answer of the
\* BMC, or a missing one, from before the action's command confirms nothing: if a
\* poll ends a transition on it, the machine happens to be there already.
ConfirmedByLaterReading ==
    [][\A c \in Clients :
         Moves(c, "transition", "clear") =>
             transitionBy \in readingKnows[c] \/ ~StillToCome(transition)]_<<vars, historyVars>>

\* The comment on the 15 second rule: it is for restarts where "we never saw
\* PowerOff".  A poll that saw Off during the restart confirms at the next On.
SeenOffConfirmsAtOn ==
    [][\A c \in Clients :
         /\ Decides(c) /\ transition = "Restarting" /\ ~Expired
         /\ reading[c] = "On" /\ sawOff[c] = transitionBy
         => cpc'[c] = "clear"]_<<vars, historyVars>>
=============================================================================
