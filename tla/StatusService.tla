--------------------------- MODULE StatusService ---------------------------
(***************************************************************************)
(* What the BMC cache promises its readers, with no cache in it: every     *)
(* answer is a power status the BMC really had at some moment between the  *)
(* last completed announcement of a power command before the question and  *)
(* the answer itself, or the news that the BMC could not be reached.       *)
(*                                                                         *)
(* A status is identified by the number of power commands the BMC had      *)
(* received when it was sampled: statuses of one epoch need not be told    *)
(* apart, and "older than my command" is "smaller epoch".                  *)
(***************************************************************************)
EXTENDS Naturals

CONSTANTS
    Readers,      \* goroutines that ask for the status (SSE handlers)
    Actors,       \* goroutines that send power commands
    Unreachable,  \* the answer when GetStatus failed
    MaxEpoch      \* bound: number of power commands in a behaviour

VARIABLES
    epoch,      \* power commands the BMC has received
    announced,  \* the latest command whose announcement has completed
    pending,    \* pending[a]: the command a has sent and not yet announced (0: none)
    asking,     \* readers with a question open
    floor,      \* floor[r]: what was announced when r asked
    answer      \* answer[r]: the last status r was given

serviceVars == <<epoch, announced, pending, asking, floor, answer>>

Init ==
    /\ epoch = 0
    /\ announced = 0
    /\ pending = [a \in Actors |-> 0]
    /\ asking = {}
    /\ floor = [r \in Readers |-> 0]
    /\ answer = [r \in Readers |-> Unreachable]

\* A power command reaches the BMC: earlier statuses are now history.
Command(a) ==
    /\ pending[a] = 0
    /\ epoch < MaxEpoch
    /\ epoch' = epoch + 1
    /\ pending' = [pending EXCEPT ![a] = epoch + 1]
    /\ UNCHANGED <<announced, asking, floor, answer>>

\* The actor has told the service: from here on nobody who asks may be given
\* a status from before its command.
Announce(a) ==
    /\ pending[a] # 0
    /\ announced' = IF pending[a] > announced THEN pending[a] ELSE announced
    /\ pending' = [pending EXCEPT ![a] = 0]
    /\ UNCHANGED <<epoch, asking, floor, answer>>

Ask(r) ==
    /\ r \notin asking
    /\ asking' = asking \union {r}
    /\ floor' = [floor EXCEPT ![r] = announced]
    /\ UNCHANGED <<epoch, announced, pending, answer>>

Answer(r) ==
    /\ r \in asking
    /\ \E s \in (floor[r] .. epoch) \union {Unreachable} :
         answer' = [answer EXCEPT ![r] = s]
    /\ asking' = asking \ {r}
    /\ UNCHANGED <<epoch, announced, pending, floor>>

Next ==
    \/ \E a \in Actors : Command(a) \/ Announce(a)
    \/ \E r \in Readers : Ask(r) \/ Answer(r)

Spec == Init /\ [][Next]_serviceVars
=============================================================================
