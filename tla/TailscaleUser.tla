--------------------------- MODULE TailscaleUser ---------------------------
(***************************************************************************)
(* server.go, tailscaleUser and tailscaleWhoIs: whose request it is.       *)
(* Tailscale Serve forwards requests from the loopback address and names   *)
(* the user, or, for a tagged device, the address only; other requests     *)
(* come from the device itself.                                            *)
(***************************************************************************)

CONSTANTS
    Loopback,  \* the address of the proxy
    Node       \* external: what tailscaled knows of an address; a device's name or a
               \* user's login may be missing, NotGiven

ASSUME NodeAssumption ==
    /\ Loopback \notin DOMAIN Node
    /\ \A addr \in DOMAIN Node : DOMAIN Node[addr] = {"tagged", "login", "device"}

Unknown == "unknown"
NotGiven == "not given"

\* A device that belongs to nobody: it has tags, or at least their login.
Tagged(addr) == Node[addr].tagged \/ Node[addr].login = "tagged-devices"

\* tailscaled does not answer, or not in 5 seconds, or does not know the address;
\* a tagged device goes by its name, if it has one.
WhoIs(addr, answers) ==
    IF ~answers \/ addr \notin DOMAIN Node THEN NotGiven
    ELSE IF Tagged(addr) THEN Node[addr].device
    ELSE Node[addr].login

\* Mutant: the address of the connection decides, the proxy's own included.
tailscaleUserOfPeer(req, answers) ==
    IF req.header # NotGiven THEN req.header ELSE WhoIs(req.addr, answers)

tailscaleUser(req, answers) ==
    IF req.addr = Loopback /\ req.header # NotGiven THEN req.header
    ELSE IF req.addr = Loopback /\ req.forwarded # NotGiven THEN WhoIs(req.forwarded, answers)
    ELSE WhoIs(req.addr, answers)

\* handlePowerAction's name for a user it cannot tell.
UserOf(req, answers) ==
    LET login == tailscaleUser(req, answers) IN IF login = NotGiven THEN Unknown ELSE login

\* External: the requests that a device can make, through Serve or directly,
\* where it may write any header.
Served(addr) ==
    [addr |-> Loopback, forwarded |-> addr,
     header |-> IF Tagged(addr) THEN NotGiven ELSE Node[addr].login]
Direct(addr, header) == [addr |-> addr, forwarded |-> NotGiven, header |-> header]

\* Who the request comes from, whatever way it took.
Owner(addr) == IF Tagged(addr) THEN Node[addr].device ELSE Node[addr].login
=============================================================================
