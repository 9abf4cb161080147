----------------------------- MODULE MCLifecycle -----------------------------
\* Small instances of Lifecycle.
EXTENDS Lifecycle, TLC

\* A laptop with its user, and a kiosk known by the login of tagged devices only.
MCNode ==
    "laptop ip" :> [tagged |-> FALSE, login |-> "alice", device |-> "laptop"] @@
    "kiosk ip" :> [tagged |-> FALSE, login |-> "tagged-devices", device |-> "kiosk"]

\* Through Serve or directly, there with a header that names the laptop's user.
MCOrigins ==
    {[from |-> "kiosk ip", request |-> Served("kiosk ip")],
     [from |-> "kiosk ip", request |-> Direct("kiosk ip", "alice")]}

MCPast ==
    {[at |-> 0,
      event |-> [request |-> NoOne, who |-> [from |-> "laptop ip", user |-> "alice"],
                 success |-> TRUE, by |-> NoOne]]}
=============================================================================
