-------------------------- MODULE ConnectionLifecycle --------------------------
(***************************************************************************)
(* What the SSH manager promises to the handlers, the tunnels and the      *)
(* pages: a connection becomes visible to lookups once, ends once, and     *)
(* stays invisible for good; each kind of connection_down event about it   *)
(* is sent at most once and never while a lookup still finds it.           *)
(***************************************************************************)
CONSTANT Conns      \* identities of SSH connections

VARIABLES
    visible,    \* the connections that lookups find
    ended,      \* the connections that were visible and are no more
    lossTold,   \* connections with a connection_down event of an unexpected loss
    userTold    \* connections with a connection_down event of a user's disconnect

lifeVars == <<visible, ended, lossTold, userTold>>

LifeInit ==
    /\ visible = {}
    /\ ended = {}
    /\ lossTold = {}
    /\ userTold = {}

Open(c) ==
    /\ c \notin visible \cup ended
    /\ visible' = visible \cup {c}
    /\ UNCHANGED <<ended, lossTold, userTold>>

End(c) ==
    /\ c \in visible
    /\ visible' = visible \ {c}
    /\ ended' = ended \cup {c}
    /\ UNCHANGED <<lossTold, userTold>>

TellLoss(c) ==
    /\ c \in ended \ lossTold
    /\ lossTold' = lossTold \cup {c}
    /\ UNCHANGED <<visible, ended, userTold>>

TellUser(c) ==
    /\ c \in ended \ userTold
    /\ userTold' = userTold \cup {c}
    /\ UNCHANGED <<visible, ended, lossTold>>

LifeNext == \E c \in Conns : Open(c) \/ End(c) \/ TellLoss(c) \/ TellUser(c)

LifeSpec == LifeInit /\ [][LifeNext]_lifeVars

================================================================================
