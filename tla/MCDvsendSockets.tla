--------------------------- MODULE MCDvsendSockets ---------------------------
EXTENDS DvsendSockets
MCFamily == [host |-> <<"inet">>, group |-> <<"inet", "inet6">>]
MCMulticast == {"group"}
MCDests == {[host |-> "host", port |-> 0, ttl |-> 0, ifname |-> ""],
            [host |-> "group", port |-> 6000, ttl |-> 0, ifname |-> ""],
            [host |-> "group", port |-> 6000, ttl |-> 0, ifname |-> "fxp0"]}
=============================================================================
