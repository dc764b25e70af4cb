----------------------------- MODULE MCStartup -----------------------------
(***************************************************************************)
(* Startup for TLC: no configuration file, one that does not load, one     *)
(* that disables the supervisor and names the device, and one whose keys   *)
(* are no booleans; a board as it leaves the factory and one whose files   *)
(* cannot be read; and, for GetPriorityRoute, every list of up to three    *)
(* routes.                                                                 *)
(***************************************************************************)
EXTENDS Startup, TLC

Unsupervised ==
    [SUPERVISOR |-> "false", MQTT |-> "true", STM32 |-> "true", HLK7628 |-> "true",
     LABEL |-> "bench"]

Damaged ==
    [SUPERVISOR |-> "invalid", MQTT |-> "invalid", STM32 |-> "invalid",
     HLK7628 |-> "invalid", LABEL |-> ""]

MCConfigFiles == {NoFile, Unreadable, Unsupervised, Damaged}

\* The board with its factory partition, on the wire and with a modem that
\* has no address.
Factory ==
    [mtd         |-> <<[dev |-> <<"dev">>, colon |-> TRUE, name |-> ""],
                       [dev |-> <<"mtd", "0">>, colon |-> TRUE, name |-> "u-boot"],
                       [dev |-> <<"mtd", "2">>, colon |-> TRUE, name |-> "factory"]>>,
     mtdblockDir |-> FALSE,
     flash       |-> <<"/dev/mtdblock", "2">> :> [size |-> 64, mac |-> 4 :> "MAC"],
     osRelease   |-> <<[name |-> <<"NAME">>, value |-> "OpenWrt"],
                       [name |-> <<"BUILD", "VERSION">>, value |-> ""],
                       [name |-> <<"VERSION">>, value |-> "1.0"]>>,
     routes      |-> <<[Dst |-> "net", Priority |-> 0, LinkIndex |-> 2],
                       [Dst |-> "nil", Priority |-> 1, LinkIndex |-> 1]>>,
     links       |-> 1 :> "eth0.2" @@ 2 :> "wwan0",
     addrs       |-> "eth0.2" :> <<"ip">> @@ "wwan0" :> <<>>,
     reachable   |-> {"eth0.2"}]

\* The board whose files cannot be read and whose factory partition ends
\* before the MAC does.
Bare ==
    [Factory EXCEPT !.flash = <<"/dev/mtdblock", "2">> :> [size |-> 8, mac |-> <<>>],
                    !.osRelease = Error, !.routes = Error,
                    !.addrs = "eth0.2" :> Error]

MCBoards == {Factory, Bare}

MaxRoutes == 3

MCRoutes == [Dst : {"nil", "net"}, Priority : 0..1, LinkIndex : 1..3]

MCRouteBoards ==
    {[routes |-> list, links |-> Factory.links] :
        list \in BoundedSeq(MCRoutes, MaxRoutes) \cup {Error}}

=============================================================================
