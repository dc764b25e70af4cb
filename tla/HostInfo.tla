------------------------------ MODULE HostInfo ------------------------------
(***************************************************************************)
(* What the program reads from the board it runs on: the device id and the *)
(* OS version (device_info), the route and the interfaces in use           *)
(* (network_info), and the name and the password it shows the broker       *)
(* (utils).  None of it keeps state: every function is an operator on what *)
(* the board has at the moment of the call.                                *)
(*                                                                         *)
(* A text is a sequence of words, so that <<"mtd", "2">> has the prefix    *)
(* <<"mtd">>.  A board is a record:                                        *)
(*   mtd         the lines of /proc/mtd, each with the words before its    *)
(*               first ':' (dev), whether it has a ':' and the name it     *)
(*               quotes; Error when the file cannot be read                *)
(*   mtdblockDir whether /dev/mtdblock is a directory                      *)
(*   flash       the block devices: path |-> size and the MAC at an offset *)
(*   osRelease   the lines name=value of /etc/os-release, or Error         *)
(*   routes      the kernel's routes in the order netlink lists them       *)
(*   links       interface index |-> name                                  *)
(*   addrs       interface name |-> its addresses, or Error                *)
(*   reachable   the interfaces through which the ping is answered         *)
(***************************************************************************)
EXTENDS Integers, Sequences, SequencesExt

CONSTANT Error    \* what a function returns with an error instead of a value

-----------------------------------------------------------------------------
(* device_info *)

\* The regular expression key="?([^"]+)"? is not anchored: it finds key= at
\* the end of any name, and wants a value of at least one character.
Matches(line, key) == IsSuffix(key, line.name) /\ line.value # ""

\* getValueFromFile: the value of the first line that matches.
getValueFromFile(file, key) ==
    LET i == IF file = Error THEN 0
             ELSE SelectInSeq(file, LAMBDA line : Matches(line, key))
    IN  IF i = 0 THEN Error ELSE file[i].value

GetOSVersion(board) == getValueFromFile(board.osRelease, <<"VERSION">>)

\* strings.TrimPrefix
TrimPrefix(text, prefix) ==
    IF IsPrefix(prefix, text) THEN SubSeq(text, Len(prefix) + 1, Len(text)) ELSE text

\* findMtdIndex: the first line that quotes the name and has a ':' gives
\* what is before the ':', without a leading "mtd".
findMtdIndex(mtd, name) ==
    LET i == IF mtd = Error THEN 0
             ELSE SelectInSeq(mtd, LAMBDA line : line.name = name /\ line.colon)
    IN  IF i = 0 THEN Error ELSE TrimPrefix(mtd[i].dev, <<"mtd">>)

\* findMtdPart: the block device of the partition; an empty index is an error.
findMtdPart(board, name) ==
    LET index == findMtdIndex(board.mtd, name)
    IN  IF index \in {Error, <<>>} THEN Error
        ELSE <<IF board.mtdblockDir THEN "/dev/mtdblock/" ELSE "/dev/mtdblock">> \o index

MacSize == 6

\* getMACBinary: Open, Seek, which goes past the end without an error, and
\* ReadFull, which wants all six bytes; the bytes are printed as a MAC.
getMACBinary(flash, path, offset) ==
    IF path \notin DOMAIN flash \/ flash[path].size < offset + MacSize THEN Error
    ELSE flash[path].mac[offset]

getMac(board, mtdName, offset) ==
    LET partition == findMtdPart(board, mtdName)
    IN  IF partition = Error THEN Error ELSE getMACBinary(board.flash, partition, offset)

\* GetDeviceId: the label of the configuration, or the MAC of the factory
\* partition.
GetDeviceId(label, board) ==
    IF label # "" THEN label ELSE getMac(board, "factory", 4)

-----------------------------------------------------------------------------
(* network_info *)

\* The route GetPriorityRoute's loop has selected so far; minMetric is -1
\* until there is one.
NoRoute == [minMetric |-> -1, LinkIndex |-> 0]

PreferLastOfEquals(selected, route) ==
    IF route.Dst = "nil" /\ (selected.minMetric = -1 \/ route.Priority <= selected.minMetric)
    THEN [minMetric |-> route.Priority, LinkIndex |-> route.LinkIndex]
    ELSE selected

\* A turn of the loop: a default route with a lower metric is selected.
Prefer(selected, route) ==
    IF route.Dst = "nil" /\ (selected.minMetric = -1 \/ route.Priority < selected.minMetric)
    THEN [minMetric |-> route.Priority, LinkIndex |-> route.LinkIndex]
    ELSE selected

\* GetPriorityRoute: the name of the interface of the selected route.  With
\* no default route it asks for the interface of index 0.
GetPriorityRoute(board) ==
    LET LinkIndex == IF board.routes = Error THEN Error
                     ELSE FoldLeft(Prefer, NoRoute, board.routes).LinkIndex
    IN  IF LinkIndex \in DOMAIN board.links THEN board.links[LinkIndex] ELSE Error

\* getIpFromInterface: the first address of the interface.
getIpFromInterface(board, interfaceName) ==
    IF interfaceName \notin DOMAIN board.addrs
           \/ board.addrs[interfaceName] \in {Error, <<>>} THEN Error
    ELSE Head(board.addrs[interfaceName])

\* checkConnectivity: one ping through the interface, answered within 5 s.
checkConnectivity(board, networkInterface) == networkInterface \in board.reachable

\* GetWiredInterfaceStatus and GetModemInterfaceStatus: an interface without
\* an address is an error, one without an answer is not.
InterfaceStatus(board, interfaceName) ==
    IF getIpFromInterface(board, interfaceName) = Error THEN Error
    ELSE IF checkConnectivity(board, interfaceName) THEN "available" ELSE "unavailable"

GetWiredInterfaceStatus(board) == InterfaceStatus(board, "eth0.2")

GetModemInterfaceStatus(board) == InterfaceStatus(board, "wwan0")

-----------------------------------------------------------------------------
(* utils *)

\* GetUserName: "" when the device id cannot be read.
GetUserName(label, board) ==
    LET deviceId == GetDeviceId(label, board)
    IN  IF deviceId = Error THEN "" ELSE <<"router_", deviceId>>

BlockSize == 16    \* aes.BlockSize
KeySizes  == {16, 24, 32}

PaddingWhenNeeded(len) == (BlockSize - (len % BlockSize)) % BlockSize

\* EncryptAES256ECB's padding: as many bytes as lack to the next block, a
\* whole block when none does.
Padding(len) == BlockSize - (len % BlockSize)

Padded(data) == data \o [i \in 1..Padding(Len(data)) |-> Padding(Len(data))]

\* EncryptAES256ECB: the padded data, block by block; a key that is no AES
\* key is an error.
EncryptAES256ECB(keySize, data) ==
    IF keySize \notin KeySizes THEN Error
    ELSE [i \in 1..(Len(Padded(data)) \div BlockSize) |->
             <<"Encrypt", SubSeq(Padded(data), BlockSize * (i - 1) + 1, BlockSize * i)>>]

-----------------------------------------------------------------------------
(* Reference definitions *)

\* GetPriorityRoute by definition: the interface of the default route with
\* the least metric, the first of the kernel's list among equals; an error
\* without a default route or when the interface has gone.
LeastDefaultRoute(board) ==
    LET routes   == board.routes
        defaults == IF routes = Error THEN {}
                    ELSE {i \in DOMAIN routes : routes[i].Dst = "nil"}
        Before(i, j) == \/ routes[i].Priority < routes[j].Priority
                        \/ routes[i].Priority = routes[j].Priority /\ i <= j
        least    == CHOOSE i \in defaults : \A j \in defaults : Before(i, j)
    IN  IF defaults # {} /\ routes[least].LinkIndex \in DOMAIN board.links
        THEN board.links[routes[least].LinkIndex] ELSE Error

\* What EncryptAES256ECB encrypts.
Plain(ciphertext) == FlattenSeq([i \in DOMAIN ciphertext |-> ciphertext[i][2]])

\* PKCS#7 as the reader of the password undoes it: as many bytes come off
\* as the last byte says, and what is left is data.
Unpads(plain, data) ==
    /\ Len(plain) > 0
    /\ Last(plain) \in 1..Len(plain)
    /\ SubSeq(plain, 1, Len(plain) - Last(plain)) = data

=============================================================================
