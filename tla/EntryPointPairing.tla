------------------------- MODULE EntryPointPairing -------------------------
(***************************************************************************)
(* DeviceDriver.ParseAndInitialize: the .info file that the front end      *)
(* writes for a driver is read twice (first its modules, then its entry    *)
(* points), and every pair of entry points that the kernel may run         *)
(* concurrently is put on the list of pairs to analyse.  An entry point    *)
(* that runs with the network disabled, or disables it, gets a clone       *)
(* "#net" that stands for it in the pairs with network entry points.       *)
(*                                                                         *)
(* A file is a sequence of sections [api, entries], an entry a record      *)
(* [api, name]: the operation and the driver's function that implements it.*)
(***************************************************************************)
EXTENDS Naturals, Sequences

CONSTANT InfoFiles      \* the .info files to consider

VARIABLES
    info,               \* the file being read
    status,             \* "modules", "entries", "pairing", "done", "exit"
    sec, line,          \* reader position: section, and entry within it
    Modules,            \* APIs of the modules, in file order
    whoopInit,
    EntryPoints, InitEntryPoint,
    SharedStructInitialiseFunc,
    EntryPointPairs,
    i, j                \* the two loop indices of the pairing loop

EPPvars == <<info, status, sec, line, Modules, whoopInit, EntryPoints, InitEntryPoint,
             SharedStructInitialiseFunc, EntryPointPairs, i, j>>

-----------------------------------------------------------------------------
(* The tables of kernel knowledge *)

BusDriver == {"test_driver", "pci_driver", "usb_driver", "usb_serial_driver",
              "platform_driver", "ps3_system_bus_driver", "cx_drv"}

PowerManagementAPI == {"prepare", "complete", "resume", "suspend", "freeze", "poweroff",
                       "restore", "thaw", "runtime_resume", "runtime_suspend", "runtime_idle"}

DeviceLockAPI == {"probe", "remove", "shutdown"} \cup PowerManagementAPI

PowerLockAPI == {"runtime_resume", "runtime_suspend", "runtime_idle"}

NetDeviceRTNL ==
    {"ndo_init", "ndo_uninit", "ndo_open", "ndo_stop", "ndo_start_xmit", "ndo_validate_addr",
     "ndo_change_mtu", "ndo_get_stats64", "ndo_get_stats", "ndo_poll_controller",
     "ndo_netpoll_setup", "ndo_netpoll_cleanup", "ndo_fix_features", "ndo_set_features",
     "ndo_set_mac_address", "ndo_do_ioctl", "ndo_set_rx_mode"}

EthtoolRTNL ==
    {"get_settings", "set_settings", "get_drvinfo", "get_regs_len", "get_regs", "get_wol",
     "set_wol", "get_msglevel", "set_msglevel", "nway_reset", "get_link", "get_eeprom_len",
     "get_eeprom", "set_eeprom", "get_coalesce", "set_coalesce", "get_ringparam",
     "set_ringparam", "get_pauseparam", "set_pauseparam", "self_test", "get_strings",
     "set_phys_id", "get_ethtool_stats", "begin", "complete", "get_priv_flags",
     "set_priv_flags", "get_sset_count", "get_rxnfc", "set_rxnfc", "flash_device", "reset",
     "get_rxfh_indir_size", "get_rxfh_indir", "set_rxfh_indir", "get_channels",
     "set_channels", "get_dump_flag", "get_dump_data", "set_dump", "get_ts_info",
     "get_module_info", "get_module_eeprom", "get_eee", "set_eee"}

RTNLAPI == NetDeviceRTNL \cup EthtoolRTNL

NetworkAPI == RTNLAPI \cup {"ndo_tx_timeout"}

TxLockAPI == {"ndo_start_xmit"}

DisablesNetwork == {"suspend", "freeze", "poweroff", "runtime_suspend", "shutdown"}

NetworkDisabled == {"resume", "restore", "thaw", "runtime_resume"}

NetpollDisabled == {"ndo_poll_controller", "ndo_open", "ndo_stop", "ndo_validate_addr"}

UsbIoctl == {"tiocmget", "tiocmset", "tiocmiwait", "get_icount", "ioctl"}

NfcAPI == {"dev_up", "dev_down", "dep_link_up", "dep_link_down", "activate_target",
           "deactivate_target", "im_transceive", "tm_send", "start_poll", "stop_poll"}

-----------------------------------------------------------------------------
(* Entry points *)

\* A record [name, api, module, init, exit, clone]; module is the API of the module.
IsBusOf(module, init) == module \in BusDriver \/ (init /\ module = "whoop_driver_ops")

NewEntryPoint(e, module, clone) ==
    [name   |-> e.name,
     api    |-> e.api,
     module |-> module,
     clone  |-> clone,
     init   |-> e.api \in {"probe", "port_probe"} /\ IsBusOf(module, whoopInit),
     exit   |-> e.api \in {"remove", "port_remove"} /\ IsBusOf(module, whoopInit)]

IsGoingToDisableNetwork(ep) ==
    /\ \E m \in 1 .. Len(Modules) : Modules[m] = "net_device_ops"
    /\ ep.api \in DisablesNetwork

IsCalledWithNetworkDisabled(ep) == ep.api \in NetworkDisabled

NeedsClone(ep) == IsCalledWithNetworkDisabled(ep) \/ IsGoingToDisableNetwork(ep)

-----------------------------------------------------------------------------
(* Which entry points are paired *)

\* Mutant: an entry point with a clone also keeps its own network pairs.
CanBePaired_KeepsOriginal(ep1, ep2) ==
    \/ NeedsClone(ep1) /\ ep2.api \in NetworkAPI
    \/ NeedsClone(ep2) /\ ep1.api \in NetworkAPI
    \/ ~ ep1.clone /\ ~ ep2.clone

\* Mutant: where the network does not matter, a clone is paired like its original.
CanBePaired_ClonesToo(ep1, ep2) ==
    IF IsCalledWithNetworkDisabled(ep1) /\ ep2.api \in NetworkAPI THEN ep1.clone
    ELSE IF IsCalledWithNetworkDisabled(ep2) /\ ep1.api \in NetworkAPI THEN ep2.clone
    ELSE TRUE

\* The checks in the order of the code: the first that applies decides.
CanBePaired(ep1, ep2) ==
    IF IsCalledWithNetworkDisabled(ep1) /\ ep2.api \in NetworkAPI THEN ep1.clone
    ELSE IF IsCalledWithNetworkDisabled(ep2) /\ ep1.api \in NetworkAPI THEN ep2.clone
    ELSE IF IsGoingToDisableNetwork(ep1) /\ ep2.api \in NetworkAPI THEN ep1.clone
    ELSE IF IsGoingToDisableNetwork(ep2) /\ ep1.api \in NetworkAPI THEN ep2.clone
    ELSE ~ ep1.clone /\ ~ ep2.clone

Either(ep1, ep2, apis) == ep1.api \in apis \/ ep2.api \in apis
Both(ep1, ep2, apis) == ep1.api \in apis /\ ep2.api \in apis
SameModule(ep1, ep2, module) == ep1.module = module /\ ep2.module = module

IsFileOperationsSerialised(ep1, ep2) ==
    /\ SameModule(ep1, ep2, "file_operations")
    /\ Either(ep1, ep2, {"release"}) \/ Both(ep1, ep2, {"mmap"})

IsBlockOperationsSerialised(ep1, ep2) ==
    /\ SameModule(ep1, ep2, "block_device_operations")
    /\ Either(ep1, ep2, {"release", "revalidate_disk"})

IsUSBOperationsSerialised(ep1, ep2) ==
    /\ SameModule(ep1, ep2, "usb_serial_driver")
    /\ \/ Either(ep1, ep2, {"port_probe", "attach", "port_remove", "open", "process_read_urb"})
       \/ Both(ep1, ep2, UsbIoctl)
       \/ Both(ep1, ep2, {"set_termios"})
       \/ Both(ep1, ep2, {"dtr_rts"})

IsNFCOperationsSerialised(ep1, ep2) ==
    SameModule(ep1, ep2, "nfc_ops") /\ Both(ep1, ep2, NfcAPI)

CanRunConcurrently(ep1, ep2) ==
    /\ ~ (ep1.init /\ ep2.init)
    /\ ~ ep1.exit /\ ~ ep2.exit
    /\ \A apis \in {DeviceLockAPI, PowerLockAPI, RTNLAPI, TxLockAPI, PowerManagementAPI,
                    NetpollDisabled} : ~ Both(ep1, ep2, apis)
    /\ ~ IsFileOperationsSerialised(ep1, ep2)
    /\ ~ IsBlockOperationsSerialised(ep1, ep2)
    /\ ~ IsUSBOperationsSerialised(ep1, ep2)
    /\ ~ IsNFCOperationsSerialised(ep1, ep2)

\* The Name of an entry point: a clone has its original's name with "#net".
Name(ep) == <<ep.name, ep.clone>>

IsPair(p, n1, n2) ==
    \/ Name(p.ep1) = n1 /\ Name(p.ep2) = n2
    \/ Name(p.ep1) = n2 /\ Name(p.ep2) = n1

IsNewPair(n1, n2) ==
    \A k \in 1 .. Len(EntryPointPairs) : ~ IsPair(EntryPointPairs[k], n1, n2)

-----------------------------------------------------------------------------
(* ParseAndInitialize *)

Range(s) == {s[k] : k \in 1 .. Len(s)}

EPPInit ==
    /\ info \in InfoFiles
    /\ status = "modules"
    /\ sec = 1 /\ line = 1
    /\ Modules = <<>>
    /\ whoopInit = TRUE
    /\ EntryPoints = <<>>
    /\ InitEntryPoint = "null"
    /\ SharedStructInitialiseFunc = ""
    /\ EntryPointPairs = <<>>
    /\ i = 1 /\ j = 1

\* First reading, one section: its module is added, its entries are skipped.
ReadModule ==
    /\ status = "modules"
    /\ IF sec <= Len(info)
       THEN /\ Modules' = Append(Modules, info[sec].api)
            /\ whoopInit' = (whoopInit /\ info[sec].api \notin BusDriver)
            /\ sec' = sec + 1
            /\ UNCHANGED status
       ELSE /\ status' = "entries"
            /\ sec' = 1
            /\ UNCHANGED <<Modules, whoopInit>>
    /\ UNCHANGED <<info, line, EntryPoints, InitEntryPoint, SharedStructInitialiseFunc,
                   EntryPointPairs, i, j>>

\* The section of the shared network structure starts with the function that
\* initialises it.
AtSharedStruct == info[sec].api = "whoop_network_shared_struct" /\ line = 1

ReadSharedStruct ==
    /\ status = "entries" /\ sec <= Len(info) /\ line <= Len(info[sec].entries)
    /\ AtSharedStruct
    /\ SharedStructInitialiseFunc' = info[sec].entries[line].name
    /\ line' = line + 1
    /\ UNCHANGED <<info, status, sec, Modules, whoopInit, EntryPoints, InitEntryPoint,
                   EntryPointPairs, i, j>>

\* Second reading, one entry.  The constructor of EntryPoint makes a probe
\* function the init entry point, and gives up if there is one already.
ReadEntry ==
    /\ status = "entries" /\ sec <= Len(info) /\ line <= Len(info[sec].entries)
    /\ ~ AtSharedStruct
    /\ LET ep == NewEntryPoint(info[sec].entries[line], info[sec].api, FALSE)
           known == \E k \in 1 .. Len(EntryPoints) : Name(EntryPoints[k]) = Name(ep)
       IN IF ep.init /\ InitEntryPoint # "null"
          THEN /\ status' = "exit"
               /\ UNCHANGED <<EntryPoints, InitEntryPoint, line>>
          ELSE /\ InitEntryPoint' = IF ep.init THEN ep.name ELSE InitEntryPoint
               /\ EntryPoints' =
                    EntryPoints \o (IF known THEN <<>>
                                    ELSE IF NeedsClone(ep) THEN <<ep, [ep EXCEPT !.clone = TRUE]>>
                                    ELSE <<ep>>)
               /\ line' = line + 1
               /\ UNCHANGED status
    /\ UNCHANGED <<info, sec, Modules, whoopInit, SharedStructInitialiseFunc, EntryPointPairs, i, j>>

\* The section's "</>", or the end of the file.
EndSection ==
    /\ status = "entries"
    /\ IF sec <= Len(info)
       THEN /\ line > Len(info[sec].entries)
            /\ sec' = sec + 1 /\ line' = 1
            /\ UNCHANGED status
       ELSE /\ status' = "pairing"
            /\ UNCHANGED <<sec, line>>
    /\ UNCHANGED <<info, Modules, whoopInit, EntryPoints, InitEntryPoint, SharedStructInitialiseFunc,
                   EntryPointPairs, i, j>>

\* One iteration of the two nested loops over the entry points.
Pair ==
    /\ status = "pairing"
    /\ IF i <= Len(EntryPoints)
       THEN LET ep1 == EntryPoints[i]
                ep2 == EntryPoints[j]
            IN /\ EntryPointPairs' =
                    IF CanBePaired(ep1, ep2) /\ IsNewPair(Name(ep1), Name(ep2))
                       /\ CanRunConcurrently(ep1, ep2)
                    THEN Append(EntryPointPairs, [ep1 |-> ep1, ep2 |-> ep2])
                    ELSE EntryPointPairs
               /\ IF j < Len(EntryPoints) THEN j' = j + 1 /\ i' = i
                                          ELSE j' = 1 /\ i' = i + 1
               /\ UNCHANGED status
       ELSE status' = "done" /\ UNCHANGED <<EntryPointPairs, i, j>>
    /\ UNCHANGED <<info, sec, line, Modules, whoopInit, EntryPoints, InitEntryPoint,
                   SharedStructInitialiseFunc>>

EPPNext == ReadModule \/ ReadSharedStruct \/ ReadEntry \/ EndSection \/ Pair

EPPSpec == EPPInit /\ [][EPPNext]_EPPvars

-----------------------------------------------------------------------------
(* Properties *)

\* The pairs of the list that stand for the entry points a and b, directly or
\* through the clone of one of them.
Standing(a, b) ==
    {k \in 1 .. Len(EntryPointPairs) :
        LET p == EntryPointPairs[k]
        IN {p.ep1.name, p.ep2.name} = {a.name, b.name}}

\* Every two functions that may run concurrently are analysed as exactly one
\* pair, and no others are: the clones for the disabled network neither lose a
\* pair nor analyse one twice.
CoveredOnce ==
    status = "done" =>
        \A a, b \in {ep \in Range(EntryPoints) : ~ ep.clone} :
            IF CanRunConcurrently(a, b)
            THEN \E k \in 1 .. Len(EntryPointPairs) : Standing(a, b) = {k}
            ELSE Standing(a, b) = {}

\* A clone is paired with network operations only: it stands for its original
\* just where the network matters.
ClonesMeetNetworkOnly ==
    \A p \in Range(EntryPointPairs) :
        /\ p.ep1.clone => p.ep2.api \in NetworkAPI
        /\ p.ep2.clone => p.ep1.api \in NetworkAPI

=============================================================================
