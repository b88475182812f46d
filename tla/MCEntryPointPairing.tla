------------------------ MODULE MCEntryPointPairing ------------------------
(***************************************************************************)
(* Instances of EntryPointPairing: every .info file with the sections      *)
(* below, in this order, that has at most MaxEntries entries, the function *)
(* names being distinct or shared by two entries.                          *)
(***************************************************************************)
EXTENDS EntryPointPairing, FiniteSets

CONSTANT MaxEntries     \* bound: entries of a file

SectionOrder == <<"whoop_driver_ops", "pci_driver", "usb_serial_driver", "dev_pm_ops",
                  "net_device_ops", "ethtool_ops", "file_operations",
                  "block_device_operations", "nfc_ops", "whoop_network_shared_struct">>

\* Candidate entries, <<section, operation>>: a network driver on a PCI bus, with its
\* power management and a file of its own.
NetSlots ==
    {<<"whoop_driver_ops", "probe">>, <<"pci_driver", "probe">>, <<"pci_driver", "remove">>,
     <<"pci_driver", "shutdown">>, <<"dev_pm_ops", "suspend">>, <<"dev_pm_ops", "resume">>,
     <<"dev_pm_ops", "runtime_suspend">>, <<"net_device_ops", "ndo_open">>,
     <<"net_device_ops", "ndo_start_xmit">>, <<"net_device_ops", "ndo_tx_timeout">>,
     <<"ethtool_ops", "get_regs">>, <<"file_operations", "read">>,
     <<"whoop_network_shared_struct", "alloc_etherdev">>}

\* Operations of the other classes whose calls the kernel serialises.
CharSlots ==
    {<<"whoop_driver_ops", "probe">>, <<"usb_serial_driver", "port_probe">>,
     <<"usb_serial_driver", "open">>, <<"usb_serial_driver", "ioctl">>,
     <<"usb_serial_driver", "set_termios">>, <<"file_operations", "release">>,
     <<"file_operations", "mmap">>, <<"file_operations", "read">>,
     <<"block_device_operations", "open">>, <<"block_device_operations", "release">>,
     <<"nfc_ops", "dev_up">>, <<"nfc_ops", "tm_send">>}

\* The operations of a section, in some order.
Entries(slots, section, names) ==
    LET S == {s \in slots : s[1] = section}
        f == CHOOSE g \in [1 .. Cardinality(S) -> S] : \A s \in S : \E k \in DOMAIN g : g[k] = s
    IN [k \in 1 .. Cardinality(S) |-> [api |-> f[k][2], name |-> names[f[k]]]]

Sections(slots, names) ==
    SelectSeq([k \in 1 .. Len(SectionOrder) |->
                [api |-> SectionOrder[k], entries |-> Entries(slots, SectionOrder[k], names)]],
              LAMBDA s : s.entries # <<>>)

MCInfoFiles ==
    UNION {{Sections(slots, names) : names \in [slots -> 1 .. Cardinality(slots)]} :
            slots \in {S \in SUBSET NetSlots \cup SUBSET CharSlots : Cardinality(S) \in 1 .. MaxEntries}}
=============================================================================
