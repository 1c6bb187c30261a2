-------------------------- MODULE MCPrinterDialogs --------------------------
(***************************************************************************)
(* A small instance of PrinterDialogs.  One machine is found by two        *)
(* backends (usb, dnssd), one of the same model by SNMP, and a third one   *)
(* on a remote server; the first three want the name that a printer has    *)
(* already.  The answer for usb, without its port, may mean dnssd as well. *)
(***************************************************************************)
EXTENDS PrinterDialogs

MCDevices == {"usb", "dnssd", "snmp", "ipp"}
Device(method, backend, base, usable, physical, network, begins) ==
  [method |-> method, backend |-> backend, base |-> base, usable |-> usable,
   physical |-> physical, network |-> network, begins |-> begins]
MCInfo ==
  [d \in MCDevices |->
     CASE d = "usb" -> Device("cups", 1, "laser", TRUE, 1, FALSE, {"usb", "dnssd"})
       [] d = "dnssd" -> Device("cups", 2, "laser", TRUE, 1, TRUE, {"dnssd"})
       [] d = "snmp" -> Device("snmp", 1, "laser", TRUE, 2, TRUE, {"snmp"})
       [] d = "ipp" -> Device("remote", 1, "queue", TRUE, 3, TRUE, {"ipp"})]
MCTexts ==
  {[words |-> 1, matches |-> {}], [words |-> 2, matches |-> {"queue"}]}
MCContested == {[base |-> "laser", index |-> 2]}
MCInitialQueues == {{[base |-> "laser", index |-> 1]}}
=============================================================================
