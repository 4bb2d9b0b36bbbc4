------------------------------- MODULE UsbSetup -------------------------------
(***************************************************************************)
(* How USBETHdev_init() (uip/drivers/usb/usbeth_dev.c) finds its adapter:  *)
(* the USB stack calls ethernet_probe() for the device that is plugged in, *)
(* the ASIX driver looks at it, then the PicoWifi driver, and the one that *)
(* knows it runs a list of control commands, each of which may fail.  Some *)
(* failures end the list, others are not looked at.                        *)
(***************************************************************************)
EXTENDS Integers, Sequences

CONSTANTS
  Dongles,       \* which devices may be plugged in, "none" among them
  Polls          \* how often the link is asked for before it is given up

VARIABLES
  su             \* the state of the setup, see SetupInit

-----------------------------------------------------------------------------
(* The commands of each list: must is "found only if this succeeds".        *)

Must(c) == [c |-> c, must |-> TRUE]
Try(c) == [c |-> c, must |-> FALSE]

\* asix_mdio_read() and asix_mdio_write(): three commands, no result looked at.
Mdio(reg) == <<Try("sw_mii"), Try(reg), Try("hw_mii")>>

\* mii_nway_restart()
NwayRestart == Mdio("read BMCR") \o Mdio("write BMCR")

\* asix_sw_reset(), asix_get_phy_addr(), asix_write_medium_mode(),
\* asix_read_rx_ctl(), asix_write_rx_ctl() and asix_write_gpio(), as the two
\* resets take their results.
SwReset(flags) == Must(flags)
PhyAddr == Try("phy id")
MediumMode == Must("medium")
ReadRxCtl == Try("read rx")
RxOff == Must("rx off")
Gpio == Must("gpio")

BasicReset172 ==
  <<Gpio, RxOff, PhyAddr>>
  \o Mdio("write BMCR") \o Mdio("write ADVERTISE") \o NwayRestart
  \o <<MediumMode>>

BasicReset772 ==
  <<Gpio, PhyAddr, Must("phy select"),
    SwReset("IPPD"), SwReset("clear"), SwReset("phy"),
    ReadRxCtl, RxOff, ReadRxCtl, PhyAddr>>
  \o Mdio("write BMCR") \o Mdio("write ADVERTISE") \o NwayRestart
  \o <<MediumMode, Must("ipg")>>

\* Wrong on purpose: the result of the EEPROM's words is not looked at.
ReadMacUnchecked(kind) ==
  IF kind = "772B" THEN <<Try("mac 1"), Try("mac 2"), Try("mac 3")>> ELSE <<Must("mac")>>

\* asix_read_mac(): three words out of the EEPROM or one command.
ReadMac(kind) ==
  IF kind = "772B" THEN <<Must("mac 1"), Must("mac 2"), Must("mac 3")>> ELSE <<Must("mac")>>

\* asix_init(): the receiver, then the link.  Its result is not looked at; when
\* the receiver cannot be switched on, the link is not asked for.
AsixInit == <<Try("rx on")>>

AsixInfo(kind) ==
  (IF kind = "172" THEN BasicReset172 ELSE BasicReset772) \o ReadMac(kind) \o AsixInit

\* picowifi_load_wificred(): there may be no file, or no password in it.
Credentials == {"none", "open", "password"}

\* picowifi_init(): without credentials the device's own are used.
PicoInit(cred) ==
  CASE cred = "none" -> <<>>
    [] cred = "open" -> <<Try("ssid"), Try("connect")>>
    [] cred = "password" -> <<Try("ssid"), Try("passwd"), Try("connect")>>

-----------------------------------------------------------------------------
(* ethernet_probe()                                                         *)

\* mac: the words of the address read so far, of three.  rx: the receiver.
\* result: "busy", "asix", "picowifi" or "nothing".  given: what uIP has for an
\* address, "unset" until USBETHdev_init() ends, "none" if it gave up.
Blank ==
  [kind |-> "none", todo |-> <<>>, mac |-> {}, rx |-> "off", link |-> FALSE,
   polls |-> 0, result |-> "start", given |-> "unset"]

SetupInit == su = Blank

Taken(kind, mac, todo) ==
  [su EXCEPT !.kind = kind, !.result = "busy", !.mac = mac, !.todo = todo]

Refused(kind) == [su EXCEPT !.kind = kind, !.result = "nothing"]

\* asix_eth_probe(): a known dongle may still be refused, for want of memory or
\* for its endpoints.  asix_eth_get_info() follows.
AsixProbe(kind) == su' \in {Refused(kind), Taken(kind, {}, AsixInfo(kind))}

\* picowifi_eth_probe(); picowifi_eth_get_info() has the address from the serial
\* number, before anything is asked of the device.
PicoProbe(kind) ==
  \/ su' = Refused(kind)
  \/ \E cred \in Credentials : su' = Taken(kind, {1, 2, 3}, PicoInit(cred))

\* ethernet_probe(), if udd_register() finds a device at all.
Probe ==
  /\ su.result = "start"
  /\ \E kind \in Dongles :
       \/ kind \in {"172", "772", "772B"} /\ AsixProbe(kind)
       \/ kind = "picowifi" /\ PicoProbe(kind)
       \/ kind \in {"other", "none"} /\ su' = Refused(kind)

Words(c) ==
  CASE c = "mac" -> {1, 2, 3}
    [] c = "mac 1" -> {1}
    [] c = "mac 2" -> {2}
    [] c = "mac 3" -> {3}
    [] OTHER -> {}

\* asix_write_cmd(), asix_read_cmd(): what the list asks for next.  A "172" and a
\* "772" differ from a real one in nothing the driver sees, save by failing.
Command ==
  /\ su.result = "busy" /\ su.todo # <<>>
  /\ \E ok \in BOOLEAN :
       LET c == Head(su.todo)
       IN su' = [su EXCEPT
            !.todo = IF ok \/ ~c.must THEN Tail(@) ELSE <<>>,
            !.result = IF ok \/ ~c.must THEN @ ELSE "nothing",
            !.mac = IF ok THEN @ \cup Words(c.c) ELSE @,
            !.rx = IF ~ok THEN @ ELSE IF c.c = "rx on" THEN "on"
                   ELSE IF c.c = "rx off" THEN "off" ELSE @,
            !.polls = IF c.c = "rx on" /\ ~ok THEN Polls ELSE @]

\* Wrong on purpose: the link is waited for as long as it takes.
AskLinkForEver ==
  /\ su.result = "busy" /\ su.todo = <<>> /\ ~su.link
  /\ \E up \in BOOLEAN : su' = [su EXCEPT !.link = up, !.polls = (@ + 1) % Polls]

\* The link is asked for until it is there or the time is over.
AskLink ==
  /\ su.result = "busy" /\ su.todo = <<>> /\ ~su.link /\ su.polls < Polls
  /\ \E up \in BOOLEAN : su' = [su EXCEPT !.link = up, !.polls = @ + 1]

\* Found, link or not.
GotInfo ==
  /\ su.result = "busy" /\ su.todo = <<>> /\ (su.link \/ su.polls = Polls)
  /\ su' = [su EXCEPT !.result = IF su.kind = "picowifi" THEN "picowifi" ELSE "asix"]

\* USBETHdev_init() ends before the address is copied: there is no USB stack, or
\* udd_register() fails.  Then driver_init() has failed, and main() ends.
GiveUp ==
  /\ su.result # "busy" /\ su.given = "unset"
  /\ su' = [su EXCEPT !.result = "nothing", !.given = "none"]

\* The rest of USBETHdev_init(): the address is copied, found or not.
CopyMac ==
  /\ su.result \in {"asix", "picowifi", "nothing"} /\ su.given = "unset"
  /\ su' = [su EXCEPT !.given =
       CASE su.mac = {} -> "zero" [] su.mac = {1, 2, 3} -> "whole" [] OTHER -> "part"]

SetupNext == Probe \/ Command \/ AskLink \/ GotInfo \/ GiveUp \/ CopyMac

SetupDone == su.given # "unset"

\* What is asked for later; the rest no step reads again.
Outcome == [Blank EXCEPT !.result = su.result, !.given = su.given]

CommandNames ==
  {"sw_mii", "hw_mii", "read BMCR", "write BMCR", "write ADVERTISE", "phy id",
   "phy select", "IPPD", "clear", "phy", "medium", "ipg", "read rx", "rx on", "rx off",
   "gpio", "mac", "mac 1", "mac 2", "mac 3", "ssid", "passwd", "connect"}

SetupTypeOK ==
  su \in [kind : Dongles \cup {"none"}, todo : Seq([c : CommandNames, must : BOOLEAN]),
          mac : SUBSET {1, 2, 3}, rx : {"on", "off"}, link : BOOLEAN, polls : 0..Polls,
          result : {"start", "busy", "asix", "picowifi", "nothing"},
          given : {"unset", "none", "zero", "part", "whole"}]
=============================================================================
