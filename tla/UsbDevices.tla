----------------------------- MODULE UsbDevices -----------------------------
(***************************************************************************)
(* How chdkptp (src/chdkptp.c) finds a USB camera: the libusb-0.1 bus     *)
(* list get_busses returns, the USB_IS_PTP test, find_device_by_path,     *)
(* which every connect, close, get_con_devinfo and chdk.reset_device      *)
(* calls, chdk.list_usb_devices, which gives Lua the bus and dev names it *)
(* later passes to chdk.connection, and find_endpoints, which picks the   *)
(* bulk and interrupt pipes from the PTP interface's descriptors.          *)
(*                                                                         *)
(* These are pure functions of what libusb reports; each is an operator.  *)
(* A bus is its dirname and its devices in list order; a device is its    *)
(* filename, the parts of its descriptors the code reads, and its         *)
(* endpoint descriptors.                                                   *)
(***************************************************************************)
EXTENDS Naturals, Sequences, Bitwise

LOCAL INSTANCE SequencesExt

USB_CLASS_PTP == 6
USB_ENDPOINT_TYPE_BULK == 2
USB_ENDPOINT_TYPE_INTERRUPT == 3
USB_ENDPOINT_DIR_MASK == 128

\* find_device_by_path's NULL.
NoDev == [filename |-> "none"]

(* USB_IS_PTP: a configuration, at least one interface, and the first     *)
(* interface's first altsetting of class PTP.  && stops at the first      *)
(* false test, so a device without configuration is never dereferenced.   *)
USB_IS_PTP(dev) ==
    /\ dev.config
    /\ dev.numInterfaces > 0
    /\ dev.interfaceClass = USB_CLASS_PTP

IsIn(addr) == (addr & USB_ENDPOINT_DIR_MASK) = USB_ENDPOINT_DIR_MASK

\* Fault-injected variant: an interrupt endpoint of either direction.
FindEndpointsStepAnyIntDir(found, ep) ==
    IF ep.bmAttributes = USB_ENDPOINT_TYPE_BULK
    THEN [found EXCEPT
            !.inep  = IF IsIn(ep.bEndpointAddress) THEN ep.bEndpointAddress ELSE @,
            !.outep = IF (ep.bEndpointAddress & USB_ENDPOINT_DIR_MASK) = 0
                      THEN ep.bEndpointAddress ELSE @]
    ELSE IF ep.bmAttributes = USB_ENDPOINT_TYPE_INTERRUPT
         THEN [found EXCEPT !.intep = ep.bEndpointAddress]
         ELSE found

(* One turn of find_endpoints' loop: a bulk endpoint sets inep or outep   *)
(* by its direction bit; otherwise an interrupt IN endpoint sets intep.   *)
(* Nothing else changes the three results.                                 *)
FindEndpointsStep(found, ep) ==
    IF ep.bmAttributes = USB_ENDPOINT_TYPE_BULK
    THEN [found EXCEPT
            !.inep  = IF IsIn(ep.bEndpointAddress) THEN ep.bEndpointAddress ELSE @,
            !.outep = IF (ep.bEndpointAddress & USB_ENDPOINT_DIR_MASK) = 0
                      THEN ep.bEndpointAddress ELSE @]
    ELSE IF ep.bmAttributes = USB_ENDPOINT_TYPE_INTERRUPT /\ IsIn(ep.bEndpointAddress)
         THEN [found EXCEPT !.intep = ep.bEndpointAddress]
         ELSE found

(* find_endpoints over the bNumEndpoints descriptors of the first         *)
(* altsetting.  found is what *inep, *outep and *intep held before: a     *)
(* descriptor list without one of the kinds leaves that output as it was. *)
RECURSIVE FindEndpoints(_, _)
FindEndpoints(eps, found) ==
    IF eps = <<>> THEN found
    ELSE FindEndpoints(Tail(eps), FindEndpointsStep(found, Head(eps)))

(* find_device_by_path: the first PTP device named findDev on the first   *)
(* bus named findBus; busses of another name are skipped whole.           *)
RECURSIVE FindOnBus(_, _)
FindOnBus(devs, findDev) ==
    IF devs = <<>> THEN NoDev
    ELSE IF USB_IS_PTP(Head(devs)) /\ Head(devs).filename = findDev
         THEN Head(devs)
         ELSE FindOnBus(Tail(devs), findDev)

\* Fault-injected variant: the dirname test dropped.
RECURSIVE FindDeviceByPathAnyBus(_, _, _)
FindDeviceByPathAnyBus(busses, findBus, findDev) ==
    IF busses = <<>> THEN NoDev
    ELSE LET d == FindOnBus(Head(busses).devices, findDev)
         IN  IF d # NoDev THEN d
             ELSE FindDeviceByPathAnyBus(Tail(busses), findBus, findDev)

RECURSIVE FindDeviceByPath(_, _, _)
FindDeviceByPath(busses, findBus, findDev) ==
    IF busses = <<>> THEN NoDev
    ELSE IF Head(busses).dirname # findBus
         THEN FindDeviceByPath(Tail(busses), findBus, findDev)
         ELSE LET d == FindOnBus(Head(busses).devices, findDev)
              IN  IF d # NoDev THEN d
                  ELSE FindDeviceByPath(Tail(busses), findBus, findDev)

(* push_usb_dev_info: the entry Lua gets for a device, named by          *)
(* dev->bus->dirname and dev->filename.                                    *)
UsbDevInfo(dev) ==
    [bus |-> dev.bus, dev |-> dev.filename, vendor_id |-> dev.idVendor]

(* chdk_list_usb_devices: the PTP devices of every bus, in bus order and  *)
(* in device order within a bus.                                          *)
RECURSIVE ListUsbDevices(_)
ListUsbDevices(busses) ==
    IF busses = <<>> THEN <<>>
    ELSE LET b == Head(busses)
             ptp == SelectSeq(b.devices, USB_IS_PTP)
         IN  [i \in 1..Len(ptp) |-> UsbDevInfo(ptp[i])]
             \o ListUsbDevices(Tail(busses))

(* get_lua_devspec_usb: a table whose dev and bus fields lua_tostring     *)
(* turns into strings (a number is converted, anything else gives NULL),  *)
(* or failure.  A field is a string, a number or some other Lua value.   *)
Null == "(NULL)"
LuaToString(v) == IF v.kind \in {"string", "number"} THEN v.text ELSE Null
GetLuaDevspecUsb(spec) ==
    IF ~spec.table \/ LuaToString(spec.dev) = Null \/ LuaToString(spec.bus) = Null
    THEN NoDev
    ELSE [bus |-> LuaToString(spec.bus), dev |-> LuaToString(spec.dev)]

(* chdk_get_con_devinfo for a USB connection: the device's entry when     *)
(* find_device_by_path finds it, else only the bus and dev names kept in  *)
(* ptp_cs; transport "usb" in either case.                                 *)
ConDevinfoUsb(busses, bus, dev) ==
    LET d == FindDeviceByPath(busses, bus, dev)
    IN  IF d = NoDev
        THEN [bus |-> bus, dev |-> dev, vendor_id |-> Null, transport |-> "usb"]
        ELSE [bus |-> d.bus, dev |-> d.filename, vendor_id |-> d.idVendor,
              transport |-> "usb"]

(* chdk_reset_device: the error "baddev" without a devspec, "nodev" when  *)
(* find_device_by_path finds nothing, else reset_device of the device.    *)
ChdkResetDevice(busses, spec) ==
    LET s == GetLuaDevspecUsb(spec)
        d == IF s = NoDev THEN NoDev ELSE FindDeviceByPath(busses, s.bus, s.dev)
    IN  CASE s = NoDev -> [etype |-> "baddev", dev |-> NoDev]
          [] d = NoDev -> [etype |-> "nodev", dev |-> NoDev]
          [] OTHER     -> [etype |-> "none", dev |-> d]
-----------------------------------------------------------------------------
(* Bounded inputs.  Endpoint descriptors of USB 2.0 devices: control,     *)
(* isochronous (plain and asynchronous), bulk and interrupt, whose        *)
(* bmAttributes bits 7..2 are zero except for isochronous endpoints, with *)
(* IN and OUT addresses; lists of up to three, and the values the three   *)
(* outputs held before (zero from chdk_connection's memset, or a previous *)
(* connect's).                                                             *)
EpAttrs == {0, 1, 2, 3, 5}
EpAddrs == {1, 2, 129, 130}
Endpoint == [bmAttributes : EpAttrs, bEndpointAddress : EpAddrs]
EpLists == UNION {[1..n -> Endpoint] : n \in 0..3}
Priors == {[inep |-> 0, outep |-> 0, intep |-> 0],
           [inep |-> 129, outep |-> 2, intep |-> 130]}

(* Busses as Linux names them: dirnames "001" and "002", and device       *)
(* filenames numbered per bus, so one filename can appear on both.  A     *)
(* device is a PTP camera, a device of another class, one without         *)
(* interfaces, or one without a configuration.                            *)
BusNames == {"001", "002"}
FileNames == {"001", "002"}
DevKinds == {[config |-> TRUE, numInterfaces |-> 1, interfaceClass |-> 6],
             [config |-> TRUE, numInterfaces |-> 1, interfaceClass |-> 8],
             [config |-> TRUE, numInterfaces |-> 0, interfaceClass |-> 6],
             [config |-> FALSE, numInterfaces |-> 0, interfaceClass |-> 0]}
Device(b, f, k) ==
    [bus |-> b, filename |-> f, idVendor |-> 1193, config |-> k.config,
     numInterfaces |-> k.numInterfaces, interfaceClass |-> k.interfaceClass]
NameOrders(S) ==
    {<<>>} \cup {<<x>> : x \in S} \cup {<<x, y>> \in S \X S : x # y}
Bus(b) ==
    UNION {{[dirname |-> b,
             devices |-> [i \in 1..Len(o) |-> Device(b, o[i], k[i])]] :
               k \in [1..Len(o) -> DevKinds]} : o \in NameOrders(FileNames)}
Layouts == {<<x, y>> : x \in Bus("001"), y \in Bus("002")}
           \cup {<<y, x>> : x \in Bus("001"), y \in Bus("002")}

-----------------------------------------------------------------------------
(* The pipes the interface describes, by the USB meaning of a descriptor: *)
(* the transfer type is bmAttributes bits 1..0, the direction bit 7 of    *)
(* the address.  Each is the last such endpoint, as a loop that keeps     *)
(* overwriting gives, or the prior value when there is none.              *)
TransferType(ep) == ep.bmAttributes % 4
LastAddr(eps, type, dirIn, prior) ==
    LET i == SelectLastInSeq(eps, LAMBDA ep : TransferType(ep) = type
                                     /\ (ep.bEndpointAddress >= 128) = dirIn)
    IN  IF i = 0 THEN prior ELSE eps[i].bEndpointAddress

(* find_endpoints gives the bulk IN, bulk OUT and interrupt IN pipes the  *)
(* descriptors describe, so the bulk reads and writes of every            *)
(* transaction and the event reads of ptp_usb_check_int go to pipes of   *)
(* the right type and direction.                                           *)
EndpointsAsDescribed ==
    \A eps \in EpLists, prior \in Priors :
        FindEndpoints(eps, prior) =
            [inep  |-> LastAddr(eps, USB_ENDPOINT_TYPE_BULK, TRUE, prior.inep),
             outep |-> LastAddr(eps, USB_ENDPOINT_TYPE_BULK, FALSE, prior.outep),
             intep |-> LastAddr(eps, USB_ENDPOINT_TYPE_INTERRUPT, TRUE, prior.intep)]

(* Every camera chdk.list_usb_devices lists can be used by the bus and    *)
(* dev names it lists: find_device_by_path, which connect and close use,  *)
(* finds that very device, chdk.reset_device given the entry resets it,   *)
(* and get_con_devinfo reports it; and every device find_device_by_path  *)
(* finds is listed.  Filenames repeat across busses, so this rests on the *)
(* dirname test of find_device_by_path.                                    *)
ListedDevicesReachable ==
    \A layout \in Layouts :
        LET listed == ListUsbDevices(layout)
            entries == {listed[i] : i \in 1..Len(listed)}
            Spec(e) == [table |-> TRUE, bus |-> [kind |-> "string", text |-> e.bus],
                        dev |-> [kind |-> "string", text |-> e.dev]]
        IN  /\ \A e \in entries :
                 LET d == FindDeviceByPath(layout, e.bus, e.dev)
                 IN  /\ d # NoDev /\ UsbDevInfo(d) = e
                     /\ ChdkResetDevice(layout, Spec(e)).dev = d
                     /\ ConDevinfoUsb(layout, e.bus, e.dev)
                          = [bus |-> e.bus, dev |-> e.dev,
                             vendor_id |-> e.vendor_id, transport |-> "usb"]
            /\ \A b \in BusNames, f \in FileNames :
                 FindDeviceByPath(layout, b, f) # NoDev =>
                     \E e \in entries : e.bus = b /\ e.dev = f
====
