---------------------------- MODULE MCUsbDevice ----------------------------
(* Three modules, of which two fit. *)
EXTENDS UsbDevice

SomeInterfaces == [hid |-> 1, midi |-> 2, big |-> 1]
SomeEndpoints == [hid |-> <<"int_in">>, midi |-> <<"bulk_out", "bulk_in">>,
                  big |-> <<"bulk_in", "int_in">>]

(* A bound: modules, suspension and the serial port's requests share the   *)
(* bus and nothing else, so once two of the three have begun the state is  *)
(* not continued; the kind of bootloader matters to the port alone.        *)
Modules == chain # <<>>
Suspension == asleep \/ _usbSuspendState = "SUSPI" \/ _usbCurrentStatus \/ rmwkup
Port == lineState # 0 \/ dwDTERate \/ breakValue \/ mine # 0 \/ asked \/ lufa \/ own # "off"
OneAtATime == Cardinality({k \in 1..3 : <<Modules, Suspension, Port>>[k]}) <= 1
=============================================================================
