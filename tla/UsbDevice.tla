------------------------------ MODULE UsbDevice ------------------------------
(***************************************************************************)
(* The USB device of USBCore.cpp: attach, bus events (USB_GEN_vect) and    *)
(* control requests (USB_COM_vect), composed with the modules plugged in   *)
(* (PluggableUsb) and the line control of the serial port (CdcControl).    *)
(* A handler runs with interrupts off and is one step; requests meet       *)
(* plug() between any two of its steps.                                    *)
(*                                                                         *)
(* A descriptor is a sequence of pieces, one per byte, that tell whose     *)
(* byte it is and which numbers it declares.                               *)
(***************************************************************************)
EXTENDS CdcControl, PluggableUsb

CONSTANTS
  HeaderLen, CdcLen, ModuleLen,   \* bytes of the parts of a configuration
  PacketSize,                     \* 64
  Lengths,                        \* what the host asks for in wLength
  Most                            \* the greatest wLength InitControl(int) takes

(* The RAM holds no modules for a configuration longer than that. *)
ASSUME UsbDeviceAssumption ==
  /\ {HeaderLen, CdcLen, ModuleLen, PacketSize} \subseteq Nat \ {0}
  /\ Most \in Nat /\ Lengths \subseteq 0..Most
  /\ IsFiniteSet(Module_)
  /\ HeaderLen + CdcLen + ModuleLen * Cardinality(Module_) <= Most

VARIABLES
  attached,             \* attach() was called
  udint, udien,         \* UDINT, UDIEN: subsets of Event
  _usbSuspendState,     \* "none", "SUSPI" or "WAKEUPI"
  _usbCurrentStatus,    \* FEATURE_REMOTE_WAKEUP_ENABLED
  _usbConfiguration,
  endpoints,            \* the end points set up: <<number, type>>
  rmwkup,               \* RMWKUP in UDCON
  asleep,               \* the host keeps the bus idle
  declared              \* ghost: end points in the configuration read last

devvars == <<attached, udint, udien, _usbSuspendState, _usbCurrentStatus,
             _usbConfiguration, endpoints, rmwkup, asleep, declared>>
vars == <<devvars, plugvars, cdcvars>>

Event == {"EORSTI", "SOFI", "SUSPI", "WAKEUPI"}

Init ==
  /\ PlugInit /\ CdcInit
  /\ attached = FALSE /\ udint = {} /\ udien = {}
  /\ _usbSuspendState = "none" /\ _usbCurrentStatus = FALSE /\ _usbConfiguration = 0
  /\ endpoints = {} /\ rmwkup = FALSE /\ asleep = FALSE
  /\ declared = {}

-----------------------------------------------------------------------------
(* The sketch *)

Attach ==
  /\ ~attached /\ attached' = TRUE
  /\ _usbConfiguration' = 0 /\ _usbCurrentStatus' = FALSE /\ _usbSuspendState' = "none"
  /\ rmwkup' = FALSE
  /\ udint' = udint \ {"WAKEUPI", "SUSPI"}
  /\ udien' = {"EORSTI", "SOFI", "SUSPI"}
  /\ UNCHANGED <<endpoints, asleep, declared, plugvars, cdcvars>>

(* The host is woken if it sleeps and has allowed it. *)
WakeupHost ==
  /\ attached
  /\ rmwkup' = (_usbSuspendState = "SUSPI" /\ _usbCurrentStatus)
  /\ UNCHANGED <<attached, udint, udien, _usbSuspendState, _usbCurrentStatus,
                 _usbConfiguration, endpoints, asleep, declared, plugvars, cdcvars>>

-----------------------------------------------------------------------------
(* The bus, and USB_GEN_vect.  What it does at a start of frame, beyond    *)
(* the other flags it finds then, is in UsbSerial.                         *)

BusReset ==
  /\ attached
  /\ asleep' = FALSE /\ endpoints' = {} /\ declared' = {}
  /\ udint' = udint \cup {"EORSTI", "WAKEUPI"}
  /\ UNCHANGED <<attached, udien, _usbSuspendState, _usbCurrentStatus, _usbConfiguration,
                 rmwkup, plugvars, cdcvars>>
FallAsleep ==
  /\ attached /\ ~asleep /\ asleep' = TRUE
  /\ udint' = udint \cup {"SUSPI"}
  /\ UNCHANGED <<attached, udien, _usbSuspendState, _usbCurrentStatus, _usbConfiguration,
                 endpoints, rmwkup, declared, plugvars, cdcvars>>
(* Traffic, be it a start of frame, sets WAKEUPI whether or not the device *)
(* was suspended.                                                          *)
Traffic ==
  /\ attached
  /\ asleep' = FALSE
  /\ rmwkup' = (rmwkup /\ ~asleep)
  /\ \E frame \in SUBSET {"SOFI"} : udint' = udint \cup {"WAKEUPI"} \cup frame
  /\ UNCHANGED <<attached, udien, _usbSuspendState, _usbCurrentStatus, _usbConfiguration,
                 endpoints, declared, plugvars, cdcvars>>

(* Whichever of the two is handled, the other is listened for next; a flag *)
(* that is found set is handled whether listened for or not.               *)
AfterWakeupDeaf == udien \ {"WAKEUPI"}
AfterWakeup == (udien \ {"WAKEUPI"}) \cup {"SUSPI"}
AfterSuspend == (udien \ {"SUSPI"}) \cup {"WAKEUPI"}
GeneralInterrupt ==
  /\ udint \cap udien # {}
  /\ _usbConfiguration' = IF "EORSTI" \in udint THEN 0 ELSE _usbConfiguration
  /\ \/ /\ "WAKEUPI" \in udint
        /\ udien' = AfterWakeup
        /\ udint' = udint \ {"EORSTI", "SOFI", "WAKEUPI"}
        /\ _usbSuspendState' = "WAKEUPI"
     \/ /\ "WAKEUPI" \notin udint /\ "SUSPI" \in udint
        /\ udien' = AfterSuspend
        /\ udint' = {}
        /\ _usbSuspendState' = "SUSPI"
     \/ /\ udint \subseteq {"EORSTI", "SOFI"}
        /\ udint' = {}
        /\ UNCHANGED <<udien, _usbSuspendState>>
  /\ UNCHANGED <<attached, _usbCurrentStatus, endpoints, rmwkup, asleep, declared,
                 plugvars, cdcvars>>

-----------------------------------------------------------------------------
(* Control transfers: InitControl, SendControl, USB_SendControl.  The host *)
(* takes so many packets and then goes on to the status stage; what is     *)
(* sent after that fails.                                                  *)

InitControl(end, packets) ==
  [_cmark |-> 0, _cend |-> end, sent |-> <<>>, room |-> packets * PacketSize, interfaces |-> 0]

SendControl(c, byte) ==
  IF c._cmark >= c._cend THEN [c EXCEPT !._cmark = @ + 1]
  ELSE IF Len(c.sent) = c.room THEN c
  ELSE [c EXCEPT !._cmark = @ + 1, !.sent = Append(@, byte)]

USB_SendControl(c, bytes) == FoldLeft(SendControl, c, bytes)

Bytes(length, what, number, endpoint) ==
  [k \in 1..length |-> [what |-> what, number |-> number, endpoint |-> endpoint]]

(* SendInterfaces: CDC_GetInterface, then every module of the chain.  A    *)
(* module declares the numbers it has at the time.                         *)
ModuleInterface(c, m) ==
  USB_SendControl([c EXCEPT !.interfaces = @ + NumInterfaces[m]],
                  Bytes(ModuleLen, m, pluggedInterface[m], pluggedEndpoint[m]))
SendInterfaces(c) ==
  FoldLeft(ModuleInterface,
           USB_SendControl([c EXCEPT !.interfaces = CdcInterfaces], Bytes(CdcLen, "cdc", 0, 1)),
           chain)

(* Measure with a limit of zero, then send: the header carries the total   *)
(* length and the number of interfaces.                                    *)
TotalWithoutHeader(measured) == measured._cmark
Total(measured) == measured._cmark + HeaderLen
SendConfiguration(maxlen, packets) ==
  LET measured == SendInterfaces(InitControl(0, packets))
      config == Bytes(HeaderLen, "config", Total(measured), measured.interfaces)
  IN SendInterfaces(USB_SendControl(InitControl(maxlen, packets), config)).sent

-----------------------------------------------------------------------------
(* USB_COM_vect: the requests that change state.  A request may also be    *)
(* stalled, or answered from constants, which changes nothing.             *)

Answers == attached /\ ~asleep
SameBus == UNCHANGED <<attached, udint, udien, _usbSuspendState, rmwkup, asleep, plugvars>>

(* The host reads the whole configuration.  What it read in the middle of  *)
(* plug() is not relied on.                                                *)
GetConfigurationDescriptor ==
  /\ Answers
  /\ declared' = IF node # None THEN {}
       ELSE UNION {{<<pluggedEndpoint[m] + k - 1, EndpointType[m][k]>> :
                      k \in 1..NumEndpoints(m)} : m \in ToSet(chain)}
  /\ SameBus /\ UNCHANGED <<_usbCurrentStatus, _usbConfiguration, endpoints, cdcvars>>

(* CLEAR_FEATURE, SET_FEATURE *)
SetRemoteWakeup ==
  /\ Answers
  /\ _usbCurrentStatus' = ~_usbCurrentStatus
  /\ SameBus /\ UNCHANGED <<_usbConfiguration, endpoints, declared, cdcvars>>

(* InitEndpoints stops at the first end point without a type. *)
Typed(e) == \A f \in 1..e : f \in DOMAIN initEndpoints /\ initEndpoints[f] # "none"
InitEndpointsOfPort == {<<e, initEndpoints[e]>> : e \in 1..Len(CdcEndpoints)}
InitEndpoints == {<<e, initEndpoints[e]>> : e \in {f \in 1..USB_ENDPOINTS : Typed(f)}}
SetConfiguration ==
  /\ Answers
  /\ _usbConfiguration' \in {0, 1}
  /\ endpoints' = InitEndpoints
  /\ SameBus /\ UNCHANGED <<_usbCurrentStatus, declared, cdcvars>>

(* ClassInterfaceRequest to interface 0, the serial port. *)
CdcSetup ==
  /\ Answers
  /\ CdcRequest
  /\ SameBus /\ UNCHANGED <<_usbCurrentStatus, _usbConfiguration, endpoints, declared>>

-----------------------------------------------------------------------------
Plug == PlugStep /\ UNCHANGED <<devvars, cdcvars>>
Sketch == CdcSketch /\ UNCHANGED <<devvars, plugvars>>

Request == GetConfigurationDescriptor \/ SetRemoteWakeup \/ SetConfiguration \/ CdcSetup
Next == \/ Attach \/ WakeupHost \/ Plug \/ Sketch
        \/ BusReset \/ FallAsleep \/ Traffic \/ GeneralInterrupt \/ Request

Spec == Init /\ [][Next]_vars
(* Interrupts are served; a bus that is awake carries traffic. *)
FairSpec == Spec /\ WF_vars(GeneralInterrupt) /\ WF_vars(~asleep /\ Traffic)

-----------------------------------------------------------------------------
(* However much the host asks for and takes, while plug() is not at work   *)
(* it gets a beginning of one and the same configuration, which announces  *)
(* its own length and as many interfaces as there are numbers in use.      *)
ConfigTrue ==
  attached /\ node = None =>
    LET whole == SendConfiguration(Most, Most) IN
    /\ whole[1].number = Len(whole)
    /\ whole[1].endpoint = lastIf
    /\ \A wLength \in Lengths, packets \in 0..3 :
         SendConfiguration(wLength, packets) =
           SubSeq(whole, 1, Min({wLength, packets * PacketSize, Len(whole)}))

(* When the host sets a configuration, every end point it was told of is   *)
(* set up with the type it was told.                                       *)
DeclaredSetUp == endpoints' \notin {endpoints, {}} => declared \subseteq endpoints'

(* Both, the former whenever the host reads a new configuration or sets    *)
(* one.                                                                    *)
DeclaredTrue ==
  [][/\ <<declared, endpoints>>' # <<declared, endpoints>> => ConfigTrue
     /\ DeclaredSetUp]_vars

(* wakeupHost() and USB_Send() go by _usbSuspendState: whatever order the  *)
(* two interrupts come in, it ends up true to the bus.                     *)
SuspendStateSettles ==
  /\ <>[]asleep => <>[](_usbSuspendState = "SUSPI")
  /\ <>[](attached /\ ~asleep) => <>[](_usbSuspendState # "SUSPI")
=============================================================================
