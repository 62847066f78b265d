----------------------------- MODULE PluggableUsb -----------------------------
(***************************************************************************)
(* PluggableUSB.cpp: modules that add interfaces and end points to the     *)
(* device.  plug() links the module first and numbers it afterwards, with  *)
(* interrupts on; the chain is walked by the handler of control requests.  *)
(***************************************************************************)
EXTENDS Naturals, Sequences, SequencesExt

CONSTANTS
  Module_,        \* the PluggableUSBModules
  NumInterfaces,  \* numInterfaces, a function of the module
  EndpointType,   \* endpointType: a sequence, numEndpoints long
  USB_ENDPOINTS   \* 7 on the ATmega32U4, with the control end point

ASSUME PluggableAssumption ==
  /\ "none" \notin Module_
  /\ USB_ENDPOINTS \in Nat /\ USB_ENDPOINTS >= 4
  /\ NumInterfaces \in [Module_ -> Nat]
  /\ EndpointType \in [Module_ -> Seq({"int_in", "bulk_in", "bulk_out"})]

VARIABLES
  chain,              \* rootNode and the next pointers
  pluggedInterface,   \* zero before a module is numbered: static storage
  pluggedEndpoint,
  lastIf, lastEp,
  initEndpoints,      \* _initEndpoints, "none" is zero
  node, i             \* plug(): the module in hand or None, the loop index

plugvars == <<chain, pluggedInterface, pluggedEndpoint, lastIf, lastEp, initEndpoints, node, i>>

None == "none"
CdcInterfaces == 2      \* CDC_INTERFACE_COUNT
CdcEndpoints == <<"int_in", "bulk_out", "bulk_in">>     \* ACM, OUT, IN: 1, 2, 3
NumEndpoints(m) == Len(EndpointType[m])

PlugInit ==
  /\ chain = <<>>
  /\ pluggedInterface = [m \in Module_ |-> 0]
  /\ pluggedEndpoint = [m \in Module_ |-> 0]
  /\ lastIf = CdcInterfaces /\ lastEp = 1 + Len(CdcEndpoints)
  /\ initEndpoints = [e \in 0..(USB_ENDPOINTS - 1) |->
                        IF e \in 1..Len(CdcEndpoints) THEN CdcEndpoints[e] ELSE "none"]
  /\ node = None /\ i = 0

(* plug(): refused without a word when the end points do not suffice. *)
FitsByOne(m) == lastEp + NumEndpoints(m) <= USB_ENDPOINTS + 1
Fits(m) == lastEp + NumEndpoints(m) <= USB_ENDPOINTS
PlugLink(m) ==
  /\ node = None /\ m \notin ToSet(chain)
  /\ Fits(m)
  /\ chain' = Append(chain, m)
  /\ node' = m /\ i' = 0
  /\ UNCHANGED <<pluggedInterface, pluggedEndpoint, lastIf, lastEp, initEndpoints>>

PlugNumber ==
  /\ node # None /\ i = 0
  /\ pluggedInterface' = [pluggedInterface EXCEPT ![node] = lastIf]
  /\ pluggedEndpoint' = [pluggedEndpoint EXCEPT ![node] = lastEp]
  /\ lastIf' = lastIf + NumInterfaces[node]
  /\ i' = 1
  /\ UNCHANGED <<chain, lastEp, initEndpoints, node>>

PlugEndpoint ==
  /\ node # None /\ i > 0
  /\ IF i <= NumEndpoints(node)
       THEN /\ initEndpoints' = [initEndpoints EXCEPT ![lastEp] = EndpointType[node][i]]
            /\ lastEp' = lastEp + 1
            /\ i' = i + 1
            /\ UNCHANGED node
       ELSE node' = None /\ i' = 0 /\ UNCHANGED <<lastEp, initEndpoints>>
  /\ UNCHANGED <<chain, pluggedInterface, pluggedEndpoint, lastIf>>

PlugStep == (\E m \in Module_ : PlugLink(m)) \/ PlugNumber \/ PlugEndpoint

-----------------------------------------------------------------------------
Plugged == {m \in ToSet(chain) : m # node}
InterfacesOf(m) == {pluggedInterface[m] + k : k \in 0..(NumInterfaces[m] - 1)}
EndpointsOf(m) == {pluggedEndpoint[m] + k : k \in 0..(NumEndpoints(m) - 1)}

(* Whatever is plugged in whatever order, modules share no interface and   *)
(* no end point with each other or with the serial port, and the table the *)
(* end points are set up from has each module's types at its numbers; every *)
(* interface number given out belongs to a module.                         *)
PluggedApart ==
  /\ \A m \in Plugged :
       /\ InterfacesOf(m) \cap (0..(CdcInterfaces - 1)) = {}
       /\ EndpointsOf(m) \subseteq (Len(CdcEndpoints) + 1)..(USB_ENDPOINTS - 1)
       /\ \A k \in 1..NumEndpoints(m) :
            initEndpoints[pluggedEndpoint[m] + k - 1] = EndpointType[m][k]
  /\ \A m1, m2 \in Plugged : m1 # m2 =>
       InterfacesOf(m1) \cap InterfacesOf(m2) = {} /\ EndpointsOf(m1) \cap EndpointsOf(m2) = {}
  /\ node = None => UNION {InterfacesOf(m) : m \in Plugged} = CdcInterfaces..(lastIf - 1)
=============================================================================
