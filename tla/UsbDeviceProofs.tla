--------------------------- MODULE UsbDeviceProofs ---------------------------
(***************************************************************************)
(* Theorems about UsbDevice, for any modules plugged in any order between  *)
(* any requests, any number of end points, any words the sketch stores.    *)
(*                                                                         *)
(* A module is numbered after it is linked, so that the numbers are apart  *)
(* is no invariant on its own: PlugInv says for every point of plug() how  *)
(* far the numbers of the finished modules reach, and that the module in   *)
(* hand starts there.                                                      *)
(***************************************************************************)
EXTENDS UsbDevice, DataTheorems, FiniteSetTheorems, TLAPS

(* What a step of the device does to the two parts. *)
LEMMA StepOfParts ==
  ASSUME Next
  PROVE  /\ PlugStep \/ UNCHANGED plugvars
         /\ CdcRequest \/ CdcSketch \/ UNCHANGED cdcvars
<1>1. CASE Attach \/ WakeupHost
  BY <1>1 DEF Attach, WakeupHost
<1>2. CASE Plug
  BY <1>2 DEF Plug
<1>3. CASE Sketch
  BY <1>3 DEF Sketch
<1>4. CASE BusReset \/ FallAsleep \/ Traffic
  BY <1>4 DEF BusReset, FallAsleep, Traffic
<1>5. CASE GeneralInterrupt
  BY <1>5 DEF GeneralInterrupt
<1>6. CASE Request
  BY <1>6 DEF Request, GetConfigurationDescriptor, SetRemoteWakeup, SetConfiguration, CdcSetup,
              SameBus
<1> QED
  BY <1>1, <1>2, <1>3, <1>4, <1>5, <1>6 DEF Next

-----------------------------------------------------------------------------
(* The sketch's word *)

RamTypeOK ==
  /\ lufa \in BOOLEAN
  /\ ram \in [{"magic", "ramend"} -> Value \cup {Key}]
  /\ mine \in Value

(* A new bootloader's key is elsewhere. *)
RamInv == RamTypeOK /\ SketchRamKept /\ (lufa => ram.magic # Key)

LEMMA RamInitially == CdcInit => RamInv
  BY CdcAssumption DEF CdcInit, RamInv, RamTypeOK, SketchRamKept

LEMMA RamStep ==
  ASSUME RamInv, CdcRequest \/ CdcSketch \/ UNCHANGED cdcvars
  PROVE  RamInv'
<1> USE CdcAssumption DEF RamInv, RamTypeOK, SketchRamKept
<1>1. CASE StartReset /\ UNCHANGED <<lufa, mine>>
  BY <1>1 DEF StartReset, BackedUp, Pos
<1>2. CASE CancelReset /\ UNCHANGED <<lufa, mine>> /\ ram[Pos] = Key
  BY <1>2 DEF CancelReset, Pos
<1>3. CASE SketchStores
  BY <1>3 DEF SketchStores
<1>4. CASE UNCHANGED <<lufa, ram, mine>>
  BY <1>4
<1>5. ASSUME SetControlLineState
      PROVE  RamInv'
  BY <1>5, <1>1, <1>2, <1>4 DEF SetControlLineState
<1> QED
  BY <1>3, <1>4, <1>5 DEF CdcRequest, CdcSketch, SetLineCoding, SendBreak, ReadBreak, cdcvars

(* However often the port is closed and opened at 1200 baud and whatever   *)
(* the sketch stores meanwhile, its word under the key is never lost       *)
(* (CDC_Setup, DTR and MAGIC_KEY).                                         *)
THEOREM SketchWordNeverLost == Spec => []SketchRamKept
<1>1. Init => RamInv
  BY RamInitially DEF Init
<1>2. RamInv /\ [Next]_vars => RamInv'
  <2> SUFFICES ASSUME RamInv, [Next]_vars
               PROVE  RamInv'
    OBVIOUS
  <2>1. CASE Next
    BY <2>1, StepOfParts, RamStep
  <2>2. CASE UNCHANGED vars
    BY <2>2, RamStep DEF vars
  <2> QED
    BY <2>1, <2>2
<1>3. RamInv => SketchRamKept
  BY DEF RamInv
<1> QED
  BY <1>1, <1>2, <1>3, PTL DEF Spec

-----------------------------------------------------------------------------
(* The numbers of the modules *)

PlugTypeOK ==
  /\ chain \in Seq(Module_)
  /\ node \in Module_ \cup {None}
  /\ i \in Nat
  /\ pluggedInterface \in [Module_ -> Nat]
  /\ pluggedEndpoint \in [Module_ -> Nat]
  /\ lastIf \in Nat
  /\ lastEp \in Nat
  /\ DOMAIN initEndpoints = 0..(USB_ENDPOINTS - 1)

(* The numbers the finished modules stay below. *)
InHand == node # None /\ i > 0
NextInterface == IF InHand THEN pluggedInterface[node] ELSE lastIf
NextEndpoint == IF InHand THEN pluggedEndpoint[node] ELSE lastEp

(* The module in hand has its numbers from there on, its end points fit,   *)
(* and the types of those before the loop index are in the table.          *)
HandRight ==
  /\ node = None => i = 0
  /\ node # None => node \in ToSet(chain)
  /\ node # None /\ i = 0 => Fits(node)
  /\ InHand =>
       /\ pluggedInterface[node] + NumInterfaces[node] = lastIf
       /\ pluggedEndpoint[node] + i - 1 = lastEp
       /\ i - 1 <= NumEndpoints(node)
       /\ pluggedEndpoint[node] + NumEndpoints(node) <= USB_ENDPOINTS
       /\ \A k \in 1..NumEndpoints(node) : k < i =>
            initEndpoints[pluggedEndpoint[node] + k - 1] = EndpointType[node][k]

(* The finished ones. *)
DoneRight(m) ==
  /\ CdcInterfaces <= pluggedInterface[m]
  /\ pluggedInterface[m] + NumInterfaces[m] <= NextInterface
  /\ Len(CdcEndpoints) + 1 <= pluggedEndpoint[m]
  /\ pluggedEndpoint[m] + NumEndpoints(m) <= NextEndpoint
  /\ \A k \in 1..NumEndpoints(m) :
       initEndpoints[pluggedEndpoint[m] + k - 1] = EndpointType[m][k]
Apart(m1, m2) ==
  InterfacesOf(m1) \cap InterfacesOf(m2) = {} /\ EndpointsOf(m1) \cap EndpointsOf(m2) = {}

NoGap == UNION {InterfacesOf(m) : m \in Plugged} = CdcInterfaces..(NextInterface - 1)

PlugInv ==
  /\ PlugTypeOK
  /\ HandRight
  /\ CdcInterfaces <= NextInterface
  /\ Len(CdcEndpoints) + 1 <= NextEndpoint
  /\ NextEndpoint <= USB_ENDPOINTS
  /\ \A m \in Plugged : DoneRight(m)
  /\ \A m1, m2 \in Plugged : m1 # m2 => Apart(m1, m2)
  /\ NoGap

LEMMA PlugConstants ==
  /\ None \notin Module_
  /\ CdcInterfaces = 2 /\ Len(CdcEndpoints) = 3
  /\ USB_ENDPOINTS \in Nat /\ USB_ENDPOINTS >= 4
  /\ \A m \in Module_ : NumInterfaces[m] \in Nat /\ NumEndpoints(m) \in Nat
<1>1. \A m \in Module_ : NumInterfaces[m] \in Nat
  BY PluggableAssumption
<1>2. \A m \in Module_ : NumEndpoints(m) \in Nat
  BY PluggableAssumption DEF NumEndpoints
<1> QED
  BY <1>1, <1>2, PluggableAssumption DEF None, CdcInterfaces, CdcEndpoints

LEMMA ChainAppend ==
  ASSUME NEW s \in Seq(Module_), NEW m \in Module_
  PROVE  ToSet(Append(s, m)) = ToSet(s) \cup {m} /\ ToSet(s) \subseteq Module_
<1>1. DOMAIN s = 1..Len(s) /\ Len(s) \in Nat
  OBVIOUS
<1>2. \A k \in 1..Len(s) : Append(s, m)[k] = s[k] /\ s[k] \in Module_
  OBVIOUS
<1>3. Append(s, m)[Len(s) + 1] = m /\ DOMAIN Append(s, m) = 1..(Len(s) + 1)
  OBVIOUS
<1>4. 1..(Len(s) + 1) = 1..Len(s) \cup {Len(s) + 1}
  BY <1>1
<1> QED
  BY <1>1, <1>2, <1>3, <1>4 DEF ToSet

(* Numbers from n on, q of them, are apart from p numbers that end below.  *)
LEMMA RangesApart ==
  ASSUME NEW a \in Nat, NEW p \in Nat, NEW n \in Nat, NEW q \in Nat, a + p <= n
  PROVE  {a + k : k \in 0..(p - 1)} \cap {n + k : k \in 0..(q - 1)} = {}
  OBVIOUS

LEMMA RangeIs ==
  ASSUME NEW a \in Nat, NEW p \in Nat
  PROVE  {a + k : k \in 0..(p - 1)} = a..(a + p - 1)
<1>1. ASSUME NEW x \in a..(a + p - 1)
      PROVE  x \in {a + k : k \in 0..(p - 1)}
  <2>1. x - a \in 0..(p - 1) /\ x = a + (x - a)
    BY <1>1
  <2> QED BY <2>1
<1>2. ASSUME NEW k \in 0..(p - 1)
      PROVE  a + k \in a..(a + p - 1)
  BY <1>2
<1> QED
  BY <1>1, <1>2

LEMMA PlugInitially == PlugInit => PlugInv
<1> SUFFICES ASSUME PlugInit PROVE PlugInv
  OBVIOUS
<1>1. ToSet(chain) = {} /\ chain \in Seq(Module_)
  BY DEF PlugInit, ToSet
<1>2. Plugged = {}
  BY <1>1 DEF Plugged
<1>3. ~InHand /\ NextInterface = 2 /\ NextEndpoint = 4
  BY PlugConstants DEF PlugInit, InHand, NextInterface, NextEndpoint
<1>4. PlugTypeOK /\ HandRight
  BY <1>1, <1>3, PlugConstants DEF PlugInit, PlugTypeOK, HandRight
<1>5. NoGap
  BY <1>2, <1>3, PlugConstants DEF NoGap
<1> QED
  BY <1>2, <1>3, <1>4, <1>5, PlugConstants DEF PlugInv

(* What the invariant says is what it means. *)
LEMMA PlugMeans == PlugInv => PluggedApart
<1> SUFFICES ASSUME PlugInv PROVE PluggedApart
  OBVIOUS
<1>1. Plugged \subseteq Module_
  BY ChainAppend DEF PlugInv, PlugTypeOK, Plugged, ToSet
<1>2. ASSUME NEW m \in Plugged
      PROVE  /\ InterfacesOf(m) \cap (0..(CdcInterfaces - 1)) = {}
             /\ EndpointsOf(m) \subseteq (Len(CdcEndpoints) + 1)..(USB_ENDPOINTS - 1)
  <2>1. /\ DoneRight(m) /\ m \in Module_
        /\ pluggedInterface[m] \in Nat /\ pluggedEndpoint[m] \in Nat
        /\ NextEndpoint <= USB_ENDPOINTS /\ NextEndpoint \in Nat
    BY <1>1, <1>2 DEF PlugInv, PlugTypeOK, NextEndpoint, InHand
  <2> QED
    BY <2>1, PlugConstants DEF DoneRight, InterfacesOf, EndpointsOf
<1>3. node = None => NextInterface = lastIf
  BY DEF NextInterface, InHand
<1> QED
  BY <1>2, <1>3 DEF PlugInv, PluggedApart, DoneRight, Apart, NoGap

LEMMA PlugLinkKeeps ==
  ASSUME PlugInv, NEW m \in Module_, PlugLink(m)
  PROVE  PlugInv'
<1>1. ToSet(chain') = ToSet(chain) \cup {m} /\ ToSet(chain) \subseteq Module_
  BY ChainAppend DEF PlugInv, PlugTypeOK, PlugLink
<1>2. Plugged' = Plugged
  BY <1>1, PlugConstants DEF Plugged, PlugLink
<1>3. UNCHANGED <<pluggedInterface, pluggedEndpoint, lastIf, lastEp, initEndpoints>>
  BY DEF PlugLink
<1>4. node' = m /\ i' = 0 /\ node = None
  BY DEF PlugLink
<1>5. NextInterface' = NextInterface /\ NextEndpoint' = NextEndpoint
  BY <1>3, <1>4 DEF NextInterface, NextEndpoint, InHand
<1>6. PlugTypeOK'
  BY <1>3, <1>4 DEF PlugInv, PlugTypeOK, PlugLink
<1>7. HandRight'
  BY <1>1, <1>3, <1>4, PlugConstants DEF HandRight, InHand, PlugLink, Fits
<1>8. \A n \in Plugged : DoneRight(n)' = DoneRight(n) /\ InterfacesOf(n)' = InterfacesOf(n)
                         /\ EndpointsOf(n)' = EndpointsOf(n)
  BY <1>3, <1>5 DEF DoneRight, InterfacesOf, EndpointsOf
<1>9. NoGap'
  BY <1>2, <1>5, <1>8 DEF PlugInv, NoGap
<1> QED
  BY <1>2, <1>5, <1>6, <1>7, <1>8, <1>9 DEF PlugInv, Apart

LEMMA PlugNumberKeeps ==
  ASSUME PlugInv, PlugNumber
  PROVE  PlugInv'
<1>1. /\ node \in Module_ /\ node # None /\ i = 0 /\ Fits(node)
      /\ node' = node /\ i' = 1 /\ chain' = chain
      /\ lastEp' = lastEp /\ initEndpoints' = initEndpoints
      /\ lastIf' = lastIf + NumInterfaces[node]
      /\ pluggedInterface' = [pluggedInterface EXCEPT ![node] = lastIf]
      /\ pluggedEndpoint' = [pluggedEndpoint EXCEPT ![node] = lastEp]
  BY DEF PlugNumber, PlugInv, HandRight, PlugTypeOK
<1>2. /\ pluggedInterface'[node] = lastIf /\ pluggedEndpoint'[node] = lastEp
      /\ \A n \in Plugged : /\ pluggedInterface'[n] = pluggedInterface[n]
                            /\ pluggedEndpoint'[n] = pluggedEndpoint[n]
  BY <1>1 DEF PlugInv, PlugTypeOK, Plugged
<1>3. Plugged' = Plugged
  BY <1>1 DEF Plugged
<1>4. NextInterface' = NextInterface /\ NextEndpoint' = NextEndpoint
  BY <1>1, <1>2 DEF NextInterface, NextEndpoint, InHand
<1>5. PlugTypeOK'
  <2>1. /\ lastEp \in Nat /\ lastIf \in Nat /\ NumInterfaces[node] \in Nat
        /\ pluggedInterface \in [Module_ -> Nat] /\ pluggedEndpoint \in [Module_ -> Nat]
    BY <1>1, PlugConstants DEF PlugInv, PlugTypeOK
  <2>2. lastIf' \in Nat
    BY <1>1, <2>1
  <2>3. pluggedInterface' \in [Module_ -> Nat] /\ pluggedEndpoint' \in [Module_ -> Nat]
    BY <1>1, <2>1
  <2> QED BY <1>1, <2>1, <2>2, <2>3 DEF PlugInv, PlugTypeOK
<1>6. HandRight'
  <2>1. /\ lastEp \in Nat /\ lastIf \in Nat
        /\ NumEndpoints(node) \in Nat /\ NumInterfaces[node] \in Nat
    BY <1>1, PlugConstants DEF PlugInv, PlugTypeOK
  <2>2. NumEndpoints(node)' = NumEndpoints(node)
    BY <1>1 DEF NumEndpoints
  <2>3. node' \in ToSet(chain)'
    BY <1>1 DEF PlugInv, HandRight
  <2> QED
    BY <1>1, <1>2, <2>1, <2>2, <2>3 DEF HandRight, InHand, Fits
<1>7. \A n \in Plugged : DoneRight(n)' = DoneRight(n) /\ InterfacesOf(n)' = InterfacesOf(n)
                         /\ EndpointsOf(n)' = EndpointsOf(n)
  BY <1>1, <1>2, <1>4 DEF DoneRight, InterfacesOf, EndpointsOf
<1>8. NoGap'
  BY <1>3, <1>4, <1>7 DEF PlugInv, NoGap
<1> QED
  BY <1>3, <1>4, <1>5, <1>6, <1>7, <1>8 DEF PlugInv, Apart

(* One end point more: what is written lies beyond the finished modules.   *)
LEMMA PlugEndpointKeeps ==
  ASSUME PlugInv, node # None, i > 0, i <= NumEndpoints(node), PlugEndpoint
  PROVE  PlugInv'
<1>1. /\ node \in Module_ /\ i \in Nat
      /\ node' = node /\ i' = i + 1 /\ chain' = chain
      /\ lastEp' = lastEp + 1 /\ lastIf' = lastIf
      /\ initEndpoints' = [initEndpoints EXCEPT ![lastEp] = EndpointType[node][i]]
      /\ pluggedInterface' = pluggedInterface /\ pluggedEndpoint' = pluggedEndpoint
  BY DEF PlugEndpoint, PlugInv, PlugTypeOK
<1>2. /\ InHand /\ InHand' /\ NextInterface' = NextInterface /\ NextEndpoint' = NextEndpoint
      /\ NextEndpoint = pluggedEndpoint[node]
  BY <1>1 DEF NextInterface, NextEndpoint, InHand
<1>3. /\ lastEp \in Nat /\ NumEndpoints(node) \in Nat /\ pluggedEndpoint[node] \in Nat
      /\ lastEp = pluggedEndpoint[node] + i - 1
      /\ pluggedEndpoint[node] + NumEndpoints(node) <= USB_ENDPOINTS
      /\ lastEp \in DOMAIN initEndpoints
  BY <1>1, <1>2, PlugConstants DEF PlugInv, PlugTypeOK, HandRight
<1>4. \A e \in DOMAIN initEndpoints : e # lastEp => initEndpoints'[e] = initEndpoints[e]
  BY <1>1
<1>5. Plugged' = Plugged /\ Plugged \subseteq Module_
  BY <1>1, ChainAppend DEF Plugged, PlugInv, PlugTypeOK
<1>6. PlugTypeOK'
  BY <1>1, <1>3 DEF PlugInv, PlugTypeOK
<1>7. HandRight'
  <2>1. NumEndpoints(node)' = NumEndpoints(node)
    BY <1>1 DEF NumEndpoints
  <2>2. ASSUME NEW k \in 1..NumEndpoints(node), k < i + 1
        PROVE  initEndpoints'[pluggedEndpoint[node] + k - 1] = EndpointType[node][k]
    <3>1. CASE k = i
      BY <1>1, <1>3, <3>1
    <3>2. CASE k < i
      <4>1. DOMAIN initEndpoints = 0..(USB_ENDPOINTS - 1)
        BY DEF PlugInv, PlugTypeOK
      <4>2. /\ pluggedEndpoint[node] + k - 1 \in 0..(USB_ENDPOINTS - 1)
            /\ pluggedEndpoint[node] + k - 1 # lastEp
        <5>1. /\ i \in Nat /\ k \in Nat /\ k > 0 /\ k < i
              /\ lastEp \in 0..(USB_ENDPOINTS - 1) /\ USB_ENDPOINTS \in Nat
              /\ pluggedEndpoint[node] \in Nat /\ lastEp = pluggedEndpoint[node] + i - 1
          BY <1>1, <1>3, <2>1, <3>2, <4>1, PlugConstants
        <5> QED BY <5>1
      <4>3. initEndpoints[pluggedEndpoint[node] + k - 1] = EndpointType[node][k]
        BY <1>2, <3>2 DEF PlugInv, HandRight
      <4> QED BY <1>4, <4>1, <4>2, <4>3
    <3> QED BY <1>1, <2>2, <3>1, <3>2
  <2> QED
    BY <1>1, <1>2, <1>3, <2>1, <2>2 DEF PlugInv, HandRight, InHand
<1>8. ASSUME NEW n \in Plugged
      PROVE  DoneRight(n)' /\ InterfacesOf(n)' = InterfacesOf(n) /\ EndpointsOf(n)' = EndpointsOf(n)
  <2>1. InterfacesOf(n)' = InterfacesOf(n) /\ EndpointsOf(n)' = EndpointsOf(n)
    BY <1>1 DEF InterfacesOf, EndpointsOf
  <2>2. /\ DoneRight(n) /\ NumEndpoints(n) \in Nat /\ pluggedEndpoint[n] \in Nat
        /\ DOMAIN initEndpoints = 0..(USB_ENDPOINTS - 1)
    BY <1>5, <1>8, PlugConstants DEF PlugInv, PlugTypeOK
  <2>3. ASSUME NEW k \in 1..NumEndpoints(n)
        PROVE  initEndpoints'[pluggedEndpoint[n] + k - 1] = EndpointType[n][k]
    <3>1. /\ pluggedEndpoint[n] + k - 1 < pluggedEndpoint[node]
          /\ pluggedEndpoint[n] + k - 1 \in Nat
      BY <1>2, <1>3, <2>2, <2>3 DEF DoneRight
    <3>2. pluggedEndpoint[n] + k - 1 \in DOMAIN initEndpoints
          /\ pluggedEndpoint[n] + k - 1 # lastEp
      <4>1. /\ lastEp \in 0..(USB_ENDPOINTS - 1) /\ USB_ENDPOINTS \in Nat
            /\ pluggedEndpoint[node] \in Nat /\ lastEp = pluggedEndpoint[node] + i - 1
            /\ i \in Nat /\ i > 0
        BY <1>1, <1>3, <2>2, PlugConstants
      <4>2. /\ pluggedEndpoint[n] + k - 1 \in 0..(USB_ENDPOINTS - 1)
            /\ pluggedEndpoint[n] + k - 1 # lastEp
        BY <3>1, <4>1
      <4> QED BY <2>2, <4>2
    <3> QED BY <1>4, <2>2, <3>2 DEF DoneRight
  <2> QED
    BY <1>1, <1>2, <2>1, <2>2, <2>3 DEF DoneRight, NumEndpoints
<1>9. NoGap'
  BY <1>2, <1>5, <1>8 DEF PlugInv, NoGap
<1> QED
  BY <1>2, <1>5, <1>6, <1>7, <1>8, <1>9 DEF PlugInv, Apart

(* The loop ends: the module in hand joins the finished ones. *)
LEMMA PlugEndKeeps ==
  ASSUME PlugInv, NEW hand \in Module_, node = hand, i > 0, ~(i <= NumEndpoints(hand)),
         PlugEndpoint
  PROVE  PlugInv'
<1>1. /\ i \in Nat /\ node # None
      /\ node' = None /\ i' = 0 /\ chain' = chain
      /\ lastEp' = lastEp /\ lastIf' = lastIf /\ initEndpoints' = initEndpoints
      /\ pluggedInterface' = pluggedInterface /\ pluggedEndpoint' = pluggedEndpoint
  BY PlugConstants DEF PlugEndpoint, PlugInv, PlugTypeOK
<1>2. /\ InHand /\ ~InHand' /\ NextInterface' = lastIf /\ NextEndpoint' = lastEp
      /\ NextEndpoint = pluggedEndpoint[hand] /\ NextInterface = pluggedInterface[hand]
  BY <1>1 DEF NextInterface, NextEndpoint, InHand
<1>3. /\ lastEp \in Nat /\ lastIf \in Nat
      /\ NumEndpoints(hand) \in Nat /\ NumInterfaces[hand] \in Nat
      /\ pluggedEndpoint[hand] \in Nat /\ pluggedInterface[hand] \in Nat
  BY <1>1, PlugConstants DEF PlugInv, PlugTypeOK
<1>4. /\ lastEp = pluggedEndpoint[hand] + NumEndpoints(hand)
      /\ lastIf = pluggedInterface[hand] + NumInterfaces[hand]
      /\ lastEp <= USB_ENDPOINTS
      /\ i = NumEndpoints(hand) + 1
  BY <1>1, <1>2, <1>3 DEF PlugInv, HandRight
<1>5. Plugged' = Plugged \cup {hand} /\ hand \notin Plugged /\ Plugged \subseteq Module_
  BY <1>1, ChainAppend, PlugConstants DEF Plugged, PlugInv, PlugTypeOK, HandRight
<1>6. PlugTypeOK' /\ HandRight'
  BY <1>1, <1>2 DEF PlugInv, PlugTypeOK, HandRight
<1>7. ASSUME NEW n
      PROVE  InterfacesOf(n)' = InterfacesOf(n) /\ EndpointsOf(n)' = EndpointsOf(n)
  BY <1>1 DEF InterfacesOf, EndpointsOf
<1>8. ASSUME NEW n \in Plugged
      PROVE  DoneRight(n)' /\ Apart(n, hand)
  <2>1. /\ DoneRight(n) /\ n \in Module_
        /\ NumEndpoints(n) \in Nat /\ pluggedEndpoint[n] \in Nat
        /\ NumInterfaces[n] \in Nat /\ pluggedInterface[n] \in Nat
    BY <1>5, <1>8, PlugConstants DEF PlugInv, PlugTypeOK
  <2>2. /\ pluggedInterface[n] + NumInterfaces[n] <= pluggedInterface[hand]
        /\ pluggedEndpoint[n] + NumEndpoints(n) <= pluggedEndpoint[hand]
    BY <1>2, <2>1 DEF DoneRight
  <2>3. /\ pluggedInterface[n] + NumInterfaces[n] <= lastIf
        /\ pluggedEndpoint[n] + NumEndpoints(n) <= lastEp
    BY <1>3, <1>4, <2>1, <2>2
  <2>4. DoneRight(n)'
    BY <1>1, <1>2, <2>1, <2>3 DEF DoneRight, NumEndpoints
  <2> QED
    BY <1>3, <2>1, <2>2, <2>4, RangesApart DEF Apart, InterfacesOf, EndpointsOf
<1>9. DoneRight(hand)'
  <2>1. CdcInterfaces <= pluggedInterface[hand] /\ Len(CdcEndpoints) + 1 <= pluggedEndpoint[hand]
    BY <1>2 DEF PlugInv
  <2>2. \A k \in 1..NumEndpoints(hand) :
          initEndpoints[pluggedEndpoint[hand] + k - 1] = EndpointType[hand][k]
    <3>1. \A k \in 1..NumEndpoints(hand) : k < i =>
            initEndpoints[pluggedEndpoint[hand] + k - 1] = EndpointType[hand][k]
      BY <1>2 DEF PlugInv, HandRight
    <3>2. \A k \in 1..NumEndpoints(hand) : k < i
      BY <1>3, <1>4
    <3> QED BY <3>1, <3>2
  <2>3. /\ pluggedInterface[hand] + NumInterfaces[hand] <= lastIf
        /\ pluggedEndpoint[hand] + NumEndpoints(hand) <= lastEp
    BY <1>3, <1>4
  <2>4. \A k \in 1..NumEndpoints(hand) :
          initEndpoints'[pluggedEndpoint'[hand] + k - 1] = EndpointType[hand][k]
    BY <1>1, <2>2
  <2>5. /\ pluggedInterface'[hand] + NumInterfaces[hand] <= NextInterface'
        /\ pluggedEndpoint'[hand] + NumEndpoints(hand) <= NextEndpoint'
    BY <1>1, <1>2, <2>3
  <2> QED
    BY <1>1, <2>1, <2>4, <2>5 DEF DoneRight, NumEndpoints, CdcEndpoints, CdcInterfaces
<1>10. NoGap'
  <2>1. InterfacesOf(hand) = pluggedInterface[hand]..(lastIf - 1)
    <3>1. InterfacesOf(hand)
            = pluggedInterface[hand]..(pluggedInterface[hand] + NumInterfaces[hand] - 1)
      BY <1>3, RangeIs DEF InterfacesOf
    <3> QED BY <1>3, <1>4, <3>1
  <2>2. UNION {InterfacesOf(m) : m \in Plugged} = CdcInterfaces..(pluggedInterface[hand] - 1)
    BY <1>2 DEF PlugInv, NoGap
  <2>3. UNION {InterfacesOf(m) : m \in Plugged \cup {hand}}
          = (UNION {InterfacesOf(m) : m \in Plugged}) \cup InterfacesOf(hand)
    OBVIOUS
  <2>4. CdcInterfaces..(pluggedInterface[hand] - 1) \cup pluggedInterface[hand]..(lastIf - 1)
          = CdcInterfaces..(lastIf - 1)
    BY <1>2, <1>3, <1>4, PlugConstants DEF PlugInv
  <2>5. UNION {InterfacesOf(m)' : m \in Plugged'} = UNION {InterfacesOf(m) : m \in Plugged \cup {hand}}
    BY <1>5, <1>7
  <2> QED
    BY <1>1, <1>2, <2>1, <2>2, <2>3, <2>4, <2>5 DEF NoGap
<1>11. \A m1, m2 \in Plugged' : m1 # m2 => Apart(m1, m2)'
  <2> SUFFICES ASSUME NEW m1 \in Plugged', NEW m2 \in Plugged', m1 # m2
               PROVE  Apart(m1, m2)
    BY <1>7 DEF Apart
  <2> QED
    BY <1>5, <1>8 DEF PlugInv, Apart
<1>12. /\ CdcInterfaces' <= NextInterface' /\ Len(CdcEndpoints)' + 1 <= NextEndpoint'
       /\ NextEndpoint' <= USB_ENDPOINTS
  BY <1>2, <1>3, <1>4, PlugConstants DEF PlugInv
<1>13. \A m \in Plugged' : DoneRight(m)'
  BY <1>5, <1>8, <1>9
<1> QED
  BY <1>6, <1>10, <1>11, <1>12, <1>13 DEF PlugInv

LEMMA PlugInvStep ==
  ASSUME PlugInv, PlugStep \/ UNCHANGED plugvars
  PROVE  PlugInv'
<1>1. CASE \E m \in Module_ : PlugLink(m)
  BY <1>1, PlugLinkKeeps
<1>2. CASE PlugNumber
  BY <1>2, PlugNumberKeeps
<1>3. CASE PlugEndpoint
  <2>1. node # None /\ i > 0 /\ node \in Module_
    BY <1>3 DEF PlugEndpoint, PlugInv, PlugTypeOK
  <2>2. CASE i <= NumEndpoints(node)
    BY <1>3, <2>1, <2>2, PlugEndpointKeeps
  <2>3. CASE ~(i <= NumEndpoints(node))
    BY <1>3, <2>1, <2>3, PlugEndKeeps
  <2> QED BY <2>2, <2>3
<1>4. CASE UNCHANGED plugvars
  <2>1. UNCHANGED <<chain, pluggedInterface, pluggedEndpoint, lastIf, lastEp, initEndpoints, node, i>>
    BY <1>4 DEF plugvars
  <2>2. /\ Plugged' = Plugged /\ InHand' = InHand
        /\ NextInterface' = NextInterface /\ NextEndpoint' = NextEndpoint
    BY <2>1 DEF Plugged, InHand, NextInterface, NextEndpoint
  <2>3. PlugTypeOK' /\ HandRight'
    BY <2>1, <2>2 DEF PlugInv, PlugTypeOK, HandRight, Fits, NumEndpoints
  <2>4. ASSUME NEW n
        PROVE  /\ DoneRight(n)' = DoneRight(n) /\ InterfacesOf(n)' = InterfacesOf(n)
               /\ EndpointsOf(n)' = EndpointsOf(n)
    BY <2>1, <2>2 DEF DoneRight, InterfacesOf, EndpointsOf, NumEndpoints
  <2>5. NoGap'
    BY <2>2, <2>4 DEF PlugInv, NoGap
  <2> QED
    BY <2>2, <2>3, <2>4, <2>5 DEF PlugInv, Apart
<1> QED
  BY <1>1, <1>2, <1>3, <1>4 DEF PlugStep

(* Whatever modules are plugged in whatever order, with requests of the    *)
(* host between any two steps of plug(), finished modules share no         *)
(* interface and no end point, and the end point table has their types.    *)
THEOREM ModulesStayApart == Spec => []PluggedApart
<1>1. Init => PlugInv
  BY PlugInitially DEF Init
<1>2. PlugInv /\ [Next]_vars => PlugInv'
  <2> SUFFICES ASSUME PlugInv, [Next]_vars
               PROVE  PlugInv'
    OBVIOUS
  <2>1. CASE Next
    BY <2>1, StepOfParts, PlugInvStep
  <2>2. CASE UNCHANGED vars
    BY <2>2, PlugInvStep DEF vars
  <2> QED
    BY <2>1, <2>2
<1>3. PlugInv => PluggedApart
  BY PlugMeans
<1> QED
  BY <1>1, <1>2, <1>3, PTL DEF Spec

-----------------------------------------------------------------------------
(* What the host was told of the end points *)

(* The end points numbered so far all have a type, and the host was told   *)
(* of none but these.                                                      *)
Numbered == 1..(lastEp - 1)
TypesKnown == \A e \in Numbered : initEndpoints[e] # "none"
ToldInv == TypesKnown /\ declared \subseteq {<<e, initEndpoints[e]>> : e \in Numbered}

LEMMA ToldInitially == Init => ToldInv
<1> SUFFICES ASSUME Init PROVE ToldInv
  OBVIOUS
<1>1. lastEp = 4 /\ declared = {} /\ Numbered = 1..3
  BY PlugConstants DEF Init, PlugInit, Numbered
<1>2. ASSUME NEW e \in 1..3 PROVE initEndpoints[e] # "none"
  <2>1. initEndpoints[e] = CdcEndpoints[e]
    BY <1>2, PlugConstants DEF Init, PlugInit
  <2> QED BY <2>1 DEF CdcEndpoints
<1> QED
  BY <1>1, <1>2 DEF ToldInv, TypesKnown

(* plug() changes the table beyond what is numbered only. *)
LEMMA PlugTypes ==
  ASSUME PlugInv, ToldInv, PlugStep \/ UNCHANGED plugvars, declared' = declared
  PROVE  ToldInv'
<1>1. lastEp \in Nat /\ DOMAIN initEndpoints = 0..(USB_ENDPOINTS - 1)
  BY DEF PlugInv, PlugTypeOK
<1>2. CASE UNCHANGED <<lastEp, initEndpoints>>
  BY <1>2 DEF ToldInv, TypesKnown, Numbered
<1>3. CASE PlugEndpoint /\ i <= NumEndpoints(node)
  <2>1. /\ node \in Module_ /\ i \in Nat /\ i > 0 /\ lastEp' = lastEp + 1
        /\ initEndpoints' = [initEndpoints EXCEPT ![lastEp] = EndpointType[node][i]]
    BY <1>3 DEF PlugEndpoint, PlugInv, PlugTypeOK
  <2>2. lastEp \in DOMAIN initEndpoints
    <3>1. /\ pluggedEndpoint[node] + i - 1 = lastEp /\ pluggedEndpoint[node] \in Nat
          /\ pluggedEndpoint[node] + NumEndpoints(node) <= USB_ENDPOINTS
          /\ NumEndpoints(node) \in Nat
      BY <1>3, <2>1, PlugConstants DEF PlugInv, HandRight, InHand, PlugEndpoint, PlugTypeOK
    <3> QED BY <1>1, <1>3, <2>1, <3>1, PlugConstants
  <2>3. EndpointType[node][i] # "none"
    <3>1. EndpointType[node] \in Seq({"int_in", "bulk_in", "bulk_out"})
          /\ i \in 1..Len(EndpointType[node])
      BY <1>3, <2>1, PluggableAssumption DEF NumEndpoints
    <3> QED BY <3>1
  <2>4. initEndpoints'[lastEp] # "none" /\ \A e \in Numbered : initEndpoints'[e] = initEndpoints[e]
    BY <1>1, <2>1, <2>2, <2>3 DEF Numbered
  <2>5. Numbered' = Numbered \cup {lastEp} \/ lastEp = 0
    BY <1>1, <2>1 DEF Numbered
  <2>6. lastEp # 0
    BY <1>1, <2>1, PlugConstants, <1>3 DEF PlugInv, NextEndpoint, InHand, HandRight, PlugEndpoint,
       PlugTypeOK
  <2> QED BY <2>4, <2>5, <2>6 DEF ToldInv, TypesKnown
<1> QED
  BY <1>2, <1>3 DEF PlugStep, PlugLink, PlugNumber, PlugEndpoint, plugvars

(* What the host reads while plug() is not at work. *)
LEMMA ReadTypes ==
  ASSUME PlugInv, ToldInv, GetConfigurationDescriptor
  PROVE  ToldInv'
<1>1. UNCHANGED <<lastEp, initEndpoints>>
  BY DEF GetConfigurationDescriptor, SameBus, plugvars
<1>2. CASE node # None
  BY <1>1, <1>2 DEF GetConfigurationDescriptor, ToldInv, TypesKnown, Numbered
<1>3. CASE node = None
  <2>1. NextEndpoint = lastEp /\ lastEp \in Nat
    BY <1>3 DEF NextEndpoint, InHand, PlugInv, PlugTypeOK
  <2>2. ASSUME NEW m \in ToSet(chain), NEW k \in 1..NumEndpoints(m)
        PROVE  /\ pluggedEndpoint[m] + k - 1 \in Numbered
               /\ EndpointType[m][k] = initEndpoints[pluggedEndpoint[m] + k - 1]
    <3>1. m \in Module_
      <4>1. chain \in Seq(Module_) /\ m \in {chain[j] : j \in DOMAIN chain}
        BY <2>2 DEF PlugInv, PlugTypeOK, ToSet
      <4> QED BY <4>1
    <3>2. m \in Plugged
      BY <1>3, <3>1, PlugConstants DEF Plugged
    <3>3. DoneRight(m) /\ NumEndpoints(m) \in Nat /\ pluggedEndpoint[m] \in Nat
      BY <3>1, <3>2, PlugConstants DEF PlugInv, PlugTypeOK
    <3> QED BY <2>1, <3>3, PlugConstants DEF DoneRight, Numbered
  <2>3. declared' = UNION {{<<pluggedEndpoint[m] + k - 1, EndpointType[m][k]>> :
                              k \in 1..NumEndpoints(m)} : m \in ToSet(chain)}
    BY <1>3 DEF GetConfigurationDescriptor
  <2>4. declared' \subseteq {<<e, initEndpoints[e]>> : e \in Numbered}
    BY <2>2, <2>3
  <2> QED BY <1>1, <2>4 DEF ToldInv, TypesKnown, Numbered
<1> QED
  BY <1>2, <1>3

LEMMA ToldStep ==
  ASSUME PlugInv, ToldInv, [Next]_vars
  PROVE  ToldInv'
<1>1. CASE Plug
  BY <1>1, PlugTypes DEF Plug, devvars
<1>2. CASE GetConfigurationDescriptor
  BY <1>2, ReadTypes
<1>3. CASE BusReset
  BY <1>3 DEF BusReset, plugvars, ToldInv, TypesKnown, Numbered
<1>4. CASE Attach \/ WakeupHost \/ Sketch \/ FallAsleep \/ Traffic \/ GeneralInterrupt
           \/ SetRemoteWakeup \/ SetConfiguration \/ CdcSetup \/ UNCHANGED vars
  <2>1. UNCHANGED plugvars /\ declared' = declared
    BY <1>4 DEF Attach, WakeupHost, Sketch, FallAsleep, Traffic, GeneralInterrupt,
       SetRemoteWakeup, SetConfiguration, CdcSetup, SameBus, vars, devvars
  <2> QED BY <2>1, PlugTypes
<1> QED
  BY <1>1, <1>2, <1>3, <1>4 DEF Next, Request

(* A configuration set up covers what was told. *)
LEMMA SetUpCovers ==
  ASSUME PlugInv, ToldInv, SetConfiguration
  PROVE  declared \subseteq endpoints'
<1>1. /\ lastEp \in Nat /\ lastEp <= USB_ENDPOINTS /\ USB_ENDPOINTS \in Nat
      /\ DOMAIN initEndpoints = 0..(USB_ENDPOINTS - 1)
  <2>1. lastEp \in Nat /\ USB_ENDPOINTS \in Nat /\ DOMAIN initEndpoints = 0..(USB_ENDPOINTS - 1)
    BY PlugConstants DEF PlugInv, PlugTypeOK
  <2>2. CASE ~InHand
    BY <2>1, <2>2 DEF PlugInv, NextEndpoint
  <2>3. CASE InHand
    <3>1. /\ node \in Module_ /\ i \in Nat /\ pluggedEndpoint[node] \in Nat
          /\ NumEndpoints(node) \in Nat
      BY <2>3, PlugConstants DEF PlugInv, PlugTypeOK, InHand
    <3>2. /\ pluggedEndpoint[node] + i - 1 = lastEp /\ i - 1 <= NumEndpoints(node)
          /\ pluggedEndpoint[node] + NumEndpoints(node) <= USB_ENDPOINTS
      BY <2>3 DEF PlugInv, HandRight
    <3>3. lastEp <= USB_ENDPOINTS
      BY <2>1, <3>1, <3>2
    <3> QED BY <2>1, <3>3
  <2> QED BY <2>2, <2>3
<1>2. ASSUME NEW e \in Numbered
      PROVE  <<e, initEndpoints[e]>> \in endpoints'
  <2>1. e \in 1..USB_ENDPOINTS
    BY <1>1 DEF Numbered
  <2>2. Typed(e)
    <3> SUFFICES ASSUME NEW f \in 1..e
                 PROVE  f \in DOMAIN initEndpoints /\ initEndpoints[f] # "none"
      BY DEF Typed
    <3>1. f \in Numbered /\ f \in 0..(USB_ENDPOINTS - 1)
      BY <1>1 DEF Numbered
    <3> QED BY <1>1, <3>1 DEF ToldInv, TypesKnown
  <2>3. endpoints' = InitEndpoints
    BY DEF SetConfiguration
  <2> QED BY <2>1, <2>2, <2>3 DEF InitEndpoints
<1> QED
  BY <1>2 DEF ToldInv

(* When the host sets a configuration every end point it was told of is    *)
(* set up, with the type it was told, whatever was plugged in since        *)
(* (USBCore.cpp: InitEndpoints, PluggableUSB.cpp: plug).                   *)
THEOREM DeclaredAreSetUp == Spec => [][DeclaredSetUp]_vars
<1>1. Init => PlugInv /\ ToldInv
  BY PlugInitially, ToldInitially DEF Init
<1>2. PlugInv /\ ToldInv /\ [Next]_vars => PlugInv' /\ ToldInv'
  <2> SUFFICES ASSUME PlugInv, ToldInv, [Next]_vars
               PROVE  PlugInv' /\ ToldInv'
    OBVIOUS
  <2>1. PlugInv'
    BY StepOfParts, PlugInvStep DEF vars
  <2> QED BY <2>1, ToldStep
<1>3. PlugInv /\ ToldInv /\ [Next]_vars => [DeclaredSetUp]_vars
  <2> SUFFICES ASSUME PlugInv, ToldInv, Next PROVE DeclaredSetUp
    OBVIOUS
  <2>1. CASE SetConfiguration
    BY <2>1, SetUpCovers DEF DeclaredSetUp
  <2>2. CASE ~SetConfiguration
    <3>1. endpoints' \in {endpoints, {}}
      BY <2>2 DEF Next, Request, Attach, WakeupHost, Plug, Sketch, BusReset, FallAsleep, Traffic,
         GeneralInterrupt, GetConfigurationDescriptor, SetRemoteWakeup, CdcSetup, devvars
    <3> QED BY <3>1 DEF DeclaredSetUp
  <2> QED BY <2>1, <2>2
<1> QED
  BY <1>1, <1>2, <1>3, PTL DEF Spec

-----------------------------------------------------------------------------
(* The configuration.  A transfer is a fold over the bytes of each part    *)
(* and one over the chain, so first: a fold is a sequence of states, each  *)
(* the one before with one more byte, or module, sent.                     *)
Control(P) == [_cmark : Nat, _cend : Nat, sent : Seq(P), room : Nat, interfaces : Nat]

LEMMA MaxIs ==
  ASSUME NEW n \in Nat, NEW s, s \subseteq 1..n, NEW x, Top(s, x)
  PROVE  Max(s) = x
<1>1. \A y \in s : (\A z \in s : y >= z) => y = x
  BY DEF Top
<1>2. x \in s /\ \A z \in s : x >= z
  BY DEF Top
<1> QED BY <1>1, <1>2 DEF Max

LEMMA SendControlType ==
  ASSUME NEW P, NEW c \in Control(P), NEW b \in P
  PROVE  SendControl(c, b) \in Control(P)
<1>1. Append(c.sent, b) \in Seq(P)
  BY DEF Control
<1>2. /\ c._cmark \in Nat /\ c._cmark + 1 \in Nat
      /\ c = [_cmark |-> c._cmark, _cend |-> c._cend, sent |-> c.sent, room |-> c.room,
              interfaces |-> c.interfaces]
  BY DEF Control
<1>3. [c EXCEPT !._cmark = @ + 1] \in Control(P)
  BY <1>2 DEF Control
<1>4. [c EXCEPT !._cmark = @ + 1, !.sent = Append(@, b)] \in Control(P)
  BY <1>1, <1>2 DEF Control
<1> QED BY <1>3, <1>4 DEF SendControl

ByteByByte(h, c, n, bytes) ==
  /\ h[0] = c /\ h[n] = USB_SendControl(c, bytes)
  /\ \A k \in 1..n : h[k] = SendControl(h[k - 1], bytes[k])

LEMMA BytesFold ==
  ASSUME NEW P, NEW c, c \in Control(P), NEW n \in Nat, NEW bytes, bytes \in [1..n -> P]
  PROVE  \E h : ByteByByte(h, c, n, bytes)
<1> DEFINE D == SUBSET (1..n)
           V == Control(P)
           At(f, s) == IF s = {} THEN c ELSE SendControl(f[s \ {Max(s)}], bytes[Max(s)])
           Step(f) == [s \in D |-> At(f, s)]
           F == [f \in [D -> V] |-> Step(f)]
           g == CHOOSE f : f = Step(f)
<1>1. USB_SendControl(c, bytes) = g[1..n]
  BY DEF USB_SendControl, FoldLeft, MapThenFoldSet
<1>2. ASSUME NEW f, NEW s \in D, NEW x \in 1..n, Top(s, x)
      PROVE  At(f, s) = SendControl(f[s \ {x}], bytes[x])
  <2>1. Max(s) = x /\ s # {}
    BY <1>2, MaxIs DEF Top
  <2> QED BY <2>1
<1>3. ASSUME NEW f \in [D -> V], NEW s \in D
      PROVE  At(f, s) \in V
  <2>1. CASE s = {}
    BY <2>1
  <2>2. CASE s # {}
    <3>1. PICK x \in 1..n : Top(s, x)
      BY <2>2, TopIs
    <3>2. f[s \ {x}] \in V /\ bytes[x] \in P
      BY <3>1
    <3>3. At(f, s) = SendControl(f[s \ {x}], bytes[x])
      BY <1>2, <3>1
    <3> QED BY <3>2, <3>3, SendControlType
  <2> QED BY <2>1, <2>2
<1>4. \A f : At(f, {}) = c
  OBVIOUS
<1> HIDE DEF At
<1>5. F \in [[D -> V] -> [D -> V]]
  BY <1>3
<1>6. FromTop(n, V, F)
  <2>1. ASSUME NEW f \in [D -> V], NEW e \in [D -> V], NEW s \in D, NEW x \in 1..n,
               Top(s, x), f[s \ {x}] = e[s \ {x}]
        PROVE  F[f][s] = F[e][s]
    <3>1. At(f, s) = At(e, s)
      <4>1. At(f, s) = SendControl(f[s \ {x}], bytes[x])
        BY <1>2, <2>1
      <4>2. At(e, s) = SendControl(e[s \ {x}], bytes[x])
        BY <1>2, <2>1
      <4> QED BY <2>1, <4>1, <4>2
    <3>2. F[f] = Step(f) /\ F[e] = Step(e)
      BY <2>1
    <3>3. Step(f)[s] = At(f, s) /\ Step(e)[s] = At(e, s)
      OBVIOUS
    <3> HIDE DEF F, Step
    <3> QED BY <3>1, <3>2, <3>3
  <2>2. ASSUME NEW f \in [D -> V], NEW e \in [D -> V]
        PROVE  F[f][{}] = F[e][{}]
    BY <1>4
  <2> HIDE DEF F, V, D
  <2>3. \A f, e \in [D -> V] : \A s \in D : \A x \in 1..n :
          Top(s, x) /\ f[s \ {x}] = e[s \ {x}] => F[f][s] = F[e][s]
    BY <2>1
  <2>4. \A f, e \in [D -> V] : F[f][{}] = F[e][{}]
    BY <2>2
  <2>5. \A f, e \in [D -> V] :
          /\ F[f][{}] = F[e][{}]
          /\ \A s \in D : \A x \in 1..n :
               Top(s, x) /\ f[s \ {x}] = e[s \ {x}] => F[f][s] = F[e][s]
    BY <2>3, <2>4
  <2> QED BY <1>5, <2>5 DEF FromTop, D
<1>7. Solved(D, V, F)
  <2>1. V # {}
    OBVIOUS
  <2> HIDE DEF F, V
  <2> QED BY <1>6, <2>1, RecursionFromTop
<1>8. g = Step(g)
  <2>1. PICK f \in [D -> V] : f = F[f]
    BY <1>7 DEF Solved
  <2>2. f = Step(f)
    BY <2>1
  <2> HIDE DEF Step
  <2> QED BY <2>2
<1> HIDE DEF g
<1> DEFINE h == [k \in 0..n |-> g[1..k]]
<1>9. h[0] = c
  <2>1. 1..0 = {} /\ {} \in D
    OBVIOUS
  <2>2. g[{}] = c
    BY <1>4, <1>8, <2>1
  <2> QED BY <2>1, <2>2
<1>10. ASSUME NEW k \in 1..n PROVE h[k] = SendControl(h[k - 1], bytes[k])
  <2>1. Top(1..k, k) /\ (1..k) \ {k} = 1..(k - 1) /\ 1..k \in D
    BY TopOfRange
  <2>2. g[1..k] = At(g, 1..k)
    BY <1>8, <2>1
  <2>3. At(g, 1..k) = SendControl(g[1..(k - 1)], bytes[k])
    BY <1>2, <2>1
  <2>4. k \in 0..n /\ k - 1 \in 0..n
    OBVIOUS
  <2> QED BY <2>2, <2>3, <2>4
<1>11. h[n] = g[1..n]
  OBVIOUS
<1> HIDE DEF h
<1> QED BY <1>1, <1>9, <1>10, <1>11 DEF ByteByByte

(* What is sent of a text when l bytes of it were given to SendControl():  *)
(* as many as the limit and the packets allow.                             *)
Shortest(a, b, l) == IF a <= b THEN IF a <= l THEN a ELSE l ELSE IF b <= l THEN b ELSE l
Given(P, c, text, l, end, room, count) ==
  /\ c \in Control(P) /\ c._cend = end /\ c.room = room /\ c.interfaces = count
  /\ Len(c.sent) = Shortest(end, room, l)
  /\ c._cmark = IF end <= room THEN l ELSE Len(c.sent)
  /\ \A j \in 1..Len(c.sent) : c.sent[j] = text[j]

LEMMA OneMore ==
  ASSUME NEW P, NEW c, NEW text, NEW l \in Nat, NEW end \in Nat, NEW room \in Nat, NEW count,
         Given(P, c, text, l, end, room, count), NEW b \in P, b = text[l + 1],
         NEW d, d = SendControl(c, b)
  PROVE  Given(P, d, text, l + 1, end, room, count)
<1> DEFINE e == [c EXCEPT !._cmark = @ + 1]
           f == [c EXCEPT !._cmark = @ + 1, !.sent = Append(@, b)]
<1>1. /\ c \in Control(P) /\ c._cend = end /\ c.room = room /\ c.interfaces = count
      /\ Len(c.sent) = Shortest(end, room, l)
      /\ c._cmark = IF end <= room THEN l ELSE Len(c.sent)
      /\ \A j \in 1..Len(c.sent) : c.sent[j] = text[j]
      /\ c.sent \in Seq(P) /\ c._cmark \in Nat
  BY DEF Given, Control
<1>2. PICK n \in Nat : n = Len(c.sent)
  BY <1>1
<1>3. d \in Control(P)
  BY <1>1, SendControlType
<1>4. /\ e._cmark = c._cmark + 1 /\ e._cend = end /\ e.room = room /\ e.sent = c.sent
      /\ e.interfaces = c.interfaces
      /\ f._cmark = c._cmark + 1 /\ f._cend = end /\ f.room = room /\ f.sent = Append(c.sent, b)
      /\ f.interfaces = c.interfaces
  BY <1>1 DEF Control
<1>5. d = IF c._cmark >= end THEN e ELSE IF n = room THEN c ELSE f
  BY <1>1, <1>2 DEF SendControl
<1> HIDE DEF e, f
<1>6. CASE c._cmark >= end
  <2>1. d = e
    BY <1>5, <1>6
  <2>2. end <= room
    BY <1>1, <1>2, <1>6 DEF Shortest
  <2>3. l >= end /\ Shortest(end, room, l + 1) = n /\ e._cmark = l + 1
    BY <1>1, <1>2, <1>4, <1>6, <2>2 DEF Shortest
  <2> QED BY <1>1, <1>2, <1>3, <1>4, <2>1, <2>2, <2>3 DEF Given
<1>7. CASE ~(c._cmark >= end) /\ n = room
  <2>1. d = c
    BY <1>5, <1>7
  <2>2. ~(end <= room) /\ Shortest(end, room, l + 1) = n
    BY <1>1, <1>2, <1>7 DEF Shortest
  <2> QED BY <1>1, <1>2, <2>1, <2>2 DEF Given
<1>8. CASE ~(c._cmark >= end) /\ n # room
  <2>1. d = f
    BY <1>5, <1>8
  <2>2. n = l /\ Shortest(end, room, l + 1) = n + 1 /\ c._cmark = l
    BY <1>1, <1>2, <1>8 DEF Shortest
  <2>3. /\ Len(f.sent) = n + 1
        /\ \A j \in 1..(n + 1) : f.sent[j] = IF j = n + 1 THEN b ELSE c.sent[j]
    <3>1. PICK s \in Seq(P) : s = c.sent /\ n = Len(s)
      BY <1>1, <1>2
    <3>2. /\ Len(Append(s, b)) = n + 1
          /\ \A j \in 1..(n + 1) : Append(s, b)[j] = IF j = n + 1 THEN b ELSE s[j]
      BY <3>1, AppendProperties
    <3> QED BY <1>4, <3>1, <3>2
  <2>4. ASSUME NEW j \in 1..(n + 1) PROVE f.sent[j] = text[j]
    <3>1. CASE j = n + 1
      BY <2>2, <2>3, <3>1
    <3>2. CASE j # n + 1
      BY <1>1, <1>2, <2>3, <3>2
    <3> QED BY <3>1, <3>2
  <2>5. f._cmark = IF end <= room THEN l + 1 ELSE Len(f.sent)
    BY <1>2, <1>4, <2>2, <2>3
  <2> QED BY <1>3, <1>4, <2>1, <2>2, <2>3, <2>4, <2>5 DEF Given
<1> QED BY <1>6, <1>7, <1>8

Bears(text, l, bytes, n) == \A k \in 1..n : text[l + k] = bytes[k]

LEMMA PartGiven ==
  ASSUME NEW P, NEW c, NEW text, NEW l \in Nat, NEW end \in Nat, NEW room \in Nat, NEW count,
         Given(P, c, text, l, end, room, count),
         NEW n \in Nat, NEW bytes, bytes \in [1..n -> P], Bears(text, l, bytes, n),
         NEW d, d = USB_SendControl(c, bytes), NEW m, m = l + n
  PROVE  Given(P, d, text, m, end, room, count)
<1>1. PICK h : ByteByByte(h, c, n, bytes)
  <2>1. c \in Control(P)
    BY DEF Given
  <2> QED BY <2>1, BytesFold
<1> DEFINE Right(k) == Given(P, h[k], text, l + k, end, room, count)
           Good == {k \in 0..n : Right(k)}
<1>2. Right(0)
  BY <1>1 DEF ByteByByte
<1>3. ASSUME NEW k \in 0..n, k < n, Right(k)
      PROVE  Right(k + 1)
  <2>1. PICK m2 \in Nat : m2 = l + k /\ l + (k + 1) = m2 + 1
    OBVIOUS
  <2>2. PICK e : e = h[k]
    OBVIOUS
  <2>3. PICK b \in P : b = bytes[k + 1] /\ b = text[m2 + 1]
    <3>1. k + 1 \in 1..n /\ l + (k + 1) = m2 + 1
      BY <1>3, <2>1
    <3> QED BY <3>1 DEF Bears
  <2>4. PICK f : f = h[k + 1] /\ f = SendControl(e, b)
    <3>1. k + 1 \in 1..n /\ (k + 1) - 1 = k
      BY <1>3
    <3> QED BY <1>1, <2>2, <2>3, <3>1 DEF ByteByByte
  <2>5. Given(P, e, text, m2, end, room, count)
    BY <1>3, <2>1, <2>2
  <2>6. Given(P, f, text, m2 + 1, end, room, count)
    BY <2>3, <2>4, <2>5, OneMore
  <2> QED BY <2>1, <2>4, <2>5, <2>6
<1> HIDE DEF Right
<1>4. n \in Good
  <2>1. 0 \in Good
    BY <1>2
  <2>2. \A k \in 0..n : k < n /\ k \in Good => k + 1 \in Good
    BY <1>3
  <2>3. n \in 0..n
    OBVIOUS
  <2> HIDE DEF Good
  <2> QED BY <2>1, <2>2, <2>3, InductionTo
<1> QED BY <1>1, <1>4 DEF Right, ByteByByte

LEMMA SendType ==
  ASSUME NEW P, NEW c, c \in Control(P), NEW n \in Nat, NEW bytes, bytes \in [1..n -> P]
  PROVE  USB_SendControl(c, bytes) \in Control(P)
<1>1. PICK h : ByteByByte(h, c, n, bytes)
  BY BytesFold
<1> DEFINE Good == {k \in 0..n : h[k] \in Control(P)}
<1>2. 0 \in Good
  BY <1>1 DEF ByteByByte
<1>3. ASSUME NEW k \in 0..n, k < n, k \in Good
      PROVE  k + 1 \in Good
  <2>1. k + 1 \in 1..n /\ (k + 1) - 1 = k /\ k + 1 \in 0..n
    BY <1>3
  <2>2. h[k + 1] = SendControl(h[k], bytes[k + 1]) /\ bytes[k + 1] \in P
    BY <1>1, <2>1 DEF ByteByByte
  <2>3. h[k] \in Control(P)
    BY <1>3
  <2>4. h[k + 1] \in Control(P)
    BY <2>2, <2>3, SendControlType
  <2> QED BY <2>1, <2>4
<1>4. n \in Good
  <2> HIDE DEF Good
  <2>1. n \in 0..n
    OBVIOUS
  <2> QED BY <1>2, <1>3, <2>1, InductionTo
<1> QED BY <1>1, <1>4 DEF ByteByByte

(* A byte of a descriptor, and the numbers modules have at any time. *)
Piece == [what : {"config", "cdc"} \cup Module_, number : Nat, endpoint : Nat]
PieceOf(m) == [what |-> m, number |-> pluggedInterface[m], endpoint |-> pluggedEndpoint[m]]
ModuleBytes(m) == Bytes(ModuleLen, m, pluggedInterface[m], pluggedEndpoint[m])
Counted(c, m) == [c EXCEPT !.interfaces = @ + NumInterfaces[m]]

LEMMA ModuleBytesType ==
  ASSUME PlugTypeOK, NEW m \in Module_
  PROVE  /\ ModuleLen \in Nat /\ ModuleBytes(m) \in [1..ModuleLen -> Piece]
         /\ \A k \in 1..ModuleLen : ModuleBytes(m)[k] = PieceOf(m)
         /\ PieceOf(m) \in Piece
<1>1. pluggedInterface[m] \in Nat /\ pluggedEndpoint[m] \in Nat /\ ModuleLen \in Nat
  BY UsbDeviceAssumption DEF PlugTypeOK
<1>2. PieceOf(m) \in Piece
  BY <1>1 DEF PieceOf, Piece
<1> QED BY <1>1, <1>2 DEF ModuleBytes, Bytes, PieceOf

LEMMA CountedIs ==
  ASSUME NEW P, NEW c, c \in Control(P), NEW m \in Module_
  PROVE  /\ Counted(c, m) \in Control(P)
         /\ Counted(c, m).interfaces = c.interfaces + NumInterfaces[m]
         /\ Counted(c, m)._cmark = c._cmark /\ Counted(c, m)._cend = c._cend
         /\ Counted(c, m).sent = c.sent /\ Counted(c, m).room = c.room
<1>1. NumInterfaces[m] \in Nat /\ c.interfaces \in Nat
  BY PlugConstants DEF Control
<1>2. c.interfaces + NumInterfaces[m] \in Nat
  BY <1>1
<1> QED BY <1>2 DEF Counted, Control

LEMMA ModuleInterfaceType ==
  ASSUME PlugTypeOK, NEW c, c \in Control(Piece), NEW m \in Module_
  PROVE  /\ ModuleInterface(c, m) = USB_SendControl(Counted(c, m), ModuleBytes(m))
         /\ ModuleInterface(c, m) \in Control(Piece)
<1>1. ModuleInterface(c, m) = USB_SendControl(Counted(c, m), ModuleBytes(m))
  BY DEF ModuleInterface, Counted, ModuleBytes
<1>2. Counted(c, m) \in Control(Piece)
  BY CountedIs
<1>3. ModuleLen \in Nat /\ ModuleBytes(m) \in [1..ModuleLen -> Piece]
  BY ModuleBytesType
<1>4. USB_SendControl(Counted(c, m), ModuleBytes(m)) \in Control(Piece)
  BY <1>2, <1>3, SendType
<1> QED BY <1>1, <1>4

ModuleByModule(h, c, n) ==
  /\ h[0] = c /\ h[n] = FoldLeft(ModuleInterface, c, chain)
  /\ \A k \in 1..n : h[k] = ModuleInterface(h[k - 1], chain[k])

LEMMA ChainFold ==
  ASSUME PlugTypeOK, NEW c, c \in Control(Piece), NEW n \in Nat, n = Len(chain)
  PROVE  \E h : ModuleByModule(h, c, n)
<1> DEFINE D == SUBSET (1..n)
           V == Control(Piece)
           At(f, s) == IF s = {} THEN c ELSE ModuleInterface(f[s \ {Max(s)}], chain[Max(s)])
           Step(f) == [s \in D |-> At(f, s)]
           F == [f \in [D -> V] |-> Step(f)]
           g == CHOOSE f : f = Step(f)
<1>0. DOMAIN chain = 1..n /\ \A k \in 1..n : chain[k] \in Module_
  BY DEF PlugTypeOK
<1>1. FoldLeft(ModuleInterface, c, chain) = g[1..n]
  BY <1>0 DEF FoldLeft, MapThenFoldSet
<1>2. ASSUME NEW s \in D, NEW x \in 1..n, Top(s, x)
      PROVE  Max(s) = x /\ s # {}
  BY <1>2, MaxIs DEF Top
<1>3. ASSUME NEW f \in [D -> V], NEW s \in D
      PROVE  At(f, s) \in V
  <2>1. CASE s = {}
    BY <2>1
  <2>2. CASE s # {}
    <3>1. PICK x \in 1..n : Top(s, x)
      BY <2>2, TopIs
    <3>2. f[s \ {x}] \in V /\ chain[x] \in Module_
      BY <1>0, <3>1
    <3>3. Max(s) = x /\ s # {}
      BY <1>2, <3>1
    <3>4. At(f, s) = ModuleInterface(f[s \ {x}], chain[x])
      BY <3>3
    <3> QED BY <3>2, <3>4, ModuleInterfaceType
  <2> QED BY <2>1, <2>2
<1>4. \A f : At(f, {}) = c
  OBVIOUS
<1> HIDE DEF At, g
<1>5. F \in [[D -> V] -> [D -> V]]
  BY <1>3
<1>6. FromTop(n, V, F)
  <2>1. ASSUME NEW f \in [D -> V], NEW e \in [D -> V], NEW s \in D, NEW x \in 1..n,
               Top(s, x), f[s \ {x}] = e[s \ {x}]
        PROVE  F[f][s] = F[e][s]
    <3>1. At(f, s) = At(e, s)
      <4>1. Max(s) = x /\ s # {}
        BY <1>2, <2>1
      <4> QED BY <2>1, <4>1 DEF At
    <3>2. F[f] = Step(f) /\ F[e] = Step(e)
      BY <2>1
    <3>3. Step(f)[s] = At(f, s) /\ Step(e)[s] = At(e, s)
      OBVIOUS
    <3> HIDE DEF F, Step
    <3> QED BY <3>1, <3>2, <3>3
  <2>2. ASSUME NEW f \in [D -> V], NEW e \in [D -> V]
        PROVE  F[f][{}] = F[e][{}]
    BY <1>4
  <2> HIDE DEF F, V, D
  <2>3. \A f, e \in [D -> V] : \A s \in D : \A x \in 1..n :
          Top(s, x) /\ f[s \ {x}] = e[s \ {x}] => F[f][s] = F[e][s]
    BY <2>1
  <2>4. \A f, e \in [D -> V] : F[f][{}] = F[e][{}]
    BY <2>2
  <2>5. \A f, e \in [D -> V] :
          /\ F[f][{}] = F[e][{}]
          /\ \A s \in D : \A x \in 1..n :
               Top(s, x) /\ f[s \ {x}] = e[s \ {x}] => F[f][s] = F[e][s]
    BY <2>3, <2>4
  <2> QED BY <1>5, <2>5 DEF FromTop, D
<1>7. Solved(D, V, F)
  <2>1. V # {}
    OBVIOUS
  <2> HIDE DEF F, V
  <2> QED BY <1>6, <2>1, RecursionFromTop
<1>8. g = Step(g)
  <2>1. PICK f \in [D -> V] : f = F[f]
    BY <1>7 DEF Solved
  <2>2. f = Step(f)
    BY <2>1
  <2> HIDE DEF Step
  <2> QED BY <2>2 DEF g
<1> DEFINE h == [k \in 0..n |-> g[1..k]]
<1>9. h[0] = c
  <2>1. 1..0 = {} /\ {} \in D
    OBVIOUS
  <2>2. g[{}] = c
    BY <1>4, <1>8, <2>1
  <2> QED BY <2>1, <2>2
<1>10. ASSUME NEW k \in 1..n PROVE h[k] = ModuleInterface(h[k - 1], chain[k])
  <2>1. Top(1..k, k) /\ (1..k) \ {k} = 1..(k - 1) /\ 1..k \in D
    BY TopOfRange
  <2>2. g[1..k] = At(g, 1..k)
    BY <1>8, <2>1
  <2>3. At(g, 1..k) = ModuleInterface(g[1..(k - 1)], chain[k])
    <3>1. Max(1..k) = k /\ 1..k # {}
      BY <1>2, <2>1
    <3> QED BY <2>1, <3>1 DEF At
  <2>4. k \in 0..n /\ k - 1 \in 0..n
    OBVIOUS
  <2> QED BY <2>2, <2>3, <2>4
<1>11. h[n] = g[1..n]
  OBVIOUS
<1> HIDE DEF h
<1> QED BY <1>1, <1>9, <1>10, <1>11 DEF ModuleByModule

(* The interfaces up to module k of the chain, when they are numbered in   *)
(* its order, and a text that has the bytes of the modules behind l.       *)
After(k) ==
  IF k = 0 THEN CdcInterfaces ELSE pluggedInterface[chain[k]] + NumInterfaces[chain[k]]
InOrder(n) == \A k \in 1..n : pluggedInterface[chain[k]] = After(k - 1)
HasModules(text, l, n) ==
  \A k \in 1..n : \A j \in 1..ModuleLen : text[l + (k - 1) * ModuleLen + j] = PieceOf(chain[k])

LEMMA OneModule ==
  ASSUME PlugTypeOK, NEW c, NEW text, NEW l \in Nat, NEW end \in Nat, NEW room \in Nat, NEW count,
         Given(Piece, c, text, l, end, room, count), NEW m \in Module_,
         NEW z, z = PieceOf(m), NEW q \in Nat, q = ModuleLen,
         \A j \in 1..q : text[l + j] = z,
         NEW d, d = ModuleInterface(c, m), NEW r, r = l + q,
         NEW more, more = count + NumInterfaces[m]
  PROVE  Given(Piece, d, text, r, end, room, more)
<1>1. PICK e : e = Counted(c, m)
  OBVIOUS
<1>2. PICK b : b = ModuleBytes(m)
  OBVIOUS
<1>3. c \in Control(Piece)
  BY DEF Given
<1>4. /\ e \in Control(Piece) /\ e.interfaces = c.interfaces + NumInterfaces[m]
      /\ e._cmark = c._cmark /\ e._cend = c._cend /\ e.sent = c.sent /\ e.room = c.room
  BY <1>1, <1>3, CountedIs
<1>5. Given(Piece, e, text, l, end, room, more)
  BY <1>4 DEF Given
<1>6. b \in [1..q -> Piece] /\ \A k \in 1..q : b[k] = z
  BY <1>2, ModuleBytesType
<1>7. d = USB_SendControl(e, b)
  BY <1>1, <1>2, <1>3, ModuleInterfaceType
<1>8. Bears(text, l, b, q)
  BY <1>6 DEF Bears
<1> QED BY <1>5, <1>6, <1>7, <1>8, PartGiven

LEMMA ModulesGiven ==
  ASSUME PlugTypeOK, NEW n \in Nat, n = Len(chain), InOrder(n),
         NEW c, NEW text, NEW l \in Nat, NEW end \in Nat, NEW room \in Nat, NEW count,
         Given(Piece, c, text, l, end, room, count), count = CdcInterfaces,
         HasModules(text, l, n),
         NEW d, d = FoldLeft(ModuleInterface, c, chain)
  PROVE  Given(Piece, d, text, l + n * ModuleLen, end, room, After(n))
<1>1. PICK h : ModuleByModule(h, c, n)
  <2>1. c \in Control(Piece)
    BY DEF Given
  <2> QED BY <2>1, ChainFold
<1>2. ModuleLen \in Nat /\ \A k \in 1..n : chain[k] \in Module_
  BY UsbDeviceAssumption DEF PlugTypeOK
<1> DEFINE Right(k) == Given(Piece, h[k], text, l + k * ModuleLen, end, room, After(k))
           Good == {k \in 0..n : Right(k)}
<1>3. Right(0)
  <2>1. l + 0 * ModuleLen = l /\ h[0] = c /\ After(0) = CdcInterfaces
    BY <1>1, <1>2 DEF ModuleByModule, After
  <2> QED BY <2>1
<1>4. ASSUME NEW k \in 0..n, k < n, Right(k)
      PROVE  Right(k + 1)
  <2>0. PICK q \in 1..n : q = k + 1 /\ q - 1 = k
    BY <1>4
  <2>1. PICK p \in Nat : p = l + k * ModuleLen /\ l + q * ModuleLen = p + ModuleLen
    <3>1. k * ModuleLen \in Nat /\ (k + 1) * ModuleLen = k * ModuleLen + ModuleLen
      BY <1>2
    <3> QED BY <1>2, <2>0, <3>1
  <2>2. PICK e : e = h[k]
    OBVIOUS
  <2>3. PICK m \in Module_ : m = chain[q]
    BY <1>2
  <2>4. PICK f : f = h[q] /\ f = ModuleInterface(e, m)
    BY <1>1, <2>0, <2>2, <2>3 DEF ModuleByModule
  <2>5. PICK old : old = After(k) /\ Given(Piece, e, text, p, end, room, old)
    BY <1>4, <2>1, <2>2
  <2>6. PICK z : z = PieceOf(m)
    OBVIOUS
  <2>7. PICK r \in Nat : r = ModuleLen
    BY <1>2
  <2>8. \A j \in 1..r : text[p + j] = z
    BY <2>0, <2>1, <2>3, <2>6, <2>7 DEF HasModules
  <2>9. PICK t : t = p + r /\ t = l + q * ModuleLen
    BY <2>1, <2>7
  <2>10. PICK new : new = After(q) /\ new = old + NumInterfaces[m]
    BY <2>0, <2>3, <2>5 DEF After, InOrder
  <2>11. Given(Piece, f, text, t, end, room, new)
    BY <2>4, <2>5, <2>6, <2>7, <2>8, <2>9, <2>10, OneModule
  <2> QED BY <2>0, <2>4, <2>9, <2>10, <2>11
<1> HIDE DEF Right
<1>5. n \in Good
  <2>1. 0 \in Good
    BY <1>3
  <2>2. \A k \in 0..n : k < n /\ k \in Good => k + 1 \in Good
    BY <1>4
  <2>3. n \in 0..n
    OBVIOUS
  <2> HIDE DEF Good
  <2> QED BY <2>1, <2>2, <2>3, InductionTo
<1> QED BY <1>1, <1>5 DEF Right, ModuleByModule

(* SendInterfaces() sends the serial port's part and the modules'. *)
CdcPiece == [what |-> "cdc", number |-> 0, endpoint |-> 1]
HasCdc(text, l) == \A j \in 1..CdcLen : text[l + j] = CdcPiece

LEMMA InterfacesGiven ==
  ASSUME PlugTypeOK, NEW n \in Nat, n = Len(chain), InOrder(n),
         NEW c, NEW text, NEW l \in Nat, NEW end \in Nat, NEW room \in Nat, NEW count,
         Given(Piece, c, text, l, end, room, count),
         HasCdc(text, l), NEW m \in Nat, m = l + CdcLen, HasModules(text, m, n),
         NEW d, d = SendInterfaces(c), NEW q, q = m + n * ModuleLen,
         NEW all, all = After(n)
  PROVE  Given(Piece, d, text, q, end, room, all)
<1>1. PICK b : b = Bytes(CdcLen, "cdc", 0, 1)
  OBVIOUS
<1>2. PICK e : e = [c EXCEPT !.interfaces = CdcInterfaces]
  OBVIOUS
<1>3. PICK k \in Nat : k = CdcLen
  BY UsbDeviceAssumption
<1>4. b \in [1..k -> Piece] /\ Bears(text, l, b, k)
  BY <1>1, <1>3 DEF Bytes, Bears, HasCdc, CdcPiece, Piece
<1>5. Given(Piece, e, text, l, end, room, CdcInterfaces)
  BY <1>2, PlugConstants DEF Given, Control
<1>6. PICK f : f = USB_SendControl(e, b)
  OBVIOUS
<1>7. Given(Piece, f, text, m, end, room, CdcInterfaces)
  BY <1>3, <1>4, <1>5, <1>6, PartGiven
<1>8. d = FoldLeft(ModuleInterface, f, chain)
  BY <1>1, <1>2, <1>6 DEF SendInterfaces
<1> QED BY <1>7, <1>8, ModulesGiven

(* A text that is the configuration, behind a header of one piece. *)
Describes(text, header, n) ==
  /\ \A j \in 1..HeaderLen : text[j] = header
  /\ HasCdc(text, HeaderLen)
  /\ HasModules(text, HeaderLen + CdcLen, n)

LEMMA PlaceOf ==
  ASSUME NEW u \in Nat, NEW v \in Nat, NEW k \in Nat, NEW q \in Nat, k > 0, q > 0,
         NEW j \in 1..v, u + (k - 1) * v + j <= u + q * v, u + (k - 1) * v + j > u + (q - 1) * v
  PROVE  q = k
<1>1. (k - 1) * v \in Nat /\ (q - 1) * v \in Nat /\ k * v = (k - 1) * v + v /\ q * v = (q - 1) * v + v
      /\ k * v \in Nat /\ q * v \in Nat
  OBVIOUS
<1>2. CASE q < k
  <2>1. q * v <= (k - 1) * v
    <3>1. PICK r \in Nat : k - 1 = q + r
      <4>1. k - 1 - q \in Nat /\ k - 1 = q + (k - 1 - q)
        BY <1>2
      <4> QED BY <4>1
    <3>2. (k - 1) * v = q * v + r * v /\ r * v \in Nat
      BY <3>1
    <3> QED BY <1>1, <3>2
  <2> QED BY <1>1, <2>1
<1>3. CASE k < q
  <2>1. k * v <= (q - 1) * v
    <3>1. PICK r \in Nat : q - 1 = k + r
      <4>1. q - 1 - k \in Nat /\ q - 1 = k + (q - 1 - k)
        BY <1>3
      <4> QED BY <4>1
    <3>2. (q - 1) * v = k * v + r * v /\ r * v \in Nat
      BY <3>1
    <3> QED BY <1>1, <3>2
  <2> QED BY <1>1, <2>1
<1> QED BY <1>2, <1>3

LEMMA TextIs ==
  ASSUME NEW n \in Nat, NEW header
  PROVE  \E text : Describes(text, header, n)
<1>1. PICK u \in Nat : u = HeaderLen + CdcLen
  BY UsbDeviceAssumption
<1>2. PICK v \in Nat : v = ModuleLen
  BY UsbDeviceAssumption
<1>3. HeaderLen \in Nat /\ CdcLen \in Nat
  BY UsbDeviceAssumption
<1> DEFINE In(k, j) == j > u + (k - 1) * v /\ j <= u + k * v
           At(j) == CHOOSE k \in 1..n : In(k, j)
           text == [j \in Nat |-> IF j <= HeaderLen THEN header ELSE IF j <= u THEN CdcPiece
                                  ELSE PieceOf(chain[At(j)])]
<1>4. \A j \in 1..HeaderLen : text[j] = header
  BY <1>1, <1>3
<1>5. HasCdc(text, HeaderLen)
  <2>1. ASSUME NEW j \in 1..CdcLen PROVE text[HeaderLen + j] = CdcPiece
    <3>1. HeaderLen + j \in Nat /\ ~(HeaderLen + j <= HeaderLen) /\ HeaderLen + j <= u
      BY <1>1, <1>3
    <3> QED BY <3>1
  <2> QED BY <2>1 DEF HasCdc
<1>6. HasModules(text, u, n)
  <2>1. ASSUME NEW k \in 1..n, NEW j \in 1..v
        PROVE  text[u + (k - 1) * v + j] = PieceOf(chain[k])
    <3>1. PICK p \in Nat : p = u + (k - 1) * v + j /\ p > u /\ In(k, p)
      <4>1. (k - 1) * v \in Nat /\ k * v = (k - 1) * v + v
        OBVIOUS
      <4> QED BY <4>1
    <3>2. \A q \in 1..n : In(q, p) => q = k
      BY <3>1, PlaceOf
    <3> HIDE DEF In
    <3>3. At(p) = k
      BY <3>1, <3>2
    <3>4. ~(p <= u) /\ ~(p <= HeaderLen)
      BY <1>1, <1>3, <3>1
    <3>5. text[p] = PieceOf(chain[At(p)])
      BY <3>1, <3>4
    <3> QED BY <3>1, <3>3, <3>5
  <2> HIDE DEF text
  <2> QED BY <1>2, <2>1 DEF HasModules
<1> HIDE DEF text
<1> QED BY <1>1, <1>4, <1>5, <1>6 DEF Describes

LEMMA InitControlGiven ==
  ASSUME NEW end \in Nat, NEW packets \in Nat, NEW room, room = packets * PacketSize, NEW text
  PROVE  room \in Nat /\ Given(Piece, InitControl(end, packets), text, 0, end, room, 0)
<1>1. room \in Nat
  BY UsbDeviceAssumption
<1>2. PICK c : c = InitControl(end, packets)
  OBVIOUS
<1>3. /\ c._cmark = 0 /\ c._cend = end /\ c.sent = <<>> /\ c.room = room /\ c.interfaces = 0
      /\ c \in Control(Piece) /\ Len(c.sent) = 0
  BY <1>1, <1>2 DEF InitControl, Control
<1>4. Shortest(end, room, 0) = 0
  BY <1>1 DEF Shortest
<1> QED BY <1>1, <1>2, <1>3, <1>4 DEF Given

(* Measuring counts the bytes and the interfaces, whatever the host takes. *)
LEMMA Measured ==
  ASSUME PlugTypeOK, NEW n \in Nat, n = Len(chain), InOrder(n), NEW packets \in Nat,
         NEW c, c = SendInterfaces(InitControl(0, packets))
  PROVE  c._cmark = CdcLen + n * ModuleLen /\ c.interfaces = After(n)
<1>1. PICK b \in Nat : b = CdcLen
  BY UsbDeviceAssumption
<1>2. PICK t : Describes(t, CdcPiece, n)
  BY TextIs
<1>3. HeaderLen \in Nat /\ CdcLen \in Nat /\ ModuleLen \in Nat
  BY UsbDeviceAssumption
<1> DEFINE text == [j \in Nat |-> t[HeaderLen + j]]
<1>4. HasCdc(text, 0)
  <2>1. ASSUME NEW j \in 1..CdcLen PROVE text[0 + j] = CdcPiece
    <3>1. t[HeaderLen + j] = CdcPiece
      BY <1>2 DEF Describes, HasCdc
    <3>2. 0 + j = j /\ j \in Nat
      BY <1>3
    <3> QED BY <3>1, <3>2
  <2> QED BY <2>1 DEF HasCdc
<1>5. HasModules(text, b, n)
  <2>1. ASSUME NEW k \in 1..n, NEW j \in 1..ModuleLen
        PROVE  text[b + (k - 1) * ModuleLen + j] = PieceOf(chain[k])
    <3>1. t[HeaderLen + CdcLen + (k - 1) * ModuleLen + j] = PieceOf(chain[k])
      BY <1>2 DEF Describes, HasModules
    <3>2. PICK p \in Nat : p = (k - 1) * ModuleLen
      BY <1>3
    <3>3. /\ b + p + j \in Nat /\ HeaderLen + (b + p + j) = HeaderLen + CdcLen + p + j
      BY <1>1, <1>3
    <3>4. text[b + p + j] = t[HeaderLen + CdcLen + p + j]
      BY <3>3
    <3> HIDE DEF text
    <3> QED BY <3>1, <3>2, <3>4
  <2> HIDE DEF text
  <2> QED BY <2>1 DEF HasModules
<1> HIDE DEF text
<1>6. PICK e : e = InitControl(0, packets)
  OBVIOUS
<1>7. PICK room \in Nat : room = packets * PacketSize /\ Given(Piece, e, text, 0, 0, room, 0)
  BY <1>6, InitControlGiven
<1>8. PICK q \in Nat : q = b + n * ModuleLen
  BY <1>3
<1>9. PICK all : all = After(n)
  OBVIOUS
<1>10. b = 0 + CdcLen
  BY <1>1
<1>11. Given(Piece, c, text, q, 0, room, all)
  BY <1>4, <1>5, <1>6, <1>7, <1>8, <1>9, <1>10, InterfacesGiven
<1> QED BY <1>1, <1>7, <1>8, <1>9, <1>11 DEF Given

(* What the host gets is as much of the text as it asks for and takes. *)
WholeLen(n) == HeaderLen + CdcLen + n * ModuleLen
HeaderOf(n) == [what |-> "config", number |-> WholeLen(n), endpoint |-> After(n)]
Begins(s, text, l) == s \in Seq(Piece) /\ Len(s) = l /\ \A j \in 1..l : s[j] = text[j]

LEMMA ConfigurationSent ==
  ASSUME PlugTypeOK, NEW n \in Nat, n = Len(chain), InOrder(n), After(n) \in Nat,
         NEW end \in Nat, NEW packets \in Nat, NEW text, Describes(text, HeaderOf(n), n),
         NEW room, room = packets * PacketSize, NEW w, w = WholeLen(n)
  PROVE  Begins(SendConfiguration(end, packets), text, Shortest(end, room, w))
<1>1. PICK measured : measured = SendInterfaces(InitControl(0, packets))
  OBVIOUS
<1>2. measured._cmark = CdcLen + n * ModuleLen /\ measured.interfaces = After(n)
  BY <1>1, Measured
<1>3. /\ HeaderLen \in Nat /\ CdcLen \in Nat /\ ModuleLen \in Nat
      /\ n * ModuleLen \in Nat /\ w \in Nat /\ room \in Nat
  <2>1. HeaderLen \in Nat /\ CdcLen \in Nat /\ ModuleLen \in Nat /\ PacketSize \in Nat
    BY UsbDeviceAssumption
  <2>2. n * ModuleLen \in Nat
    BY <2>1
  <2> QED BY <2>1, <2>2 DEF WholeLen
<1>4. PICK config : config = Bytes(HeaderLen, "config", w, After(n))
  OBVIOUS
<1>5. Total(measured) = w
  BY <1>2, <1>3 DEF Total, WholeLen
<1>6. PICK k \in Nat : k = HeaderLen
  BY <1>3
<1>7. config \in [1..k -> Piece] /\ Bears(text, 0, config, k)
  <2>1. HeaderOf(n) \in Piece
    BY <1>3 DEF HeaderOf, Piece
  <2>2. \A j \in 1..k : config[j] = HeaderOf(n) /\ text[0 + j] = HeaderOf(n)
    BY <1>4, <1>6 DEF Bytes, HeaderOf, Describes
  <2>3. config = [j \in 1..k |-> HeaderOf(n)]
    BY <1>4, <1>6 DEF Bytes, HeaderOf
  <2> QED BY <2>1, <2>2, <2>3 DEF Bears
<1>8. PICK e : e = InitControl(end, packets)
  OBVIOUS
<1>9. Given(Piece, e, text, 0, end, room, 0)
  BY <1>8, InitControlGiven
<1>10. PICK f : f = USB_SendControl(e, config)
  OBVIOUS
<1>11. k = 0 + k
  OBVIOUS
<1>12. Given(Piece, f, text, k, end, room, 0)
  BY <1>3, <1>7, <1>9, <1>10, <1>11, PartGiven
<1>13. PICK m \in Nat : m = k + CdcLen
  BY <1>3
<1>14. HasCdc(text, k) /\ HasModules(text, m, n)
  BY <1>6, <1>13 DEF Describes
<1>15. PICK d : d = SendInterfaces(f)
  OBVIOUS
<1>16. w = m + n * ModuleLen
  BY <1>3, <1>6, <1>13 DEF WholeLen
<1>17. PICK all : all = After(n)
  OBVIOUS
<1>18. Given(Piece, d, text, w, end, room, all)
  BY <1>3, <1>12, <1>13, <1>14, <1>15, <1>16, <1>17, InterfacesGiven
<1>19. SendConfiguration(end, packets) = d.sent
  BY <1>1, <1>2, <1>4, <1>5, <1>8, <1>10, <1>15 DEF SendConfiguration
<1>20. d.sent \in Seq(Piece)
  BY <1>18 DEF Given, Control
<1>21. Len(d.sent) = Shortest(end, room, w) /\ \A j \in 1..Len(d.sent) : d.sent[j] = text[j]
  BY <1>18 DEF Given
<1> QED BY <1>19, <1>20, <1>21 DEF Begins

(* The chain holds each module once, the one in hand last, and those that  *)
(* are numbered are numbered in its order, up to lastIf.                   *)
NumberedCount == IF node # None /\ i = 0 THEN Len(chain) - 1 ELSE Len(chain)
OrderInv ==
  /\ \A j, k \in 1..Len(chain) : chain[j] = chain[k] => j = k
  /\ node # None => Len(chain) > 0 /\ chain[Len(chain)] = node
  /\ InOrder(NumberedCount)
  /\ lastIf = After(NumberedCount)

LEMMA OrderInitially == PlugInit => OrderInv
<1> SUFFICES ASSUME PlugInit PROVE OrderInv
  OBVIOUS
<1>1. chain = <<>> /\ node = None /\ lastIf = CdcInterfaces
  BY DEF PlugInit
<1>2. Len(chain) = 0 /\ NumberedCount = 0
  BY <1>1 DEF NumberedCount
<1> QED BY <1>1, <1>2 DEF OrderInv, InOrder, After

LEMMA OrderLink ==
  ASSUME PlugInv, OrderInv, NEW m \in Module_, PlugLink(m)
  PROVE  OrderInv'
<1>1. /\ node = None /\ m \notin ToSet(chain) /\ chain' = Append(chain, m) /\ node' = m /\ i' = 0
      /\ pluggedInterface' = pluggedInterface /\ lastIf' = lastIf /\ chain \in Seq(Module_)
  BY DEF PlugLink, PlugInv, PlugTypeOK
<1>2. PICK n \in Nat : n = Len(chain) /\ NumberedCount = n
  BY <1>1 DEF NumberedCount
<1>3. /\ Len(chain') = n + 1 /\ chain'[n + 1] = m
      /\ \A k \in 1..n : chain'[k] = chain[k] /\ chain[k] # m
  <2>1. Len(chain') = n + 1 /\ chain'[n + 1] = m /\ \A k \in 1..n : chain'[k] = chain[k]
    BY <1>1, <1>2
  <2>2. DOMAIN chain = 1..n
    BY <1>1, <1>2
  <2>3. \A k \in 1..n : chain[k] # m
    BY <1>1, <2>2 DEF ToSet
  <2> QED BY <2>1, <2>3
<1>4. NumberedCount' = n
  <2>1. m # None
    BY PlugConstants
  <2> QED BY <1>1, <1>2, <1>3, <2>1 DEF NumberedCount
<1>5. ASSUME NEW k \in 0..n PROVE After(k)' = After(k)
  <2>1. CASE k = 0
    BY <2>1 DEF After
  <2>2. CASE k # 0
    BY <1>1, <1>3, <2>2 DEF After
  <2> QED BY <2>1, <2>2
<1>6. InOrder(n)'
  <2>1. ASSUME NEW k \in 1..n PROVE pluggedInterface'[chain'[k]] = After(k - 1)'
    <3>1. k - 1 \in 0..n /\ chain'[k] = chain[k]
      BY <1>3
    <3>2. pluggedInterface[chain[k]] = After(k - 1)
      BY <1>2 DEF OrderInv, InOrder
    <3> QED BY <1>1, <1>5, <3>1, <3>2
  <2> QED BY <2>1 DEF InOrder
<1>7. lastIf' = After(n)'
  BY <1>1, <1>2, <1>5 DEF OrderInv
<1>8. ASSUME NEW j \in 1..(n + 1), NEW k \in 1..(n + 1), chain'[j] = chain'[k]
      PROVE  j = k
  <2>1. j \in 1..n \/ j = n + 1
    OBVIOUS
  <2>2. k \in 1..n \/ k = n + 1
    OBVIOUS
  <2>3. \A p, q \in 1..n : chain[p] = chain[q] => p = q
    BY <1>2 DEF OrderInv
  <2> QED BY <1>3, <1>8, <2>1, <2>2, <2>3
<1>9. node' # None => Len(chain') > 0 /\ chain'[Len(chain')] = node'
  BY <1>1, <1>2, <1>3
<1> QED BY <1>3, <1>4, <1>6, <1>7, <1>8, <1>9 DEF OrderInv

LEMMA OrderNumber ==
  ASSUME PlugInv, OrderInv, PlugNumber
  PROVE  OrderInv'
<1>1. /\ node # None /\ i = 0 /\ chain' = chain /\ node' = node /\ i' = 1
      /\ pluggedInterface' = [pluggedInterface EXCEPT ![node] = lastIf]
      /\ lastIf' = lastIf + NumInterfaces[node] /\ chain \in Seq(Module_)
      /\ pluggedInterface \in [Module_ -> Nat] /\ node \in Module_
  BY DEF PlugNumber, PlugInv, PlugTypeOK
<1>2. PICK n \in Nat : n = Len(chain) /\ n > 0 /\ chain[n] = node
  BY <1>1 DEF OrderInv
<1>3. NumberedCount = n - 1 /\ NumberedCount' = n
  BY <1>1, <1>2 DEF NumberedCount
<1>4. ASSUME NEW k \in 1..(n - 1)
      PROVE  pluggedInterface'[chain[k]] = pluggedInterface[chain[k]] /\ chain[k] \in Module_
  <2>1. k \in 1..n /\ n \in 1..n /\ k # n
    BY <1>2
  <2>2. chain[k] # node
    BY <1>2, <2>1 DEF OrderInv
  <2> QED BY <1>1, <1>2, <2>1, <2>2
<1>5. ASSUME NEW k \in 0..(n - 1) PROVE After(k)' = After(k)
  <2>1. CASE k = 0
    BY <2>1 DEF After
  <2>2. CASE k # 0
    <3>1. pluggedInterface'[chain[k]] = pluggedInterface[chain[k]]
      BY <1>4, <2>2
    <3> QED BY <1>1, <2>2, <3>1 DEF After
  <2> QED BY <2>1, <2>2
<1>6. lastIf = After(n - 1) /\ pluggedInterface'[node] = lastIf
  BY <1>1, <1>3 DEF OrderInv
<1>7. lastIf' = After(n)'
  BY <1>1, <1>2, <1>6 DEF After
<1>8. InOrder(n)'
  <2>1. ASSUME NEW k \in 1..n PROVE pluggedInterface'[chain'[k]] = After(k - 1)'
    <3>1. k - 1 \in 0..(n - 1)
      OBVIOUS
    <3>2. CASE k = n
      BY <1>1, <1>2, <1>5, <1>6, <3>1, <3>2
    <3>3. CASE k # n
      <4>1. k \in 1..(n - 1)
        BY <3>3
      <4>2. pluggedInterface[chain[k]] = After(k - 1)
        BY <1>3, <4>1 DEF OrderInv, InOrder
      <4> QED BY <1>1, <1>4, <1>5, <3>1, <4>1, <4>2
    <3> QED BY <3>2, <3>3
  <2> QED BY <2>1 DEF InOrder
<1> QED BY <1>1, <1>2, <1>3, <1>7, <1>8 DEF OrderInv

LEMMA OrderStep ==
  ASSUME PlugInv, OrderInv, PlugStep \/ UNCHANGED plugvars
  PROVE  OrderInv'
<1>1. CASE \E m \in Module_ : PlugLink(m)
  BY <1>1, OrderLink
<1>2. CASE PlugNumber
  BY <1>2, OrderNumber
<1>3. CASE PlugEndpoint \/ UNCHANGED plugvars
  <2>1. UNCHANGED <<chain, pluggedInterface, lastIf>>
    BY <1>3 DEF PlugEndpoint, plugvars
  <2>2. NumberedCount' = NumberedCount /\ (node' # None => node' = node)
    <3>1. CASE PlugEndpoint
      <4>1. i \in Nat /\ i > 0
        BY <3>1 DEF PlugEndpoint, PlugInv, PlugTypeOK
      <4> QED BY <2>1, <3>1, <4>1 DEF PlugEndpoint, NumberedCount
    <3>2. CASE UNCHANGED plugvars
      BY <3>2 DEF plugvars, NumberedCount
    <3> QED BY <1>3, <3>1, <3>2
  <2> QED BY <2>1, <2>2 DEF OrderInv, InOrder, After
<1> QED BY <1>1, <1>2, <1>3 DEF PlugStep

LEMMA ChainFits ==
  ASSUME PlugInv, OrderInv, NEW n \in Nat, n = Len(chain)
  PROVE  WholeLen(n) \in Nat /\ WholeLen(n) <= Most /\ WholeLen(n) > 0
<1>1. n <= Cardinality(Module_) /\ Cardinality(Module_) \in Nat
  <2>1. chain \in [1..n -> Module_]
    BY DEF PlugInv, PlugTypeOK
  <2>2. PICK f : f = chain
    OBVIOUS
  <2>3. f \in Injection(1..n, Module_)
    BY <2>1, <2>2 DEF OrderInv, Injection, IsInjective
  <2>4. IsFiniteSet(Module_)
    BY UsbDeviceAssumption
  <2>5. Cardinality(1..n) <= Cardinality(Module_)
    BY <2>3, <2>4, FS_Injection
  <2>6. Cardinality(1..n) = n
    <3>1. PICK q : q = Cardinality(1..n)
      OBVIOUS
    <3>2. 1 \in Int /\ n \in Int
      OBVIOUS
    <3>3. q = IF 1 > n THEN 0 ELSE n - 1 + 1
      BY <3>1, <3>2, FS_Interval
    <3>4. q = n
      BY <3>3
    <3> QED BY <3>1, <3>4
  <2>7. Cardinality(Module_) \in Nat
    BY <2>4, FS_CardinalityType
  <2> QED BY <2>5, <2>6, <2>7
<1>2. PICK q \in Nat : q = Cardinality(Module_)
  BY <1>1
<1>3. PICK h, c, l, most \in Nat : h = HeaderLen /\ c = CdcLen /\ l = ModuleLen /\ most = Most
                                  /\ h > 0 /\ h + c + l * q <= most
  BY <1>2, UsbDeviceAssumption
<1>4. n * l <= l * q /\ n * l \in Nat
  <2>1. PICK r \in Nat : q = n + r
    <3>1. q - n \in Nat /\ q = n + (q - n)
      BY <1>1, <1>2
    <3> QED BY <3>1
  <2>2. l * q = n * l + l * r /\ l * r \in Nat /\ n * l \in Nat
    BY <1>3, <2>1
  <2> QED BY <2>2
<1> QED BY <1>3, <1>4 DEF WholeLen

LEMMA ShortestIs ==
  ASSUME NEW a \in Nat, NEW b \in Nat, NEW l \in Nat
  PROVE  Min({a, b, l}) = Shortest(a, b, l)
<1>1. PICK s : s = Shortest(a, b, l)
  OBVIOUS
<1>2. s \in {a, b, l} /\ \A y \in {a, b, l} : s <= y
  BY <1>1 DEF Shortest
<1>3. \A x \in {a, b, l} : (\A y \in {a, b, l} : x <= y) => x = s
  BY <1>2
<1> QED BY <1>1, <1>2, <1>3 DEF Min

(* The beginning of a text is the beginning of a longer one. *)
LEMMA BeginningOf ==
  ASSUME NEW s, NEW t, NEW text, NEW k \in Nat, NEW l \in Nat, k <= l,
         Begins(s, text, k), Begins(t, text, l)
  PROVE  s = SubSeq(t, 1, k)
<1>1. /\ s \in Seq(Piece) /\ Len(s) = k /\ \A j \in 1..k : s[j] = text[j]
      /\ t \in Seq(Piece) /\ Len(t) = l /\ \A j \in 1..l : t[j] = text[j]
  BY DEF Begins
<1>2. PICK u : u = SubSeq(t, 1, k)
  OBVIOUS
<1>3. u \in Seq(Piece) /\ Len(u) = k /\ \A j \in 1..k : u[j] = t[j]
  <2>1. 1 \in 1..(Len(t) + 1) /\ k \in (1 - 1)..Len(t)
    BY <1>1
  <2>2. \A j \in 1..k : t[j] \in Piece
    BY <1>1
  <2>3. u = [j \in 1..k |-> t[j]]
    BY <1>1, <1>2, SubSeqProperties
  <2>4. u \in [1..k -> Piece]
    BY <2>2, <2>3
  <2> QED BY <2>3, <2>4
<1>4. \A j \in 1..k : s[j] = u[j]
  BY <1>1, <1>3
<1> QED BY <1>1, <1>2, <1>3, <1>4, SeqEqual

LEMMA ConfigHolds ==
  ASSUME PlugInv, OrderInv
  PROVE  ConfigTrue
<1> SUFFICES ASSUME node = None PROVE ConfigTrue
  BY DEF ConfigTrue
<1>1. PICK n \in Nat : n = Len(chain) /\ NumberedCount = n
  BY DEF PlugInv, PlugTypeOK, NumberedCount
<1>2. PlugTypeOK /\ InOrder(n) /\ After(n) = lastIf /\ After(n) \in Nat
  BY <1>1 DEF PlugInv, PlugTypeOK, OrderInv
<1>3. PICK w \in Nat : w = WholeLen(n) /\ w <= Most /\ w > 0
  BY <1>1, ChainFits
<1>4. PICK text : Describes(text, HeaderOf(n), n)
  BY TextIs
<1>5. ASSUME NEW end \in Nat, NEW packets \in Nat, NEW room \in Nat, room = packets * PacketSize
      PROVE  Begins(SendConfiguration(end, packets), text, Shortest(end, room, w))
  BY <1>1, <1>2, <1>3, <1>4, <1>5, ConfigurationSent
<1>6. PICK whole : whole = SendConfiguration(Most, Most)
  OBVIOUS
<1>7. Begins(whole, text, w)
  <2>1. PICK most \in Nat : most = Most /\ w <= most
    BY <1>3, UsbDeviceAssumption
  <2>2. PICK p \in Nat : p = PacketSize /\ p >= 1
    BY UsbDeviceAssumption
  <2>3. PICK room \in Nat : room = most * p /\ room >= most
    <3>1. PICK r \in Nat : p = 1 + r
      <4>1. p - 1 \in Nat /\ p = 1 + (p - 1)
        BY <2>2
      <4> QED BY <4>1
    <3>2. most * p = most + most * r /\ most * r \in Nat
      BY <3>1
    <3> QED BY <3>2
  <2>4. Begins(whole, text, Shortest(most, room, w))
    BY <1>5, <1>6, <2>1, <2>2, <2>3
  <2>5. Shortest(most, room, w) = w
    BY <2>1, <2>3 DEF Shortest
  <2> QED BY <2>4, <2>5
<1>8. /\ Len(whole) = w /\ whole[1] = HeaderOf(n)
      /\ whole[1].number = Len(whole) /\ whole[1].endpoint = lastIf
  <2>1. Len(whole) = w /\ whole[1] = text[1]
    BY <1>3, <1>7 DEF Begins
  <2>2. text[1] = HeaderOf(n)
    <3>1. HeaderLen \in Nat /\ HeaderLen > 0
      BY UsbDeviceAssumption
    <3> QED BY <1>4, <3>1 DEF Describes
  <2> QED BY <1>2, <1>3, <2>1, <2>2 DEF HeaderOf
<1>9. ASSUME NEW wLength \in Lengths, NEW packets \in 0..3
      PROVE  SendConfiguration(wLength, packets)
               = SubSeq(whole, 1, Min({wLength, packets * PacketSize, Len(whole)}))
  <2>1. wLength \in Nat /\ packets \in Nat /\ PacketSize \in Nat
    BY UsbDeviceAssumption
  <2>2. PICK room \in Nat : room = packets * PacketSize
    BY <2>1
  <2>3. PICK k : k = Shortest(wLength, room, w)
    OBVIOUS
  <2>4. k \in Nat /\ k <= w
    BY <2>1, <2>3 DEF Shortest
  <2>5. Begins(SendConfiguration(wLength, packets), text, k)
    BY <1>5, <2>1, <2>2, <2>3
  <2>6. SendConfiguration(wLength, packets) = SubSeq(whole, 1, k)
    BY <1>7, <2>4, <2>5, BeginningOf
  <2>7. Min({wLength, room, w}) = k
    BY <2>1, <2>3, ShortestIs
  <2> QED BY <1>8, <2>2, <2>6, <2>7
<1> QED BY <1>6, <1>8, <1>9 DEF ConfigTrue

(* However much the host asks for and takes, it gets a beginning of one    *)
(* configuration with its own length and the interfaces in use in its      *)
(* header, although that is measured in one pass and sent in another; and  *)
(* the end points it was told of are those set up (USBCore.cpp:            *)
(* SendConfiguration, SendControl, InitEndpoints).                         *)
THEOREM DeclaredIsTrue == Spec => DeclaredTrue
<1>1. Init => PlugInv /\ OrderInv
  BY PlugInitially, OrderInitially DEF Init
<1>2. PlugInv /\ OrderInv /\ [Next]_vars => PlugInv' /\ OrderInv'
  <2> SUFFICES ASSUME PlugInv, OrderInv, [Next]_vars
               PROVE  PlugInv' /\ OrderInv'
    OBVIOUS
  <2>1. PlugStep \/ UNCHANGED plugvars
    BY StepOfParts DEF vars
  <2> QED BY <2>1, PlugInvStep, OrderStep
<1>3. PlugInv /\ OrderInv => ConfigTrue
  BY ConfigHolds
<1>4. ConfigTrue /\ [DeclaredSetUp]_vars
        => [/\ <<declared, endpoints>>' # <<declared, endpoints>> => ConfigTrue
            /\ DeclaredSetUp]_vars
  OBVIOUS
<1> QED BY <1>1, <1>2, <1>3, <1>4, DeclaredAreSetUp, PTL DEF Spec, DeclaredTrue
=============================================================================
