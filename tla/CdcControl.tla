------------------------------ MODULE CdcControl ------------------------------
(***************************************************************************)
(* CDC_Setup of CDC.cpp: line coding, break, and the request to reset into *)
(* the bootloader.  The host asks for it by closing a port open at 1200    *)
(* baud: the handler leaves a key for the bootloader in RAM and starts the *)
(* watchdog; when the port opens again in time both are to be undone.  An  *)
(* old bootloader wants the key in a word that belongs to the sketch.      *)
(* Handlers run with interrupts off, so each request is one step.  When    *)
(* the watchdog bites the board starts again: another behaviour.           *)
(***************************************************************************)
EXTENDS Naturals

CONSTANTS Value,    \* what the sketch stores in its word, never the key
          Key       \* MAGIC_KEY

ASSUME CdcAssumption == Key \notin Value /\ 0 \in Value

VARIABLES
  lufa,         \* isLUFAbootloader(): the bootloader is a new one
  dwDTERate,    \* is the rate 1200?
  lineState,    \* bit 0, DTR
  ram,          \* the words at MAGIC_KEY_POS and at RAMEND - 1
  wdt,          \* WDTCSR: "off", "sketch" (its own setting) or "reset" (120 ms)
  wdtcsr_save,
  breakValue,   \* a break was received
  asked,        \* ghost: a reset was asked for and not taken back
  mine, own     \* ghost: the sketch's word and watchdog setting

cdcvars == <<lufa, dwDTERate, lineState, ram, wdt, wdtcsr_save, breakValue, asked, mine, own>>

Pos == IF lufa THEN "ramend" ELSE "magic"

(* The sketch has set its watchdog in setup() or never. *)
CdcInit ==
  /\ lufa \in BOOLEAN
  /\ dwDTERate = FALSE /\ lineState = 0 /\ breakValue = FALSE
  /\ ram = [magic |-> 0, ramend |-> 0]
  /\ own \in {"off", "sketch"} /\ wdt = own /\ wdtcsr_save = "off"
  /\ asked = FALSE /\ mine = 0

(* CDC_SET_LINE_CODING *)
SetLineCoding ==
  /\ dwDTERate' \in BOOLEAN
  /\ UNCHANGED <<lufa, lineState, ram, wdt, wdtcsr_save, breakValue, asked, mine, own>>

(* CDC_SEND_BREAK, and readBreak() of the sketch, which takes it at once. *)
SendBreak ==
  /\ breakValue' = TRUE
  /\ UNCHANGED <<lufa, dwDTERate, lineState, ram, wdt, wdtcsr_save, asked, mine, own>>
ReadBreak ==
  /\ breakValue /\ breakValue' = FALSE
  /\ UNCHANGED <<lufa, dwDTERate, lineState, ram, wdt, wdtcsr_save, asked, mine, own>>

(* What lies under the key is saved for an old bootloader, unless it is    *)
(* the key of an earlier request.                                          *)
BackedUpAlways ==
  IF lufa THEN ram ELSE [ram EXCEPT !.ramend = ram.magic]
BackedUp ==
  IF lufa \/ ram.magic = Key THEN ram ELSE [ram EXCEPT !.ramend = ram.magic]

StartReset ==
  /\ ram' = [BackedUp EXCEPT ![Pos] = Key]
  /\ wdtcsr_save' = wdt
  /\ wdt' = "reset"
  /\ asked' = TRUE

CancelReset ==
  /\ wdt' = wdtcsr_save
  /\ ram' = [ram EXCEPT ![Pos] = IF lufa THEN 0 ELSE ram.ramend]
  /\ asked' = FALSE
  /\ UNCHANGED wdtcsr_save

(* CDC_SET_CONTROL_LINE_STATE *)
SetControlLineState ==
  /\ lineState' \in 0..1
  /\ IF dwDTERate /\ lineState' % 2 = 0 THEN StartReset
     ELSE IF ram[Pos] = Key THEN CancelReset
     ELSE UNCHANGED <<ram, wdt, wdtcsr_save, asked>>
  /\ UNCHANGED <<lufa, dwDTERate, breakValue, mine, own>>

(* The sketch stores into its word; over the key if that lies there. *)
SketchStores ==
  /\ \E v \in Value : mine' = v /\ ram' = [ram EXCEPT !.magic = v]
  /\ UNCHANGED <<lufa, dwDTERate, lineState, wdt, wdtcsr_save, breakValue, asked, own>>

CdcRequest == SetLineCoding \/ SendBreak \/ SetControlLineState
CdcSketch == ReadBreak \/ SketchStores

CdcSpec == CdcInit /\ [][CdcRequest \/ CdcSketch]_cdcvars

-----------------------------------------------------------------------------
(* The sketch's word is never lost: it is in place, or under the key and   *)
(* saved, however often the port is closed and opened.                     *)
SketchRamKept ==
  IF ram.magic = Key THEN ram.ramend = mine ELSE ram.magic = mine

(* A reset taken back leaves the sketch's watchdog as it was.  CDC.cpp:    *)
(* "Save the watchdog state in case the reset is aborted", "To avoid       *)
(* spurious resets ... eventually cancel if DTR goes back high".           *)
WatchdogRestored == ~asked => wdt = own
=============================================================================
