------------------------- MODULE KeyboardOverSerial -------------------------
(***************************************************************************)
(* The sketch (src/Keyboard_Over_Serial.cpp): characters received by the   *)
(* software serial port become 8-byte keyboard reports on the hardware     *)
(* serial port.  The two ports are what their drivers promise: RxQueue and *)
(* TxChannel.  At the far end the USB interface chip cuts the bytes into   *)
(* reports and the target types a key whenever one goes down.              *)
(***************************************************************************)
EXTENDS UsbKeyboardMapping, SequencesExt

CONSTANTS Char,      \* the characters that may arrive
          RxCap,     \* what the uart object stores: _SS_MAX_RX_BUFF - 1
          TxCap,     \* what Serial has under way at most
          MaxChars   \* bound: how many characters arrive

ASSUME KeyboardOverSerialAssumption ==
  /\ Char \subseteq 0..255
  /\ RxCap \in Nat \ {0} /\ TxCap \in Nat \ {0} /\ MaxChars \in Nat

VARIABLES
  stored, lastRead,   \* uart: characters stored, the one read last
  point,              \* where main() is: "loop", "press" or "clear"
  keyboard_buffer,
  written,            \* how many bytes of the report Serial.write() has passed on
  pending, sent,      \* Serial: bytes under way, the one sent last
  frame,              \* USB chip: bytes of the report being assembled
  down, mods,         \* target: key code of the last report, 0 for none, and
                      \* its modifier byte: the keys and modifiers held down
  arrived,            \* ghost: how many characters arrived
  expected,           \* ghost: what the characters uart stored should type
  typed               \* ghost: what the target typed: <<modifiers, key code>>

uart == <<stored, lastRead>>
serial == <<pending, sent>>
sketch == <<point, keyboard_buffer, written>>
target == <<frame, down, mods, typed>>
sketchvars == <<uart, serial, sketch, target, arrived, expected>>

Uart == INSTANCE RxQueue WITH
          queue <- stored, got <- lastRead, Byte <- Char, NoByte <- 256, Cap <- RxCap
Serial == INSTANCE TxChannel WITH Byte <- 0..255, NoByte <- 256, Cap <- TxCap

ReportSize == 8
Zeroes == [i \in 1..ReportSize |-> 0]
clear_command == [Zeroes EXCEPT ![1] = Shift]

RowsIgnoreCase(c) ==
  {r \in keyboard_map : r[1] = IF c \in 65..90 THEN c + 32 ELSE c}
Rows(c) == {r \in keyboard_map : r[1] = c}
(* The loop over keyboard_map takes the first row; no character has two. *)
Row(c) == CHOOSE r \in Rows(c) : TRUE

SketchInit ==
  /\ Uart!QInit /\ Serial!TInit
  /\ point = "loop" /\ keyboard_buffer = Zeroes /\ written = 0
  /\ frame = <<>> /\ down = 0 /\ mods = 0 /\ typed = <<>>
  /\ arrived = 0 /\ expected = <<>>

-----------------------------------------------------------------------------
(* main().  blinkLED() takes time, which any step here may take anyway.    *)

(* translateInput() on a zeroed buffer. *)
translateInput(c) ==
  IF Rows(c) = {} THEN Zeroes
  ELSE [Zeroes EXCEPT ![1] = Row(c)[2], ![3] = Row(c)[3]]

(* memset, available(), read() and translateInput(). *)
ReadAndTranslate ==
  /\ point = "loop"
  /\ Uart!Get
  /\ keyboard_buffer' = translateInput(lastRead')
  /\ point' = IF Rows(lastRead') = {} THEN "loop" ELSE "press"
  /\ UNCHANGED <<written, serial, target, arrived, expected>>

(* Serial.write(report, 8), of Print: one byte at a time, each waiting for
   room. *)
WriteReportShort(report, next) ==
  /\ Serial!Accept(report[written + 1])
  /\ IF written = ReportSize - 2
     THEN written' = 0 /\ point' = next
     ELSE written' = written + 1 /\ UNCHANGED point
  /\ UNCHANGED <<uart, keyboard_buffer, target, arrived, expected>>
WriteReport(report, next) ==
  /\ Serial!Accept(report[written + 1])
  /\ IF written = ReportSize - 1
     THEN written' = 0 /\ point' = next
     ELSE written' = written + 1 /\ UNCHANGED point
  /\ UNCHANGED <<uart, keyboard_buffer, target, arrived, expected>>

WritePressOnly == point = "press" /\ WriteReport(keyboard_buffer, "loop")
WritePress == point = "press" /\ WriteReport(keyboard_buffer, "clear")
WriteClear == point = "clear" /\ WriteReport(clear_command, "loop")

-----------------------------------------------------------------------------
(* Around the sketch (external). *)

(* A character arrives; a full ring drops it.  A stored one should type the
   key its row stands for, if it has one. *)
HasKey(c) == Rows(c) # {} /\ Row(c)[3] # 0
Expect(c) ==
  IF HasKey(c) THEN Append(expected, <<Row(c)[2], Row(c)[3]>>) ELSE expected
Arrive(c) ==
  /\ arrived < MaxChars
  /\ arrived' = arrived + 1
  /\ \/ Uart!Put(c) /\ expected' = Expect(c)
     \/ Len(stored) = RxCap /\ UNCHANGED <<uart, expected>>
  /\ UNCHANGED <<serial, sketch, target>>

(* A byte leaves Serial for the USB chip.  The eighth completes a report: the
   target holds down what it says, and a key code that was not down in the
   report before is typed, with the report's modifiers. *)
SendByte ==
  /\ Serial!Emit
  /\ LET report == Append(frame, Head(pending))
     IN  IF Len(report) < ReportSize
         THEN frame' = report /\ UNCHANGED <<down, mods, typed>>
         ELSE /\ frame' = <<>>
              /\ down' = report[3] /\ mods' = report[1]
              /\ typed' = IF report[3] \in {0, down} THEN typed
                          ELSE Append(typed, <<report[1], report[3]>>)
  /\ UNCHANGED <<uart, sketch, arrived, expected>>

-----------------------------------------------------------------------------
Main == ReadAndTranslate \/ WritePress \/ WriteClear
SketchNext == Main \/ SendByte \/ \E c \in Char : Arrive(c)

SketchSpec == SketchInit /\ [][SketchNext]_sketchvars
FairSketchSpec == SketchSpec /\ WF_sketchvars(Main) /\ WF_sketchvars(SendByte)

-----------------------------------------------------------------------------
(* Properties                                                              *)

(* Every variable keeps its type: reports are eight bytes long and the two
   ports hold no more than they can. *)
SketchTypes ==
  /\ stored \in Seq(Char) /\ Len(stored) <= RxCap /\ lastRead \in Char \cup {256}
  /\ point \in {"loop", "press", "clear"}
  /\ keyboard_buffer \in [1..ReportSize -> 0..255]
  /\ written \in 0..(ReportSize - 1)
  /\ pending \in Seq(0..255) /\ Len(pending) <= TxCap /\ sent \in 0..256
  /\ frame \in Seq(0..255) /\ Len(frame) < ReportSize
  /\ down \in 0..255 /\ mods \in 0..255 /\ typed \in Seq((0..255) \X (1..255))
  /\ arrived \in 0..MaxChars
  /\ expected \in Seq((0..255) \X (1..255))

(* The target types the characters that uart stored, in order, with their
   modifiers, nothing else and nothing twice (main 18-29), even when the same
   key follows itself. *)
TypedInOrder == IsPrefix(typed, expected)

(* A report is complete when its eighth byte has come. *)
Reported == frame # <<>> /\ frame' = <<>>
(* No key is down, and of the modifiers at most Left Shift. *)
AtMostShift == down = 0 /\ mods \in {0, Shift}

(* And each key goes up before the next one goes down, also when it is the
   same one: the report behind a key's is a release (main 25-26), with no key
   code and no modifier but Left Shift, and report boundaries never slip.
   Left Shift it does hold: the first byte of clear_command is 0x02
   (UsbKeyboardMapping.h 9). *)
TypedRight ==
  [][/\ TypedInOrder /\ SketchTypes
     /\ down # 0 /\ Reported => AtMostShift']_sketchvars

(* What was stored is typed in the end, no key stays down and no Control:
   every press is followed by its release, although both writes may wait for
   room in the transmit ring. *)
AllTyped == <>[](typed = expected /\ AtMostShift /\ frame = <<>>)

(* That Left Shift goes up too does not hold: once a character was relayed
   the target has it down until the next key, and for good after the last. *)
NothingHeld == <>[](down = 0 /\ mods = 0)

(* Whichever printable character comes first, it is relayed, as a key that no
   other character of the table stands for (UsbKeyboardMapping.h 12-36, "The
   rest are obvious"). *)
PrintableRelayed ==
  arrived = 0 =>
    \A c \in 32..126 :
      LET report == translateInput(c)
      IN  /\ report[3] # 0
          /\ \A r \in keyboard_map :
               r[2] = report[1] /\ r[3] = report[3] => r[1] = c
=============================================================================
