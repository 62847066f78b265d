------------------------------- MODULE Stream -------------------------------
(***************************************************************************)
(* The parsing methods every port inherits (core/Stream.cpp): reads that   *)
(* wait for a character, at most _timeout milliseconds, and what is built  *)
(* from them.  The port is the queue that RxQueue promises; the clock is   *)
(* millis(), which wraps.                                                  *)
(***************************************************************************)
EXTENDS StreamSearch, PrintText, SequencesExt

CONSTANTS
  Char,       \* the characters that arrive; the digits are the numbers among them
  Space,      \* the characters SKIP_WHITESPACE skips
  High,       \* the characters from 0x80 on
  None,       \* -1: no character, no target found, no terminator
  ULong,      \* values of an unsigned long
  Timeout,    \* _timeout
  MaxLag,     \* milliseconds handlers may hold up the main thread in one step
  MaxChars,   \* bound: characters that arrive
  Calls       \* the calls made, records as the operators below build them

(* The methods, as timed reads with something done to each character. *)
ReadCall(limit, stop) == [kind |-> "read", limit |-> limit, stop |-> stop]
FindCall(targets) == [kind |-> "find", targets |-> targets]
ParseCall(lookahead, ignore, decimal) ==
  [kind |-> "parse", lookahead |-> lookahead, ignore |-> ignore, decimal |-> decimal]

ASSUME StreamAssumption ==
  /\ {ULong, MaxLag} \subseteq Nat \ {0}
  /\ Timeout \in Nat /\ MaxChars \in Nat
  /\ Timeout + 2 * MaxLag < ULong
  /\ None \notin Char /\ None \notin Calls
  /\ \A x \in {None, Minus, Dot} : x \notin Nat
  /\ \A x \in (Char \cap Nat) \cup {Minus} : x \notin High
  /\ \A cl \in Calls : cl.kind = "find" => cl.targets \in Seq(Seq(Char))

VARIABLES
  inbox,    \* what the port holds, to be read
  arrivals, \* characters that arrived so far
  millis,   \* millis()
  call,     \* the call in progress
  pc,       \* its next step
  startMillis, \* _startMillis
  c,        \* the character read or peeked
  buffer,   \* characters placed in the caller's buffer or String; when a
            \* number is parsed, a ghost: its characters so far
  index,    \* t->index of each target
  value, isNegative, isFraction, places, \* the locals of parseInt, parseFloat
  result,   \* what the last call returned; targets are numbered from 1
  lag,      \* milliseconds since the main thread last moved
  waited,   \* ghost: milliseconds since the timed read began, up to Timeout
  taken     \* ghost: the characters the call took from the port

number == <<value, isNegative, isFraction, places>>
port == <<inbox, arrivals>>
time == <<millis, lag, waited>>
vars == <<port, time, call, pc, startMillis, c, buffer, index, number, result, taken>>

Digit == Char \cap Nat
Peeks == call.kind = "parse"

----------------------------------------------------------------------------
Init ==
  /\ inbox = <<>> /\ arrivals = 0
  /\ millis = 0 /\ lag = 0 /\ waited = 0 /\ startMillis = 0
  /\ call = None /\ pc = "idle" /\ c = None
  /\ buffer = <<>> /\ index = <<>> /\ taken = <<>>
  /\ value = 0 /\ isNegative = FALSE /\ isFraction = FALSE /\ places = 0
  /\ result = None

Arrive(ch) ==
  /\ arrivals < MaxChars
  /\ inbox' = Append(inbox, ch) /\ arrivals' = arrivals + 1
  /\ UNCHANGED <<time, call, pc, startMillis, c, buffer, index, number, result, taken>>

(* A millisecond passes; no handler holds up a step for more than MaxLag. *)
Tick ==
  /\ pc # "idle" => lag < MaxLag
  /\ millis' = (millis + 1) % ULong
  /\ lag' = IF pc = "idle" THEN 0 ELSE lag + 1
  /\ waited' = IF waited < Timeout THEN waited + 1 ELSE waited
  /\ UNCHANGED <<port, call, pc, startMillis, c, buffer, index, number, result, taken>>

(* A step of the call that leads to the program point next. *)
Goto(next) == pc' = next /\ lag' = 0 /\ UNCHANGED <<arrivals, millis>>

Return(r) ==
  /\ Goto("idle")
  /\ result' = r
  /\ UNCHANGED <<startMillis, waited>>

(* Nothing to wait for: no room in the buffer, or an empty target. *)
EmptyTargets(cl) == {i \in DOMAIN cl.targets : Len(cl.targets[i]) = 0}

Begin(cl) ==
  /\ pc = "idle"
  /\ call' = cl
  /\ taken' = <<>> /\ buffer' = <<>> /\ c' = None
  /\ index' = IF cl.kind = "find" THEN [i \in DOMAIN cl.targets |-> 0] ELSE <<>>
  /\ value' = 0 /\ isNegative' = FALSE /\ isFraction' = FALSE /\ places' = 0
  /\ UNCHANGED inbox
  /\ \/ cl.kind = "read" /\ cl.limit = 0 /\ Return(0)
     \/ cl.kind = "find" /\ EmptyTargets(cl) # {} /\ Return(Min(EmptyTargets(cl)))
     \/ /\ cl.kind = "read" => cl.limit # 0
        /\ cl.kind = "find" => EmptyTargets(cl) = {}
        /\ Goto("start")
        /\ result' = None
        /\ UNCHANGED <<startMillis, waited>>

(* timedRead(), timedPeek() *)
TimedStart ==
  /\ pc = "start"
  /\ startMillis' = millis
  /\ waited' = 0
  /\ Goto("poll")
  /\ UNCHANGED <<inbox, call, c, buffer, index, number, result, taken>>

TimedPoll ==
  /\ pc = "poll"
  /\ IF inbox = <<>>
     THEN Goto("check") /\ UNCHANGED <<inbox, c, taken>>
     ELSE /\ c' = Head(inbox)
          /\ IF Peeks THEN UNCHANGED <<inbox, taken>>
             ELSE inbox' = Tail(inbox) /\ taken' = Append(taken, Head(inbox))
          /\ Goto("got")
  /\ UNCHANGED <<call, startMillis, waited, buffer, index, number, result>>

(* millis() - _startMillis < _timeout, in unsigned arithmetic *)
WaitsCompare == millis < (startMillis + Timeout) % ULong
WaitsNoWrap == startMillis + Timeout > millis
Waits == (millis + ULong - startMillis) % ULong < Timeout

TimedCheck ==
  /\ pc = "check"
  /\ IF Waits THEN Goto("poll") /\ UNCHANGED c
     ELSE Goto("got") /\ c' = None
  /\ UNCHANGED <<inbox, call, startMillis, waited, buffer, index, number, result, taken>>

----------------------------------------------------------------------------
(* readBytes, readBytesUntil, readString, readStringUntil: the result is   *)
(* the number of characters placed.                                        *)
StopsOnlyOnTimeout == c = None
Stops == c = None \/ (call.stop # None /\ SameChar(High, c, call.stop))

ReadGot ==
  /\ pc = "got" /\ call.kind = "read"
  /\ \/ Stops /\ Return(Len(buffer)) /\ UNCHANGED buffer
     \/ /\ ~Stops
        /\ buffer' = Append(buffer, c)
        /\ IF Len(buffer) + 1 = call.limit
           THEN Return(Len(buffer) + 1)
           ELSE Goto("start") /\ UNCHANGED <<startMillis, waited, result>>
  /\ UNCHANGED <<inbox, call, c, index, number, taken>>

(* findMulti: the targets move in their order, the first complete one ends *)
(* the call.                                                               *)
FindGot ==
  /\ pc = "got" /\ call.kind = "find"
  /\ \/ c = None /\ Return(None) /\ UNCHANGED index
     \/ /\ c # None
        /\ LET next == [i \in DOMAIN index |-> NextIndex(High, call.targets[i], index[i], c)]
               complete == {i \in DOMAIN next : next[i] = Len(call.targets[i])}
           IN IF complete # {}
              THEN Return(Min(complete)) /\ UNCHANGED index
              ELSE /\ index' = next
                   /\ Goto("start")
                   /\ UNCHANGED <<startMillis, waited, result>>
  /\ UNCHANGED <<inbox, call, c, buffer, number, taken>>

(* parseInt, parseFloat.  The loop body: the character is accounted for,    *)
(* then taken from the port.  A long that overflows has any value.          *)
StartsNumber == c \in Digit \cup {Minus} \/ (call.decimal /\ c = Dot)
IsIgnored == SameChar(High, c, call.ignore)

Consume ==
  /\ inbox' = Tail(inbox) /\ taken' = Append(taken, Head(inbox))
  /\ Goto("start")
  /\ UNCHANGED <<startMillis, waited, result>>

AddDigit(v, d) ==
  LET sum == v * Base + d IN IF sum <= LongMax THEN {sum} ELSE 0..LongMax

AccountNoIgnore ==
  /\ isNegative' = (isNegative \/ c = Minus)
  /\ isFraction' = (isFraction \/ c = Dot)
  /\ IF c \in Digit
     THEN value' \in AddDigit(value, c) /\ places' = IF isFraction THEN places + 1 ELSE places
     ELSE UNCHANGED <<value, places>>
Account ==
  IF IsIgnored THEN UNCHANGED number
  ELSE /\ isNegative' = (isNegative \/ c = Minus)
       /\ isFraction' = (isFraction \/ c = Dot)
       /\ IF c \in Digit
          THEN /\ value' \in AddDigit(value, c)
               /\ places' = IF isFraction THEN places + 1 ELSE places
          ELSE UNCHANGED <<value, places>>

(* peekNextDigit(): the first character of the number, or a character to   *)
(* skip, or the end.                                                       *)
Skips == call.lookahead = "all" \/ (call.lookahead = "whitespace" /\ c \in Space)

SkipGot ==
  /\ pc = "got" /\ call.kind = "parse" /\ buffer = <<>>
  /\ \/ /\ c # None /\ StartsNumber
        /\ Account
        /\ buffer' = <<c>>
        /\ Consume
     \/ /\ c # None /\ ~StartsNumber /\ Skips
        /\ Consume
        /\ UNCHANGED <<number, buffer>>
     \/ /\ c = None \/ (~StartsNumber /\ ~Skips)
        /\ Return(0)
        /\ UNCHANGED <<inbox, taken, number, buffer>>
  /\ UNCHANGED <<call, c, index>>

(* The while condition after each timedPeek(). *)
Continues ==
  /\ c # None
  /\ c \in Digit \/ IsIgnored \/ (call.decimal /\ c = Dot /\ ~isFraction)

ParseGot ==
  /\ pc = "got" /\ call.kind = "parse" /\ buffer # <<>>
  /\ \/ Continues /\ Account /\ Consume /\ buffer' = Append(buffer, c)
     \/ /\ ~Continues
        /\ Return(IF isNegative THEN -value ELSE value)
        /\ UNCHANGED <<inbox, taken, number, buffer>>
  /\ UNCHANGED <<call, c, index>>

Main == TimedStart \/ TimedPoll \/ TimedCheck \/ ReadGot \/ FindGot \/ SkipGot \/ ParseGot

Next ==
  \/ \E ch \in Char : Arrive(ch)
  \/ Tick
  \/ \E cl \in Calls : Begin(cl)
  \/ Main

Spec == Init /\ [][Next]_vars
LiveSpec == Spec /\ WF_vars(Main) /\ SF_vars(Tick)

----------------------------------------------------------------------------
TextOK ==
  /\ inbox \in Seq(Char) /\ taken \in Seq(Char) /\ buffer \in Seq(Char)
  /\ arrivals \in 0..MaxChars
TimeOK ==
  /\ millis \in 0..(ULong - 1) /\ startMillis \in 0..(ULong - 1)
  /\ lag \in 0..MaxLag /\ waited \in 0..Timeout
CallOK ==
  /\ call \in Calls \cup {None} /\ c \in Char \cup {None}
  /\ pc \in {"idle", "start", "poll", "check", "got"}
  /\ index \in Seq(Nat)
NumberOK ==
  /\ value \in 0..LongMax /\ places \in Nat
  /\ isNegative \in BOOLEAN /\ isFraction \in BOOLEAN
TypeOK == TextOK /\ TimeOK /\ CallOK /\ NumberOK

(* While findMulti() runs it knows, of each target, exactly how much of it *)
(* the stream ends with, although it looks at every character once.        *)
Finding == call # None /\ call.kind = "find" /\ pc \in {"start", "poll", "check"}
MatchKept ==
  Finding => \A i \in DOMAIN index : IsLongestMatch(taken, call.targets[i], index[i])

(* find() and findUntil() report a target when it has just appeared in the *)
(* stream, the first one listed if two do, and time out only without one.  *)
Returned(kind) == call # None /\ call.kind = kind /\ pc = "idle"
FindsFirst ==
  Returned("find") /\ EmptyTargets(call) = {} =>
    /\ result = None => \A i \in DOMAIN call.targets : ~Occurs(call.targets[i], taken)
    /\ result # None =>
         /\ EndsWith(taken, call.targets[result], Len(call.targets[result]))
         /\ \A i \in DOMAIN call.targets :
              /\ ~Occurs(call.targets[i], Front(taken))
              /\ i < result => ~Occurs(call.targets[i], taken)

(* readBytes() and its kin give the caller what they take from the port,   *)
(* in order, except the terminator, and never more than fits.              *)
ReadsExactly ==
  Returned("read") =>
    /\ taken = buffer \/ (call.stop # None /\ taken = Append(buffer, call.stop))
    /\ call.stop \notin ToSet(buffer)
    /\ call.limit # None => Len(buffer) <= call.limit
    /\ result = Len(buffer)

(* parseInt() and parseFloat() skip what they may skip, return the number  *)
(* that follows (if it fits a long) and leave what ended it in the port.   *)
NumberStart == (Digit \cup {Minus}) \cup (IF call.decimal THEN {Dot} ELSE {})
NumberIn(s) ==
  LET starts == {i \in DOMAIN s : s[i] \in NumberStart}
  IN IF starts = {} THEN <<>> ELSE SubSeq(s, Min(starts), Len(s))
Values(s, ignore) ==
  LET v[k \in 0..Len(s)] ==
        IF k = 0 THEN 0
        ELSE IF s[k] \in Digit /\ s[k] # ignore THEN v[k - 1] * Base + s[k]
        ELSE v[k - 1]
  IN v
ValueOf(s) == Values(s, call.ignore)[Len(s)]
ParsedExtent ==
  LET n == NumberIn(taken) IN
  /\ \A i \in 1..(Len(taken) - Len(n)) :
       \/ call.lookahead = "all"
       \/ call.lookahead = "whitespace" /\ taken[i] \in Space
  /\ \A i \in 2..Len(n) :
       n[i] \in Digit \cup {call.ignore} \cup (NumberStart \ {Minus})
  /\ c # None => inbox # <<>> /\ Head(inbox) = c /\ c \notin Digit
ParsedValue ==
  LET n == NumberIn(taken)
      negative == n # <<>> /\ n[1] = Minus /\ Minus # call.ignore
  IN ValueOf(n) <= LongMax => result = IF negative THEN -ValueOf(n) ELSE ValueOf(n)
ParsesNumber == Returned("parse") => ParsedExtent /\ ParsedValue

(* What print(n) writes parseInt() reads back as n, and what print(x, d)   *)
(* writes parseFloat() reads back as x to d places, where it fits a long.  *)
(* The least long does not: its value is not one a long can count up to.   *)
Sent(s) == call.ignore \notin Digit \cup {Minus, Dot} /\ taken = s
PrintedReadsBack ==
  Returned("parse") =>
    /\ \A n \in -LongMax..LongMax : Sent(PrintLong(Fresh, n, Base).out) => result = n
    /\ \A num \in -3..3, digits \in 1..2 :
         LET s == PrintFloat(Fresh, num, 2, digits).out
         IN call.decimal /\ Sent(s) /\ ValueOf(s) <= LongMax =>
              places = digits /\ 2 * result = num * Power[digits]

(* print() writes the number it was given, and it is read back. *)
PrintedTrue == PrintedReadsBack /\ (pc = "idle" => PrintsTrue)

(* A timed read gives up only when the whole time-out has passed since it  *)
(* began, also when millis() wraps meanwhile.                              *)
GivesUpInTime ==
  [][(pc = "check" /\ pc' = "got") => waited >= Timeout]_vars

(* Every call returns, once the characters stop coming.                    *)
CallsReturn == pc # "idle" ~> pc = "idle"
=============================================================================
