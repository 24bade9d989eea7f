----------------------------- MODULE PanicStore -----------------------------
(***************************************************************************)
(* The crash report and the boot trace of a half (panic_store.rs), kept in *)
(* RAM that survives every reset but a power cycle. The panic handler      *)
(* zeroes and writes the report with interrupts off; the watchdog still    *)
(* runs, and formatting may itself fault. The next boot rolls itself into  *)
(* the trace and copies the report. A reset may fall between any two       *)
(* stores to that RAM.                                                     *)
(*                                                                         *)
(* Texts are the numbers of the crashes they describe; 0 is no text and    *)
(* Garbage whatever RAM holds after power-on, assumed not to be one of the *)
(* 32-bit markers. The stores happen in program order, the zeroing of a    *)
(* struct in the order of its fields, and a text at once (its length is    *)
(* stored behind it). RESETREAS has one reason: the bits that two resets   *)
(* leave when no boot clears it in between are not told apart.             *)
(***************************************************************************)
EXTENDS Integers

CONSTANTS
    Unreadable,   \* crashes whose message is cut within a character by REPORT_CAP
    Stages,       \* milestones a boot stamps, 1 .. n
    MaxCrashes,   \* bound on panics and faults
    MaxResets,    \* bound on watchdog and other resets, power-on included
    BootsModulus  \* range of the u32 boot counter

StoreConstants ==
    /\ {MaxCrashes, MaxResets} \subseteq Nat /\ BootsModulus \in Nat \ {0}
    /\ Unreadable \subseteq 1 .. MaxCrashes
    /\ Stages \in Nat

VARIABLES
    store,      \* Store: marker, and the crash that wrote each field
    stamps,     \* Stamps, with resetreas = <<this, prev>>, and the cause ring
    reas,       \* the RESETREAS register
    last,       \* LAST: the report captured at this boot
    pc,         \* where this run of the firmware is
    why,        \* the reset reason boot_mark has read
    \* History: crashes so far, resets so far, whether the run before this one
    \* crashed, the reasons of this boot and of the last two that were kept, the
    \* boots marked since power-on, and whether a reset since then kept a marked
    \* boot from scrubbing the cause ring.
    crashes, resets, crashed, reasons, marked, unscrubbed

vars == <<store, stamps, reas, last, pc, why, crashes, resets, crashed, reasons,
          marked, unscrubbed>>

Garbage == -1
NoReport == [loc |-> 0, msg |-> 0]

\* Reset reasons; 0 is a cleared register.
Power == 1
Watchdog == 2
Soft == 3
Pin == 4
Reasons == 0 .. 4

\* read_slice: the bytes a length of another crash cuts are no report at all,
\* and what is not UTF-8 reads as empty.
ReadSlice(bytes, len) ==
    IF bytes # len THEN Garbage ELSE IF bytes \in Unreadable THEN 0 ELSE bytes

Captured ==
    [loc |-> IF store.loc = store.loc_len THEN store.loc ELSE Garbage,
     msg |-> ReadSlice(store.msg, store.msg_len)]

-----------------------------------------------------------------------------
PowerOnStore ==
    [marker |-> FALSE, loc |-> Garbage, loc_len |-> Garbage, msg |-> Garbage,
     msg_len |-> Garbage]
PowerOnStamps ==
    [marker |-> FALSE, stage |-> Garbage, boots |-> Garbage,
     this |-> Garbage, prev |-> Garbage, cause |-> <<Garbage, Garbage>>]

Init ==
    /\ store = PowerOnStore /\ stamps = PowerOnStamps
    /\ reas = Power /\ last = NoReport /\ pc = "boot" /\ why = 0
    /\ crashes = 0 /\ resets = 0 /\ crashed = FALSE
    /\ reasons = <<Power, 0, 0>> /\ marked = 0 /\ unscrubbed = FALSE

\* A reset restarts the firmware; ordinary memory, LAST included, is as linked.
Restart(reason) ==
    /\ pc' = "boot" /\ reas' = reason /\ last' = NoReport /\ why' = 0

\* The stores of a first boot: the struct is zeroed behind its magic, which is
\* zero or garbage already, then marked; the cause ring is scrubbed after that.
ZeroSteps == [stage |-> "boots", boots |-> "this", this |-> "prev", prev |-> "magic"]
ScrubSteps == [scrub_0 |-> <<1, "scrub_4">>, scrub_4 |-> <<2, "shift">>]
Marking == {"mark", "magic", "shift", "keep", "count"}
               \cup DOMAIN ZeroSteps \cup DOMAIN ScrubSteps

\* The stores of the panic handler: the report is zeroed behind its magic, then
\* each field is written, and the marker behind them.
ClearSteps ==
    [clear_loc |-> <<"loc", "clear_loc_len">>, clear_loc_len |-> <<"loc_len", "clear_msg">>,
     clear_msg |-> <<"msg", "clear_msg_len">>, clear_msg_len |-> <<"msg_len", "loc">>]
RecordSteps == [loc |-> "loc_len", loc_len |-> "msg", msg |-> "msg_len",
                msg_len |-> "marker"]
Recording == {"marker"} \cup DOMAIN ClearSteps \cup DOMAIN RecordSteps

\* The watchdog, or the reset button, at any step.
Resets ==
    /\ resets < MaxResets /\ resets' = resets + 1
    /\ \E reason \in {Watchdog, Pin} :
          Restart(reason) /\ reasons' = [reasons EXCEPT ![1] = reason]
    /\ crashed' = (pc \in Recording \cup {"reset"})
    /\ unscrubbed' = (unscrubbed \/ pc \in DOMAIN ScrubSteps)
    /\ UNCHANGED <<store, stamps, crashes, marked>>

PowerCycles ==
    /\ resets < MaxResets /\ resets' = resets + 1
    /\ Restart(Power) /\ reasons' = <<Power, 0, 0>>
    /\ store' = PowerOnStore /\ stamps' = PowerOnStamps
    /\ crashed' = FALSE /\ marked' = 0 /\ unscrubbed' = FALSE
    /\ UNCHANGED crashes

-----------------------------------------------------------------------------
(* Boot: boot_mark, capture_boot and the stamps.                           *)

BootKeeps == UNCHANGED <<crashes, resets, crashed, unscrubbed>>

\* A step of boot_mark that only writes the stamps.
Marks(stored, label) ==
    /\ stamps' = stored /\ pc' = label
    /\ BootKeeps /\ UNCHANGED <<store, reas, last, why, reasons, marked>>

\* The register is read, then cleared for the next run.
MarkReads ==
    /\ pc = "boot" /\ pc' = "mark"
    /\ why' = reas /\ reas' = 0
    /\ BootKeeps /\ UNCHANGED <<store, stamps, last, reasons, marked>>

\* The magic is looked at: after power-on the struct is not marked.
MarkChecks ==
    /\ pc = "mark"
    /\ Marks(stamps, IF stamps.marker THEN "shift" ELSE "stage")

MarkZeroes ==
    /\ pc \in DOMAIN ZeroSteps
    /\ Marks([stamps EXCEPT ![pc] = 0], ZeroSteps[pc])

MarkMarks ==
    /\ pc = "magic"
    /\ Marks([stamps EXCEPT !.marker = TRUE], "scrub_0")

\* The ring is outside the struct: a reset before it is scrubbed leaves it as it
\* is for good, since later boots find the struct marked.
MarkScrubs ==
    /\ pc \in DOMAIN ScrubSteps
    /\ Marks([stamps EXCEPT !.cause[ScrubSteps[pc][1]] = 0], ScrubSteps[pc][2])

\* The reason before this boot's is moved up, and this boot's takes its place.
MarkShifts ==
    /\ pc = "shift"
    /\ Marks([stamps EXCEPT !.prev = stamps.this], "keep")

MarkKeeps ==
    /\ pc = "keep" /\ pc' = "count"
    /\ stamps' = [stamps EXCEPT !.this = why]
    /\ reasons' = <<reasons[1], reasons[1], reasons[2]>>
    /\ BootKeeps /\ UNCHANGED <<store, reas, last, why, marked>>

NextBoots == (stamps.boots + 1) % BootsModulus

MarkCounts ==
    /\ pc = "count"
    /\ stamps' = [stamps EXCEPT !.boots = NextBoots]
    /\ marked' = marked + 1 /\ pc' = "capture"
    /\ BootKeeps /\ UNCHANGED <<store, reas, last, why, reasons>>

\* mutant: the report is consumed
ClearMarker == store' = [store EXCEPT !.marker = FALSE]
\* The marker is "deliberately left uncleared".
KeepMarker == UNCHANGED store

CaptureBoot ==
    /\ pc = "capture" /\ pc' = "running"
    /\ IF store.marker THEN last' = Captured /\ KeepMarker
       ELSE UNCHANGED <<last, store>>
    /\ BootKeeps /\ UNCHANGED <<stamps, reas, why, reasons, marked>>

Stamp ==
    /\ pc = "running"
    /\ \E s \in 1 .. Stages : stamps' = [stamps EXCEPT !.stage = s]
    /\ BootKeeps /\ UNCHANGED <<store, reas, last, pc, why, reasons, marked>>

-----------------------------------------------------------------------------
(* record, called by the panic handler and by HardFault.                   *)

\* mutant: the old marker stands while the report is written
KeepOldReport == UNCHANGED store
\* The zeroes begin with the magic.
ZeroFirst == store' = [store EXCEPT !.marker = FALSE]

\* What record leaves alone.
RecordKeeps ==
    UNCHANGED <<stamps, reas, last, why, crashes, resets, crashed, reasons, marked,
                unscrubbed>>

\* A panic or a fault begins a record. It may interrupt an earlier one, whose
\* formatting panicked or faulted.
Crash ==
    /\ crashes < MaxCrashes
    /\ pc \notin Marking \cup {"boot"}
    /\ crashes' = crashes + 1
    /\ ZeroFirst /\ pc' = "clear_loc"
    /\ UNCHANGED <<stamps, reas, last, why, resets, crashed, reasons, marked,
                   unscrubbed>>

ClearField ==
    /\ pc \in DOMAIN ClearSteps
    /\ store' = [store EXCEPT ![ClearSteps[pc][1]] = 0]
    /\ pc' = ClearSteps[pc][2]
    /\ RecordKeeps

RecordField ==
    /\ pc \in DOMAIN RecordSteps
    /\ store' = [store EXCEPT ![pc] = crashes]
    /\ pc' = RecordSteps[pc]
    /\ RecordKeeps

RecordMarker ==
    /\ pc = "marker"
    /\ store' = [store EXCEPT !.marker = TRUE] /\ pc' = "reset"
    /\ RecordKeeps

SysReset ==
    /\ pc = "reset"
    /\ Restart(Soft) /\ reasons' = [reasons EXCEPT ![1] = Soft]
    /\ crashed' = TRUE
    /\ UNCHANGED <<store, stamps, crashes, resets, marked, unscrubbed>>

\* raw_report_loc, which the peripheral relays while it runs.
raw_report_loc == IF store.marker THEN Captured.loc ELSE 0

-----------------------------------------------------------------------------
Next ==
    \/ Resets \/ PowerCycles
    \/ MarkReads \/ MarkChecks \/ MarkZeroes \/ MarkMarks \/ MarkScrubs
    \/ MarkShifts \/ MarkKeeps \/ MarkCounts \/ CaptureBoot \/ Stamp
    \/ Crash \/ ClearField \/ RecordField \/ RecordMarker \/ SysReset

Spec == Init /\ [][Next]_vars

-----------------------------------------------------------------------------
Texts == Garbage .. MaxCrashes

TypeOK ==
    /\ store \in [marker : BOOLEAN, loc : Texts, loc_len : Texts, msg : Texts,
                  msg_len : Texts]
    /\ stamps.marker \in BOOLEAN /\ stamps.stage \in Garbage .. Stages
    /\ stamps.boots \in Garbage .. BootsModulus - 1
    /\ pc \in Marking \cup Recording \cup {"boot", "capture", "running", "reset"}
    /\ last \in [loc : Texts, msg : Texts]
    /\ reas \in Reasons

(* A report that can be seen, raw or captured at boot, is whole and is of  *)
(* the latest crash there was: a crash that was cut short by the watchdog  *)
(* or by a fault in its own formatting, takes the older report with it and *)
(* never leaves a mixture. A message that was cut within a character reads *)
(* as empty.                                                               *)
ReportIsOfLatestCrash ==
    /\ raw_report_loc \in {0, crashes}
    /\ pc = "running" => \/ last = NoReport
                         \/ /\ last.loc = crashes
                            /\ last.msg \in {crashes} \cup
                                   {0 : c \in Unreadable \cap {crashes}}

(* A complete report is lost only to a newer crash or to a power cycle: it *)
(* is still there for a stable image, however many boots read it or were   *)
(* reset before ("clearing here would discard the only surviving report"). *)
ReportSurvives ==
    [][store.marker /\ ~ store'.marker
          => crashes' > crashes \/ stamps' = PowerOnStamps]_vars

(* Once a boot has marked itself, the trace counts the boots marked since  *)
(* power-on, and its reasons are this boot's and that of the boot that got *)
(* so far before it, also after boots that were reset half-way through     *)
(* their mark. The cause ring is scrubbed, unless a reset fell between the *)
(* marker and the scrub: it never is again before the next power cycle.    *)
TraceIsAccurate ==
    pc \in {"capture", "running"} =>
        /\ stamps.marker /\ stamps.boots = marked % BootsModulus
        /\ stamps.this = reasons[1] /\ stamps.prev = reasons[3]
        /\ stamps.cause = <<0, 0>> \/ unscrubbed

(* What boot_mark means to see to: "scrub its power-on garbage". The       *)
(* marker is written before the ring is scrubbed, and nobody scrubs the    *)
(* ring of a marked struct.                                                *)
TraceHasNoGarbage == pc = "running" => stamps.cause = <<0, 0>>

\* What a boot shows of the past is true: the report and the boot trace.
BootShowsThePast == ReportIsOfLatestCrash /\ TraceIsAccurate

(* What last_panic promises: the report captured at this boot is there "if *)
(* the previous run crashed" ("one report describes exactly one crash").   *)
(* The marker is not cleared, so every boot after that one reports the     *)
(* same crash.                                                             *)
ReportOnlyAfterCrash == pc = "running" /\ last # NoReport => crashed
=============================================================================
