------------------------- MODULE FirmwareTaskProofs -------------------------
(***************************************************************************)
(* Proofs about the firmware tasks beside replication: the panic store,    *)
(* the Magic-layer chord, the key hits of the reactive effects and the     *)
(* LED chain's power. The components share no state: each theorem is about *)
(* the specification of one, with the constants FirmwareTasks has for it.  *)
(***************************************************************************)
EXTENDS FirmwareTasks, SequenceTheorems, FiniteSetTheorems, TLAPS

-----------------------------------------------------------------------------
(* PanicStore.                                                             *)

\* Where the panic handler has written each field of its report.
AfterLoc == {"loc_len", "msg", "msg_len", "marker"}
AfterLocLen == {"msg", "msg_len", "marker"}
AfterMsg == {"msg_len", "marker"}

\* What a crash has written of its report so far.
RecordInv ==
    /\ crashes \in Nat
    /\ store \in [marker : BOOLEAN, loc : Int, loc_len : Int, msg : Int, msg_len : Int]
    /\ panic_pc \in Panic!Marking \cup Panic!Recording
                      \cup {"boot", "capture", "running", "reset"}
    /\ panic_pc \in Panic!Recording => ~ store.marker
    /\ store.marker => /\ store.loc = crashes /\ store.loc_len = crashes
                       /\ store.msg = crashes /\ store.msg_len = crashes
    /\ panic_pc \in AfterLoc => store.loc = crashes
    /\ panic_pc \in AfterLocLen => store.loc_len = crashes
    /\ panic_pc \in AfterMsg => store.msg = crashes
    /\ panic_pc = "marker" => store.msg_len = crashes
    /\ panic_pc \in {"boot", "capture"} \cup Panic!Marking => last = Panic!NoReport
    /\ panic_pc = "running" =>
          \/ last = Panic!NoReport
          \/ /\ last.loc = crashes
             /\ last.msg \in {crashes} \cup {0 : c \in Unreadable \cap {crashes}}

\* The labels of boot_mark and of the panic handler, and what each leads to.
LEMMA PanicLabels ==
    /\ DOMAIN Panic!ZeroSteps = {"stage", "boots", "this", "prev"}
    /\ Panic!ZeroSteps["stage"] = "boots" /\ Panic!ZeroSteps["boots"] = "this"
    /\ Panic!ZeroSteps["this"] = "prev" /\ Panic!ZeroSteps["prev"] = "magic"
    /\ DOMAIN Panic!ScrubSteps = {"scrub_0", "scrub_4"}
    /\ Panic!ScrubSteps["scrub_0"] = <<1, "scrub_4">>
    /\ Panic!ScrubSteps["scrub_4"] = <<2, "shift">>
    /\ DOMAIN Panic!ClearSteps = {"clear_loc", "clear_loc_len", "clear_msg", "clear_msg_len"}
    /\ Panic!ClearSteps["clear_loc"] = <<"loc", "clear_loc_len">>
    /\ Panic!ClearSteps["clear_loc_len"] = <<"loc_len", "clear_msg">>
    /\ Panic!ClearSteps["clear_msg"] = <<"msg", "clear_msg_len">>
    /\ Panic!ClearSteps["clear_msg_len"] = <<"msg_len", "loc">>
    /\ DOMAIN Panic!RecordSteps = {"loc", "loc_len", "msg", "msg_len"}
    /\ Panic!RecordSteps["loc"] = "loc_len" /\ Panic!RecordSteps["loc_len"] = "msg"
    /\ Panic!RecordSteps["msg"] = "msg_len" /\ Panic!RecordSteps["msg_len"] = "marker"
    /\ Panic!Marking = {"mark", "magic", "shift", "keep", "count", "stage", "boots", "this",
                        "prev", "scrub_0", "scrub_4"}
    /\ Panic!Recording = {"marker", "clear_loc", "clear_loc_len", "clear_msg",
                          "clear_msg_len", "loc", "loc_len", "msg", "msg_len"}
BY DEF Panic!ZeroSteps, Panic!ScrubSteps, Panic!ClearSteps, Panic!RecordSteps,
       Panic!Marking, Panic!Recording

\* No step of a boot, a crash or a reset breaks it: the handler clears the
\* marker before it writes a field and sets it after the last one.
LEMMA RecordStep == RecordInv /\ [Panic!Next]_(Panic!vars) => RecordInv'
<1> SUFFICES ASSUME RecordInv, [Panic!Next]_(Panic!vars) PROVE RecordInv'
  OBVIOUS
<1> USE PanicLabels DEF RecordInv, AfterLoc, AfterLocLen, AfterMsg
<1>1. CASE Panic!Resets
  BY <1>1 DEF Panic!Resets, Panic!Restart
<1>2. CASE Panic!PowerCycles
  BY <1>2 DEF Panic!PowerCycles, Panic!Restart, Panic!PowerOnStore, Panic!Garbage
<1>3. CASE Panic!MarkReads
  BY <1>3 DEF Panic!MarkReads, Panic!BootKeeps
<1>4. ASSUME NEW stored, NEW label, Panic!Marks(stored, label),
             panic_pc \in Panic!Marking, label \in Panic!Marking
      PROVE  RecordInv'
  BY <1>4 DEF Panic!Marks, Panic!BootKeeps
<1>m. CASE Panic!MarkChecks \/ Panic!MarkZeroes \/ Panic!MarkMarks \/ Panic!MarkScrubs
              \/ Panic!MarkShifts
  BY <1>4, <1>m DEF Panic!MarkChecks, Panic!MarkZeroes, Panic!MarkMarks, Panic!MarkScrubs,
                    Panic!MarkShifts
<1>k. CASE Panic!MarkKeeps \/ Panic!MarkCounts
  BY <1>k DEF Panic!MarkKeeps, Panic!MarkCounts, Panic!BootKeeps
<1>5. CASE Panic!CaptureBoot
  BY <1>5 DEF Panic!CaptureBoot, Panic!BootKeeps, Panic!KeepMarker, Panic!Captured,
              Panic!ReadSlice
<1>6. CASE Panic!Stamp
  BY <1>6 DEF Panic!Stamp, Panic!BootKeeps
<1>7. CASE Panic!Crash
  <2>1. /\ crashes' \in Nat /\ panic_pc' = "clear_loc"
        /\ store' = [store EXCEPT !.marker = FALSE]
    BY <1>7 DEF Panic!Crash, Panic!ZeroFirst
  <2> QED
    BY <2>1
<1>c. CASE Panic!ClearField
  BY <1>c DEF Panic!ClearField, Panic!RecordKeeps
<1>8. CASE Panic!RecordField
  BY <1>8 DEF Panic!RecordField, Panic!RecordKeeps
<1>9. CASE Panic!RecordMarker
  BY <1>9 DEF Panic!RecordMarker, Panic!RecordKeeps
<1>10. CASE Panic!SysReset
  BY <1>10 DEF Panic!SysReset, Panic!Restart
<1>11. CASE UNCHANGED Panic!vars
  BY <1>11 DEF Panic!vars
<1> QED
  BY <1>1, <1>2, <1>3, <1>m, <1>k, <1>5, <1>6, <1>7, <1>c, <1>8, <1>9, <1>10, <1>11
  DEF Panic!Next

\* What the stamps and the history say of each other, also half-way through
\* a mark: once marked they agree, and until then nothing was kept. The ring of
\* a marked struct holds garbage while it is scrubbed, and for good after a
\* reset in between.
TraceInv ==
    /\ marked \in Nat /\ unscrubbed \in BOOLEAN
    /\ stamps \in [marker : BOOLEAN, stage : Int, boots : Int, this : Int, prev : Int,
                   cause : Int \X Int]
    /\ reasons \in Int \X Int \X Int
    /\ panic_pc \in Panic!Marking \cup Panic!Recording
                      \cup {"boot", "capture", "running", "reset"}
    /\ panic_pc = "boot" => reas = reasons[1]
    /\ panic_pc \in Panic!Marking \ {"count"} => why = reasons[1]
    /\ panic_pc \in DOMAIN Panic!ZeroSteps \cup {"magic"} => ~ stamps.marker
    /\ panic_pc \notin DOMAIN Panic!ZeroSteps \cup {"boot", "mark", "magic"} => stamps.marker
    /\ panic_pc \in {"this", "prev", "magic"} => stamps.boots = 0
    /\ panic_pc \in {"prev", "magic"} => stamps.this = 0
    /\ stamps.marker => stamps.boots = marked % BootsModulus /\ stamps.this = reasons[2]
    /\ ~ stamps.marker => marked = 0 /\ reasons[2] = 0
    /\ panic_pc = "keep" => stamps.prev = reasons[2]
    /\ panic_pc \in {"count", "capture", "running"} =>
          stamps.this = reasons[1] /\ stamps.prev = reasons[3]
    /\ stamps.marker /\ panic_pc = "scrub_4" => stamps.cause[1] = 0
    /\ stamps.marker /\ panic_pc \notin DOMAIN Panic!ScrubSteps =>
          stamps.cause = <<0, 0>> \/ unscrubbed

\* The wrapping boot counter counts modulo its range.
LEMMA NextCount ==
    ASSUME NEW m \in Nat, NEW b \in Nat \ {0}
    PROVE  ((m % b) + 1) % b = (m + 1) % b
<1> DEFINE q == m \div b
           r == m % b
<1>1. m - r = b * q
  BY SMTT(30)
<1>2. q \in Int /\ r \in 0 .. (b - 1)
  OBVIOUS
<1> HIDE DEF q, r
<1>3. b * q \in Int /\ b * q = m - r
  BY <1>1, <1>2
<1>4. m + 1 = b * q + (r + 1)
  BY <1>2, <1>3
<1>5. ASSUME NEW k \in 0 .. (b - 1) PROVE (b * q + k) % b = k
  BY <1>2
<1>6. CASE r + 1 < b
  <2>1. (b * q + (r + 1)) % b = r + 1
    BY <1>2, <1>5, <1>6
  <2>2. (r + 1) % b = r + 1
    BY <1>2, <1>6
  <2>3. (r + 1) % b = (m + 1) % b
    BY <1>4, <2>1, <2>2
  <2> QED
    BY <2>3 DEF r
<1>7. CASE r + 1 = b
  <2>1. b * q + (r + 1) = b * (q + 1)
    BY <1>2, <1>7
  <2>2. (b * (q + 1)) % b = 0 /\ b % b = 0
    BY <1>2
  <2>3. (r + 1) % b = (m + 1) % b
    BY <1>4, <1>7, <2>1, <2>2
  <2> QED
    BY <2>3 DEF r
<1> QED
  BY <1>2, <1>6, <1>7

\* What power-on leaves in the stamps and in the register.
LEMMA PowerOn ==
    /\ Panic!PowerOnStamps \in [marker : BOOLEAN, stage : Int, boots : Int, this : Int,
                                prev : Int, cause : Int \X Int]
    /\ ~ Panic!PowerOnStamps.marker /\ Panic!Power \in Int
BY DEF Panic!PowerOnStamps, Panic!Garbage, Panic!Power

\* The boot marks zero, mark, shift and count in an order that keeps the trace
\* right wherever a reset falls between them.
LEMMA TraceStep ==
    ASSUME Panic!StoreConstants, TraceInv, [Panic!Next]_(Panic!vars)
    PROVE  TraceInv'
<1> USE PanicLabels DEF TraceInv
<1>1. CASE Panic!Resets
  BY <1>1 DEF Panic!Resets, Panic!Restart, Panic!Watchdog, Panic!Pin
<1>2. CASE Panic!PowerCycles
  <2>1. /\ stamps' = Panic!PowerOnStamps /\ ~ stamps'.marker
        /\ marked' = 0 /\ unscrubbed' = FALSE
    BY <1>2, PowerOn DEF Panic!PowerCycles
  <2>2. /\ panic_pc' = "boot" /\ reas' = reasons'[1] /\ reasons'[2] = 0
        /\ reasons' \in Int \X Int \X Int
    BY <1>2, PowerOn DEF Panic!PowerCycles, Panic!Restart
  <2> QED
    BY <2>1, <2>2, PowerOn
<1>3. CASE Panic!MarkReads
  BY <1>3 DEF Panic!MarkReads, Panic!BootKeeps
<1>4. CASE Panic!MarkChecks \/ Panic!MarkZeroes
  BY <1>4 DEF Panic!MarkChecks, Panic!MarkZeroes, Panic!Marks, Panic!BootKeeps
<1>5. CASE Panic!MarkMarks
  <2>1. 0 % BootsModulus = 0
    BY DEF Panic!StoreConstants
  <2> QED
    BY <1>5, <2>1 DEF Panic!MarkMarks, Panic!Marks, Panic!BootKeeps
<1>s. CASE Panic!MarkScrubs
  BY <1>s DEF Panic!MarkScrubs, Panic!Marks, Panic!BootKeeps
<1>6. CASE Panic!MarkShifts
  BY <1>6 DEF Panic!MarkShifts, Panic!Marks, Panic!BootKeeps
<1>k. CASE Panic!MarkKeeps
  BY <1>k DEF Panic!MarkKeeps, Panic!BootKeeps
<1>7. CASE Panic!MarkCounts
  BY <1>7, NextCount DEF Panic!MarkCounts, Panic!NextBoots, Panic!BootKeeps,
                         Panic!StoreConstants
<1>8. CASE Panic!CaptureBoot
  BY <1>8 DEF Panic!CaptureBoot, Panic!BootKeeps
<1>9. CASE Panic!Stamp
  BY <1>9 DEF Panic!Stamp, Panic!BootKeeps, Panic!StoreConstants
<1>10. CASE Panic!Crash
  BY <1>10 DEF Panic!Crash
<1>11. CASE Panic!ClearField \/ Panic!RecordField \/ Panic!RecordMarker
  BY <1>11 DEF Panic!ClearField, Panic!RecordField, Panic!RecordMarker, Panic!RecordKeeps
<1>12. CASE Panic!SysReset
  BY <1>12 DEF Panic!SysReset, Panic!Restart, Panic!Soft
<1>13. CASE UNCHANGED Panic!vars
  BY <1>13 DEF Panic!vars
<1> QED
  BY <1>1, <1>2, <1>3, <1>4, <1>5, <1>s, <1>6, <1>k, <1>7, <1>8, <1>9, <1>10, <1>11, <1>12,
     <1>13 DEF Panic!Next

\* What a boot shows of the past is true: a report that can be seen is whole
\* and of the latest crash, and the trace counts and names the boots since
\* power-on, wherever resets and crashes fall between two stores. The cause
\* ring is scrubbed unless a reset fell between the marker and the scrub.
THEOREM PanicBootShowsThePast ==
    ASSUME Panic!StoreConstants
    PROVE  Panic!Spec => []BootShowsThePast
<1>1. Panic!Init => RecordInv /\ TraceInv
  <2> SUFFICES ASSUME Panic!Init PROVE RecordInv /\ TraceInv
    OBVIOUS
  <2>1. RecordInv
    BY PanicLabels DEF Panic!Init, RecordInv, AfterLoc, AfterLocLen, AfterMsg,
                       Panic!PowerOnStore, Panic!Garbage
  <2>2. TraceInv
    <3>1. /\ stamps = Panic!PowerOnStamps /\ ~ stamps.marker
          /\ marked = 0 /\ unscrubbed = FALSE
      BY PowerOn DEF Panic!Init
    <3>2. /\ panic_pc = "boot" /\ reas = reasons[1] /\ reasons[2] = 0
          /\ reasons \in Int \X Int \X Int
      BY PowerOn DEF Panic!Init
    <3> QED
      BY <3>1, <3>2, PowerOn, PanicLabels DEF TraceInv
  <2> QED
    BY <2>1, <2>2
<1>2. RecordInv /\ TraceInv => Panic!BootShowsThePast
  <2> SUFFICES ASSUME RecordInv, TraceInv PROVE Panic!BootShowsThePast
    OBVIOUS
  <2>1. Panic!ReportIsOfLatestCrash
    BY DEF RecordInv, Panic!ReportIsOfLatestCrash, Panic!raw_report_loc, Panic!Captured
  <2>2. Panic!TraceIsAccurate
    BY PanicLabels DEF TraceInv, Panic!TraceIsAccurate
  <2> QED
    BY <2>1, <2>2 DEF Panic!BootShowsThePast
<1> QED
  BY <1>1, <1>2, RecordStep, TraceStep, PTL DEF Panic!Spec, BootShowsThePast

\* A complete report is lost only to a newer crash or to a power cycle.
THEOREM PanicReportSurvives == Panic!Spec => ReportSurvives
<1>1. Panic!Init => RecordInv
  BY PanicLabels DEF Panic!Init, RecordInv, AfterLoc, AfterLocLen, AfterMsg,
                     Panic!PowerOnStore, Panic!Garbage
<1>2. ASSUME RecordInv, [Panic!Next]_(Panic!vars), store.marker, ~ store.marker'
      PROVE  crashes' > crashes \/ stamps' = Panic!PowerOnStamps
  <2>1. store' # store
    BY <1>2
  <2>2. CASE Panic!PowerCycles
    BY <2>2 DEF Panic!PowerCycles
  <2>3. CASE Panic!Crash
    BY <1>2, <2>3 DEF Panic!Crash, RecordInv
  <2>4. CASE Panic!ClearField \/ Panic!RecordField \/ Panic!RecordMarker
    BY <1>2, <2>4, PanicLabels DEF Panic!ClearField, Panic!RecordField, Panic!RecordMarker,
                                   RecordInv
  <2> QED
    BY <1>2, <2>1, <2>2, <2>3, <2>4 DEF Panic!Next, Panic!vars, Panic!Resets,
       Panic!MarkReads, Panic!MarkChecks, Panic!MarkZeroes, Panic!MarkMarks,
       Panic!MarkScrubs, Panic!MarkShifts, Panic!Marks, Panic!MarkKeeps, Panic!MarkCounts, Panic!CaptureBoot, Panic!KeepMarker, Panic!Stamp, Panic!SysReset
<1>3. RecordInv /\ [Panic!Next]_(Panic!vars) =>
        [store.marker /\ ~ store'.marker
            => crashes' > crashes \/ stamps' = Panic!PowerOnStamps]_(Panic!vars)
  BY <1>2
<1> QED
  BY <1>1, <1>3, RecordStep, PTL DEF Panic!Spec, ReportSurvives, Panic!ReportSurvives

-----------------------------------------------------------------------------
(* MagicKeys.                                                              *)

\* One key carries the clear action, and no profile is named like a control.
OneClearKey ==
    /\ \A j, k \in Magic!ClearKeys : j = k
    /\ Profiles \cap {"clear", "clear_all"} = {}

\* What the processor clears on an event, in a state of the chord.
Clears(e, h, u) ==
    IF e.pressed /\ h /\ e.action \in Profiles THEN <<e.action>>
    ELSE IF ~ e.pressed /\ e.action = "clear" /\ ~ u THEN <<Magic!Active>>
    ELSE IF ~ e.pressed /\ e.action = "clear_all" THEN <<"all">>
    ELSE <<>>
\* BleClearChord::update, as a function of the chord's state.
HeldAfter(e, h) == IF e.action = "clear" THEN e.pressed ELSE h
UsedAfter(e, h, u) ==
    IF e.action = "clear" THEN FALSE
    ELSE u \/ (h /\ e.pressed /\ e.action \in Profiles)

\* What can be cleared, and the events of the keys.
Clearings == Profiles \cup {Magic!Active, "all"}
Events == [pressed : BOOLEAN, action : Profiles \cup Controls]

\* s is a beginning of t, element by element.
Prefix(s, t) == Len(s) <= Len(t) /\ \A i \in 1 .. Len(s) : s[i] = t[i]

\* h, u and c are the states the chord and the clearings will go through as
\* the events of ev are processed.
Course(h, u, c, ev) ==
    /\ h \in [0 .. Len(ev) -> BOOLEAN] /\ u \in [0 .. Len(ev) -> BOOLEAN]
    /\ c \in [0 .. Len(ev) -> Seq(Clearings)]
    /\ \A i \in 1 .. Len(ev) :
          /\ h[i] = HeldAfter(ev[i], h[i - 1])
          /\ u[i] = UsedAfter(ev[i], h[i - 1], u[i - 1])
          /\ c[i] = c[i - 1] \o Clears(ev[i], h[i - 1], u[i - 1])
    /\ \A i \in 0 .. Len(ev) : Prefix(c[i], c[Len(ev)])

\* They start from the state now and end where the hands are.
Starts(h, u, c, chord, used_up, cleared) ==
    h[0] = chord /\ u[0] = used_up /\ c[0] = cleared
Ends(h, u, c, n, keys, wanted, single) ==
    /\ c[n] = wanted
    /\ h[n] <=> (keys \cap Magic!ClearKeys # {})
    /\ h[n] => (single <=> ~ u[n])
    /\ ~ h[n] => ~ single

\* As the queued events are processed, the clearings will become what the keys
\* have asked for. IsPrefix(done, asked) alone is not inductive: it says nothing
\* of the events between, nor of the chord they find.
ChordInv ==
    /\ held \in BOOLEAN /\ used \in BOOLEAN /\ alone \in BOOLEAN
    /\ done \in Seq(Clearings) /\ asked \in Seq(Clearings)
    /\ key_events \in Seq(Events) /\ down \subseteq Keys
    /\ \E h, u, c : /\ Course(h, u, c, key_events)
                    /\ Starts(h, u, c, held, used, done)
                    /\ Ends(h, u, c, Len(key_events), down, asked, alone)

\* An event leaves the chord a chord and clears what can be cleared.
LEMMA ClearsTyped ==
    ASSUME NEW e \in Events, NEW h \in BOOLEAN, NEW u \in BOOLEAN
    PROVE  /\ HeldAfter(e, h) \in BOOLEAN /\ UsedAfter(e, h, u) \in BOOLEAN
           /\ Clears(e, h, u) \in Seq(Clearings)
<1>1. \A x \in Clearings : <<x>> \in Seq(Clearings)
  OBVIOUS
<1>2. <<>> \in Seq(Clearings)
  OBVIOUS
<1>3. \/ \E x \in Clearings : Clears(e, h, u) = <<x>>
      \/ Clears(e, h, u) = <<>>
  <2>1. Magic!Active \in Clearings /\ "all" \in Clearings /\ Profiles \subseteq Clearings
    BY DEF Clearings
  <2> QED
    BY <2>1 DEF Clears
<1>4. Clears(e, h, u) \in Seq(Clearings)
  BY <1>1, <1>2, <1>3
<1>5. HeldAfter(e, h) \in BOOLEAN
  BY DEF HeldAfter, Events
<1>6. UsedAfter(e, h, u) \in BOOLEAN
  BY DEF UsedAfter, Events
<1> QED
  BY <1>4, <1>5, <1>6

\* A beginning stays one when more is appended to the whole.
LEMMA PrefixGrows ==
    ASSUME NEW S, NEW s \in Seq(S), NEW t \in Seq(S), NEW x \in Seq(S), Prefix(s, t)
    PROVE  t \o x \in Seq(S) /\ Prefix(s, t \o x)
  BY DEF Prefix

\* A sequence begins with itself.
LEMMA PrefixSelf == ASSUME NEW S, NEW s \in Seq(S) PROVE Prefix(s, s)
  BY DEF Prefix

\* The library's prefix is the one used here.
LEMMA PrefixIs ==
    ASSUME NEW S, NEW s \in Seq(S), NEW t \in Seq(S), Prefix(s, t)
    PROVE  Magic!IsPrefix(s, t)
<1>1. SubSeq(s, 1, Len(s)) = SubSeq(t, 1, Len(s))
  BY DEF Prefix
<1> QED
  BY <1>1 DEF Magic!IsPrefix, Prefix

\* A key event more.
Extended(h, u, c, ev, e, h2, u2, c2) ==
    /\ Course(h2, u2, c2, Append(ev, e))
    /\ h2[0] = h[0] /\ u2[0] = u[0] /\ c2[0] = c[0]
    /\ h2[Len(ev) + 1] = HeldAfter(e, h[Len(ev)])
    /\ u2[Len(ev) + 1] = UsedAfter(e, h[Len(ev)], u[Len(ev)])
    /\ c2[Len(ev) + 1] = c[Len(ev)] \o Clears(e, h[Len(ev)], u[Len(ev)])

\* An event queued behind the others extends the course by the state it leads
\* to, and changes nothing before.
LEMMA CourseExtends ==
    ASSUME NEW ev \in Seq(Events), NEW e \in Events, NEW h, NEW u, NEW c, Course(h, u, c, ev)
    PROVE  \E h2, u2, c2 : Extended(h, u, c, ev, e, h2, u2, c2)
<1> DEFINE n == Len(ev)
           ev2 == Append(ev, e)
           H == HeldAfter(e, h[n])
           U == UsedAfter(e, h[n], u[n])
           C == c[n] \o Clears(e, h[n], u[n])
           h2 == [i \in 0 .. (n + 1) |-> IF i <= n THEN h[i] ELSE H]
           u2 == [i \in 0 .. (n + 1) |-> IF i <= n THEN u[i] ELSE U]
           c2 == [i \in 0 .. (n + 1) |-> IF i <= n THEN c[i] ELSE C]
<1>1. /\ n \in Nat /\ n \in 0 .. n /\ 0 \in 0 .. n /\ Len(ev2) = n + 1
      /\ ev2[n + 1] = e /\ \A i \in 1 .. n : ev2[i] = ev[i]
  OBVIOUS
<1>2. /\ h \in [0 .. n -> BOOLEAN] /\ u \in [0 .. n -> BOOLEAN]
      /\ c \in [0 .. n -> Seq(Clearings)]
      /\ \A i \in 1 .. n : /\ h[i] = HeldAfter(ev[i], h[i - 1])
                           /\ u[i] = UsedAfter(ev[i], h[i - 1], u[i - 1])
                           /\ c[i] = c[i - 1] \o Clears(ev[i], h[i - 1], u[i - 1])
      /\ \A i \in 0 .. n : Prefix(c[i], c[n])
  BY DEF Course
<1>3. H \in BOOLEAN /\ U \in BOOLEAN /\ Clears(e, h[n], u[n]) \in Seq(Clearings)
  BY <1>1, <1>2, ClearsTyped
<1>4. C \in Seq(Clearings) /\ \A i \in 0 .. n : Prefix(c[i], C)
  <2>1. c[n] \in Seq(Clearings) /\ \A i \in 0 .. n : c[i] \in Seq(Clearings)
    BY <1>1, <1>2
  <2> QED
    BY <1>2, <1>3, <2>1, PrefixGrows
<1> HIDE DEF n, ev2, H, U, C
<1>5. h2 \in [0 .. (n + 1) -> BOOLEAN]
  BY <1>1, <1>2, <1>3
<1>6. u2 \in [0 .. (n + 1) -> BOOLEAN]
  BY <1>1, <1>2, <1>3
<1>7. c2 \in [0 .. (n + 1) -> Seq(Clearings)]
  BY <1>1, <1>2, <1>4
<1>8. /\ \A i \in 0 .. n : h2[i] = h[i] /\ u2[i] = u[i] /\ c2[i] = c[i]
      /\ h2[n + 1] = H /\ u2[n + 1] = U /\ c2[n + 1] = C
  BY <1>1
<1> HIDE DEF h2, u2, c2
<1>9. \A i \in 1 .. (n + 1) : /\ h2[i] = HeldAfter(ev2[i], h2[i - 1])
                              /\ u2[i] = UsedAfter(ev2[i], h2[i - 1], u2[i - 1])
                              /\ c2[i] = c2[i - 1] \o Clears(ev2[i], h2[i - 1], u2[i - 1])
  <2> SUFFICES ASSUME NEW i \in 1 .. (n + 1)
               PROVE  /\ h2[i] = HeldAfter(ev2[i], h2[i - 1])
                      /\ u2[i] = UsedAfter(ev2[i], h2[i - 1], u2[i - 1])
                      /\ c2[i] = c2[i - 1] \o Clears(ev2[i], h2[i - 1], u2[i - 1])
    OBVIOUS
  <2>1. CASE i \in 1 .. n
    <3>1. i \in 0 .. n /\ i - 1 \in 0 .. n
      BY <1>1, <2>1
    <3> QED
      BY <1>1, <1>2, <1>8, <2>1, <3>1
  <2>2. CASE i = n + 1
    <3>1. i - 1 = n
      BY <1>1, <2>2
    <3> QED
      BY <1>1, <1>8, <2>2, <3>1 DEF H, U, C
  <2>3. i \in 1 .. n \/ i = n + 1
    BY <1>1
  <2> QED
    BY <2>1, <2>2, <2>3
<1>10. \A i \in 0 .. (n + 1) : Prefix(c2[i], c2[n + 1])
  <2>1. Prefix(C, C)
    BY <1>4, PrefixSelf
  <2> SUFFICES ASSUME NEW i \in 0 .. (n + 1) PROVE Prefix(c2[i], C)
    BY <1>8
  <2>2. CASE i \in 0 .. n
    BY <1>4, <1>8, <2>2
  <2>3. CASE i = n + 1
    BY <1>8, <2>1, <2>3
  <2> QED
    BY <1>1, <2>2, <2>3
<1>11. Course(h2, u2, c2, ev2)
  BY <1>1, <1>5, <1>6, <1>7, <1>9, <1>10 DEF Course
<1>12. h2[0] = h[0] /\ u2[0] = u[0] /\ c2[0] = c[0]
  BY <1>1, <1>8
<1> QED
  BY <1>8, <1>11, <1>12 DEF n, ev2, H, U, C, Extended

\* A key event less.
Advanced(h, u, c, ev, h2, u2, c2) ==
    /\ Course(h2, u2, c2, Tail(ev))
    /\ h2[Len(ev) - 1] = h[Len(ev)] /\ u2[Len(ev) - 1] = u[Len(ev)]
    /\ c2[Len(ev) - 1] = c[Len(ev)]
    /\ h2[0] = HeldAfter(Head(ev), h[0]) /\ u2[0] = UsedAfter(Head(ev), h[0], u[0])
    /\ c2[0] = c[0] \o Clears(Head(ev), h[0], u[0])

\* Processing the first event takes the first state off the course.
LEMMA CourseAdvances ==
    ASSUME NEW ev \in Seq(Events), ev # <<>>, NEW h, NEW u, NEW c, Course(h, u, c, ev)
    PROVE  \E h2, u2, c2 : Advanced(h, u, c, ev, h2, u2, c2)
<1> DEFINE n == Len(ev)
           ev2 == Tail(ev)
           h2 == [i \in 0 .. (n - 1) |-> h[i + 1]]
           u2 == [i \in 0 .. (n - 1) |-> u[i + 1]]
           c2 == [i \in 0 .. (n - 1) |-> c[i + 1]]
<1>1. /\ n \in Nat /\ n >= 1 /\ Len(ev2) = n - 1 /\ ev[1] = Head(ev)
      /\ \A i \in 1 .. (n - 1) : ev2[i] = ev[i + 1]
  OBVIOUS
<1>2. /\ h \in [0 .. n -> BOOLEAN] /\ u \in [0 .. n -> BOOLEAN]
      /\ c \in [0 .. n -> Seq(Clearings)]
      /\ \A i \in 1 .. n : /\ h[i] = HeldAfter(ev[i], h[i - 1])
                           /\ u[i] = UsedAfter(ev[i], h[i - 1], u[i - 1])
                           /\ c[i] = c[i - 1] \o Clears(ev[i], h[i - 1], u[i - 1])
      /\ \A i \in 0 .. n : Prefix(c[i], c[n])
  BY DEF Course
<1> HIDE DEF n, ev2
<1>3. \A i \in 0 .. (n - 1) : i + 1 \in 0 .. n /\ i + 1 \in 1 .. n /\ (i + 1) - 1 = i
  BY <1>1
<1>4. h2 \in [0 .. (n - 1) -> BOOLEAN] /\ u2 \in [0 .. (n - 1) -> BOOLEAN]
  BY <1>2, <1>3
<1>5. c2 \in [0 .. (n - 1) -> Seq(Clearings)]
  BY <1>2, <1>3
<1>6. \A i \in 0 .. (n - 1) : h2[i] = h[i + 1] /\ u2[i] = u[i + 1] /\ c2[i] = c[i + 1]
  OBVIOUS
<1> HIDE DEF h2, u2, c2
<1>7. \A i \in 1 .. (n - 1) : /\ h2[i] = HeldAfter(ev2[i], h2[i - 1])
                              /\ u2[i] = UsedAfter(ev2[i], h2[i - 1], u2[i - 1])
                              /\ c2[i] = c2[i - 1] \o Clears(ev2[i], h2[i - 1], u2[i - 1])
  <2> SUFFICES ASSUME NEW i \in 1 .. (n - 1)
               PROVE  /\ h2[i] = HeldAfter(ev2[i], h2[i - 1])
                      /\ u2[i] = UsedAfter(ev2[i], h2[i - 1], u2[i - 1])
                      /\ c2[i] = c2[i - 1] \o Clears(ev2[i], h2[i - 1], u2[i - 1])
    OBVIOUS
  <2>1. /\ i \in 0 .. (n - 1) /\ i - 1 \in 0 .. (n - 1) /\ (i - 1) + 1 = i
        /\ i + 1 \in 1 .. n /\ (i + 1) - 1 = i
    BY <1>1
  <2>2. /\ h2[i] = h[i + 1] /\ u2[i] = u[i + 1] /\ c2[i] = c[i + 1]
        /\ h2[i - 1] = h[i] /\ u2[i - 1] = u[i] /\ c2[i - 1] = c[i]
    BY <1>6, <2>1
  <2>3. /\ h[i + 1] = HeldAfter(ev[i + 1], h[i])
        /\ u[i + 1] = UsedAfter(ev[i + 1], h[i], u[i])
        /\ c[i + 1] = c[i] \o Clears(ev[i + 1], h[i], u[i])
    BY <1>2, <2>1
  <2> QED
    BY <1>1, <2>2, <2>3
<1>8. n - 1 \in 0 .. (n - 1) /\ (n - 1) + 1 = n /\ 0 \in 0 .. (n - 1) /\ 0 + 1 = 1
      /\ 1 \in 1 .. n /\ 1 - 1 = 0
  BY <1>1
<1>9. /\ h2[n - 1] = h[n] /\ u2[n - 1] = u[n] /\ c2[n - 1] = c[n]
      /\ h2[0] = h[1] /\ u2[0] = u[1] /\ c2[0] = c[1]
  BY <1>6, <1>8
<1>10. \A i \in 0 .. (n - 1) : Prefix(c2[i], c2[n - 1])
  BY <1>2, <1>3, <1>6, <1>9
<1>11. Course(h2, u2, c2, ev2)
  BY <1>1, <1>4, <1>5, <1>7, <1>10 DEF Course
<1>12. /\ h[1] = HeldAfter(Head(ev), h[0]) /\ u[1] = UsedAfter(Head(ev), h[0], u[0])
       /\ c[1] = c[0] \o Clears(Head(ev), h[0], u[0])
  BY <1>1, <1>2, <1>8
<1> QED
  BY <1>9, <1>11, <1>12 DEF n, ev2, Advanced

\* The keys extend the course, and the processor follows it.
LEMMA ChordStep ==
    ASSUME Magic!MagicConstants, OneClearKey, ChordInv, [Magic!Next]_(Magic!vars)
    PROVE  ChordInv'
<1> DEFINE n == Len(key_events)
<1>t. /\ held \in BOOLEAN /\ used \in BOOLEAN /\ alone \in BOOLEAN
      /\ done \in Seq(Clearings) /\ asked \in Seq(Clearings)
      /\ key_events \in Seq(Events) /\ down \subseteq Keys
  BY DEF ChordInv
<1>p. PICK h, u, c : /\ Course(h, u, c, key_events)
                    /\ Starts(h, u, c, held, used, done)
                    /\ Ends(h, u, c, n, down, asked, alone)
  BY DEF ChordInv
<1>c. Course(h, u, c, key_events) /\ key_events \in Seq(Events)
  BY <1>t, <1>p
<1>q. /\ n \in Nat /\ h[n] \in BOOLEAN /\ u[n] \in BOOLEAN
      /\ Magic!ClearKeys \subseteq Keys
      /\ \A k \in Keys : ActionOf[k] \in Profiles \cup Controls
      /\ \A k \in Keys : k \in Magic!ClearKeys <=> ActionOf[k] = "clear"
  <2>1. n \in Nat /\ n \in 0 .. n
    BY <1>t
  <2> HIDE DEF n
  <2>2. Course(h, u, c, key_events) => h[n] \in BOOLEAN /\ u[n] \in BOOLEAN
    BY <2>1 DEF Course, n
  <2> QED
    BY <1>p, <2>1, <2>2 DEF Magic!MagicConstants, Magic!ClearKeys
<1>1. ASSUME NEW k \in Keys, Magic!Press(k) PROVE ChordInv'
  <2> DEFINE e == [pressed |-> TRUE, action |-> ActionOf[k]]
             chorded == ActionOf[k] \in Profiles /\ down \cap Magic!ClearKeys # {}
  <2>1. /\ key_events' = Append(key_events, e) /\ down' = down \cup {k}
        /\ asked' = IF chorded THEN Append(asked, ActionOf[k]) ELSE asked
        /\ alone' = (~ chorded /\ (alone \/ k \in Magic!ClearKeys))
        /\ held' = held /\ used' = used /\ done' = done
    BY <1>1 DEF Magic!Press
  <2>2. e \in Events /\ e.pressed = TRUE /\ e.action = ActionOf[k]
    BY <1>q DEF Events
  <2> HIDE DEF e
  <2>p. PICK h2, u2, c2 : Extended(h, u, c, key_events, e, h2, u2, c2)
    BY <1>c, <2>2, CourseExtends, Zenon
  <2>3. /\ Course(h2, u2, c2, Append(key_events, e))
        /\ h2[0] = h[0] /\ u2[0] = u[0] /\ c2[0] = c[0]
        /\ h2[n + 1] = HeldAfter(e, h[n]) /\ u2[n + 1] = UsedAfter(e, h[n], u[n])
        /\ c2[n + 1] = c[n] \o Clears(e, h[n], u[n])
    BY <2>p DEF Extended
  <2>4. Len(key_events') = n + 1 /\ key_events' \in Seq(Events)
    BY <1>t, <2>1, <2>2
  <2>5. h[n] <=> (down \cap Magic!ClearKeys # {})
    BY <1>p DEF Ends
  <2>6. c2[n + 1] = asked' /\ asked' \in Seq(Clearings)
    <3>1. c[n] = asked
      BY <1>p DEF Ends
    <3>2. CASE chorded
      <4>1. Clears(e, h[n], u[n]) = <<ActionOf[k]>>
        BY <2>2, <2>5, <3>2 DEF Clears
      <4>2. ActionOf[k] \in Clearings
        BY <3>2 DEF Clearings
      <4>3. asked' = Append(asked, ActionOf[k])
        BY <2>1, <3>2
      <4> HIDE DEF chorded
      <4> QED
        BY <1>t, <2>3, <3>1, <4>1, <4>2, <4>3, AppendIsConcat
    <3>3. CASE ~ chorded
      <4>1. Clears(e, h[n], u[n]) = <<>>
        BY <2>2, <2>5, <3>3 DEF Clears
      <4>2. asked' = asked
        BY <2>1, <3>3
      <4> HIDE DEF chorded
      <4> QED
        BY <1>t, <2>3, <3>1, <4>1, <4>2, ConcatEmptySeq
    <3> QED
      BY <3>2, <3>3
  <2>7. h2[n + 1] <=> (down' \cap Magic!ClearKeys # {})
    BY <1>q, <2>1, <2>2, <2>3, <2>5 DEF HeldAfter
  <2>8. h2[n + 1] => (alone' <=> ~ u2[n + 1])
    <3>1. u2[n + 1] = UsedAfter(e, h[n], u[n]) /\ h2[n + 1] = HeldAfter(e, h[n])
      BY <2>3
    <3>2. (h[n] => (alone <=> ~ u[n])) /\ (~ h[n] => ~ alone)
      BY <1>p DEF Ends
    <3>3. k \in Magic!ClearKeys => ActionOf[k] \notin Profiles /\ ActionOf[k] = "clear"
      BY <1>q DEF OneClearKey
    <3> QED
      BY <1>q, <1>t, <2>1, <2>2, <2>5, <3>1, <3>2, <3>3 DEF UsedAfter, HeldAfter
  <2>9. ~ h2[n + 1] => ~ alone'
    <3>1. h2[n + 1] = HeldAfter(e, h[n]) /\ (~ h[n] => ~ alone)
      BY <1>p, <2>3 DEF Ends
    <3> QED
      BY <1>q, <1>t, <2>1, <2>2, <2>5, <3>1 DEF HeldAfter
  <2>10. h2[0] = held' /\ u2[0] = used' /\ c2[0] = done'
    BY <1>p, <2>1, <2>3 DEF Starts
  <2>11. /\ Course(h2, u2, c2, key_events')
         /\ Starts(h2, u2, c2, held', used', done')
         /\ Ends(h2, u2, c2, Len(key_events'), down', asked', alone')
    BY <2>1, <2>3, <2>4, <2>6, <2>7, <2>8, <2>9, <2>10 DEF Starts, Ends
  <2>12. alone' \in BOOLEAN /\ down' \subseteq Keys
    BY <1>t, <2>1
  <2> QED
    BY <1>t, <2>1, <2>4, <2>6, <2>11, <2>12 DEF ChordInv
<1>2. ASSUME NEW k \in Keys, Magic!Release(k) PROVE ChordInv'
  <2> DEFINE e == [pressed |-> FALSE, action |-> ActionOf[k]]
             single == k \in Magic!ClearKeys /\ alone
  <2>1. /\ key_events' = Append(key_events, e) /\ down' = down \ {k} /\ k \in down
        /\ asked' = IF single THEN Append(asked, Magic!Active)
                    ELSE IF ActionOf[k] = "clear_all" THEN Append(asked, "all")
                    ELSE asked
        /\ alone' = (alone /\ k \notin Magic!ClearKeys)
        /\ held' = held /\ used' = used /\ done' = done
    BY <1>2 DEF Magic!Release
  <2>2. e \in Events /\ e.pressed = FALSE /\ e.action = ActionOf[k]
    BY <1>q DEF Events
  <2> HIDE DEF e
  <2>p. PICK h2, u2, c2 : Extended(h, u, c, key_events, e, h2, u2, c2)
    BY <1>c, <2>2, CourseExtends, Zenon
  <2>3. /\ Course(h2, u2, c2, Append(key_events, e))
        /\ h2[0] = h[0] /\ u2[0] = u[0] /\ c2[0] = c[0]
        /\ h2[n + 1] = HeldAfter(e, h[n]) /\ u2[n + 1] = UsedAfter(e, h[n], u[n])
        /\ c2[n + 1] = c[n] \o Clears(e, h[n], u[n])
    BY <2>p DEF Extended
  <2>4. Len(key_events') = n + 1 /\ key_events' \in Seq(Events)
    BY <1>t, <2>1, <2>2
  <2>5. /\ c[n] = asked /\ (h[n] <=> (down \cap Magic!ClearKeys # {}))
        /\ (h[n] => (alone <=> ~ u[n])) /\ (~ h[n] => ~ alone)
    BY <1>p DEF Ends
  <2>k. k \in Magic!ClearKeys => ActionOf[k] = "clear" /\ h[n]
    BY <1>q, <2>1, <2>5
  <2>6. c2[n + 1] = asked' /\ asked' \in Seq(Clearings)
    <3>1. CASE single
      <4>1. Clears(e, h[n], u[n]) = <<Magic!Active>>
        BY <1>t, <1>q, <2>2, <2>5, <2>k, <3>1 DEF Clears
      <4>2. Magic!Active \in Clearings
        BY DEF Clearings
      <4>3. asked' = Append(asked, Magic!Active)
        BY <2>1, <3>1
      <4> HIDE DEF single
      <4> QED
        BY <1>t, <2>3, <2>5, <4>1, <4>2, <4>3, AppendIsConcat
    <3>2. CASE ~ single /\ ActionOf[k] = "clear_all"
      <4>1. Clears(e, h[n], u[n]) = <<"all">>
        BY <2>2, <3>2 DEF Clears
      <4>2. "all" \in Clearings
        BY DEF Clearings
      <4>3. asked' = Append(asked, "all")
        BY <2>1, <3>2
      <4> HIDE DEF single
      <4> QED
        BY <1>t, <2>3, <2>5, <4>1, <4>2, <4>3, AppendIsConcat
    <3>3. CASE ~ single /\ ActionOf[k] # "clear_all"
      <4>1. Clears(e, h[n], u[n]) = <<>>
        BY <1>t, <1>q, <2>2, <2>5, <2>k, <3>3 DEF Clears
      <4>2. asked' = asked
        BY <2>1, <3>3
      <4> HIDE DEF single
      <4> QED
        BY <1>t, <2>3, <2>5, <4>1, <4>2, ConcatEmptySeq
    <3> QED
      BY <3>1, <3>2, <3>3
  <2>7. h2[n + 1] <=> (down' \cap Magic!ClearKeys # {})
    <3>1. CASE k \in Magic!ClearKeys
      <4>1. down' \cap Magic!ClearKeys = {}
        BY <1>t, <2>1, <3>1 DEF OneClearKey
      <4> QED
        BY <2>2, <2>3, <2>k, <3>1, <4>1 DEF HeldAfter
    <3>2. CASE k \notin Magic!ClearKeys
      <4>1. down' \cap Magic!ClearKeys = down \cap Magic!ClearKeys
        BY <2>1, <3>2
      <4> QED
        BY <1>q, <2>2, <2>3, <2>5, <3>2, <4>1 DEF HeldAfter
    <3> QED
      BY <3>1, <3>2
  <2>8. /\ h2[n + 1] => (alone' <=> ~ u2[n + 1])
        /\ ~ h2[n + 1] => ~ alone'
    <3>1. u2[n + 1] = UsedAfter(e, h[n], u[n]) /\ h2[n + 1] = HeldAfter(e, h[n])
      BY <2>3
    <3> QED
      BY <1>q, <1>t, <2>1, <2>2, <2>5, <3>1 DEF UsedAfter, HeldAfter
  <2>10. h2[0] = held' /\ u2[0] = used' /\ c2[0] = done'
    BY <1>p, <2>1, <2>3 DEF Starts
  <2>11. /\ Course(h2, u2, c2, key_events')
         /\ Starts(h2, u2, c2, held', used', done')
         /\ Ends(h2, u2, c2, Len(key_events'), down', asked', alone')
    BY <2>1, <2>3, <2>4, <2>6, <2>7, <2>8, <2>10 DEF Starts, Ends
  <2>12. alone' \in BOOLEAN /\ down' \subseteq Keys
    BY <1>t, <2>1
  <2> QED
    BY <1>t, <2>1, <2>4, <2>6, <2>11, <2>12 DEF ChordInv
<1>3. CASE Magic!ProcessKey
  <2> DEFINE e == Head(key_events)
  <2>1. key_events # <<>> /\ key_events' = Tail(key_events)
    BY <1>3 DEF Magic!ProcessKey
  <2>2. /\ held' = HeldAfter(e, held) /\ used' = UsedAfter(e, held, used)
        /\ down' = down /\ asked' = asked /\ alone' = alone
    BY <1>3 DEF Magic!ProcessKey, Magic!UsedAfter, Magic!hands, HeldAfter, UsedAfter
  <2>3. e \in Events /\ key_events' \in Seq(Events) /\ Len(key_events') = n - 1
    BY <1>t, <2>1, HeadTailProperties
  <2>4. done' = done \o Clears(e, held, used)
    <3> DEFINE chord == Magic!Cleared(e)
               all == IF ~ e.pressed /\ e.action = "clear_all" THEN <<"all">> ELSE <<>>
    <3>1. done' = done \o chord \o all
      BY <1>3 DEF Magic!ProcessKey
    <3> HIDE DEF e
    <3>2. chord \in Seq(Clearings) /\ all \in Seq(Clearings)
      <4>1. \/ \E x \in Clearings : chord = <<x>>
            \/ chord = <<>>
        BY DEF Magic!Cleared, Clearings
      <4>2. \A x \in Clearings : <<x>> \in Seq(Clearings)
        OBVIOUS
      <4>3. all \in Seq(Clearings)
        <5>1. "all" \in Clearings /\ <<>> \in Seq(Clearings)
          BY DEF Clearings
        <5>2. all = <<"all">> \/ all = <<>>
          OBVIOUS
        <5> HIDE DEF all
        <5> QED
          BY <4>2, <5>1, <5>2
      <4>4. chord \in Seq(Clearings)
        <5>1. <<>> \in Seq(Clearings)
          OBVIOUS
        <5> HIDE DEF chord
        <5> QED
          BY <4>1, <4>2, <5>1
      <4> QED
        BY <4>3, <4>4
    <3>3. CASE chord = <<>>
      <4>1. all = Clears(e, held, used)
        BY <3>3 DEF Magic!Cleared, Clears
      <4> HIDE DEF chord, all
      <4> QED
        BY <1>t, <3>1, <3>2, <3>3, <4>1, ConcatEmptySeq
    <3>4. CASE all = <<>>
      <4>1. chord = Clears(e, held, used)
        BY <3>4 DEF Magic!Cleared, Clears
      <4>2. done \o chord \in Seq(Clearings)
        BY <1>t, <3>2, ConcatProperties
      <4> HIDE DEF chord, all
      <4> QED
        BY <3>1, <3>4, <4>1, <4>2, ConcatEmptySeq
    <3>5. chord = <<>> \/ all = <<>>
      BY DEF Magic!Cleared
    <3> QED
      BY <3>3, <3>4, <3>5
  <2>p. PICK h2, u2, c2 : Advanced(h, u, c, key_events, h2, u2, c2)
    BY <1>c, <2>1, CourseAdvances, Zenon
  <2>5. /\ Course(h2, u2, c2, Tail(key_events))
        /\ h2[n - 1] = h[n] /\ u2[n - 1] = u[n] /\ c2[n - 1] = c[n]
        /\ h2[0] = HeldAfter(e, h[0]) /\ u2[0] = UsedAfter(e, h[0], u[0])
        /\ c2[0] = c[0] \o Clears(e, h[0], u[0])
    BY <2>p DEF Advanced
  <2>6. /\ Course(h2, u2, c2, key_events')
        /\ Starts(h2, u2, c2, held', used', done')
        /\ Ends(h2, u2, c2, Len(key_events'), down', asked', alone')
    BY <1>p, <2>1, <2>2, <2>3, <2>4, <2>5 DEF Starts, Ends
  <2>7. held' \in BOOLEAN /\ used' \in BOOLEAN /\ done' \in Seq(Clearings)
    BY <1>t, <2>2, <2>3, <2>4, ClearsTyped, ConcatProperties
  <2> QED
    BY <1>t, <2>2, <2>3, <2>6, <2>7 DEF ChordInv
<1>4. CASE UNCHANGED <<down, key_events, held, used, done, asked, alone>>
  BY <1>4, <1>t, <1>p DEF ChordInv
<1> QED
  BY <1>1, <1>2, <1>3, <1>4 DEF Magic!Next, Magic!vars, Magic!keyboard, Magic!hands,
     Magic!HostAsks, Magic!DispatcherReceives, Magic!DispatcherSends, Magic!OtherTraffic,
     Magic!Deliver, Magic!LinkChanges, Magic!PeripheralSeesEdge, Magic!PeripheralProcesses

\* The bonds that are cleared are those the keys asked for, in that order,
\* however far the processor is behind and whichever other keys are pressed and
\* released between. The one BleClearChord stands for what the hands hold only if
\* one key carries the clear action.
THEOREM MagicClearsWhatWasAsked ==
    ASSUME Magic!MagicConstants, OneClearKey
    PROVE  Magic!Spec => []ClearsWhatWasAsked
<1>1. Magic!Init => ChordInv
  <2> SUFFICES ASSUME Magic!Init PROVE ChordInv
    OBVIOUS
  <2> DEFINE f == [i \in 0 .. 0 |-> FALSE]
             c == [i \in 0 .. 0 |-> <<>>]
  <2>1. /\ held = FALSE /\ used = FALSE /\ alone = FALSE /\ done = <<>> /\ asked = <<>>
        /\ key_events = <<>> /\ down = {}
    BY DEF Magic!Init
  <2>2. <<>> \in Seq(Clearings) /\ <<>> \in Seq(Events) /\ Len(<<>>) = 0
    OBVIOUS
  <2>3. /\ f[0] = FALSE /\ c[0] = <<>>
        /\ f \in [0 .. 0 -> BOOLEAN] /\ c \in [0 .. 0 -> Seq(Clearings)]
    BY <2>2
  <2>4. Prefix(<<>>, <<>>)
    BY <2>2, PrefixSelf
  <2>5. Course(f, f, c, <<>>)
    <3>1. \A i \in 0 .. 0 : Prefix(c[i], c[0])
      BY <2>3, <2>4
    <3>2. 1 .. 0 = {}
      OBVIOUS
    <3> HIDE DEF f, c
    <3> QED
      BY <2>2, <2>3, <3>1, <3>2 DEF Course
  <2>6. Starts(f, f, c, held, used, done)
    BY <2>1, <2>3 DEF Starts
  <2>7. Ends(f, f, c, 0, down, asked, alone)
    BY <2>1, <2>3 DEF Ends
  <2> HIDE DEF f, c
  <2> QED
    BY <2>1, <2>2, <2>5, <2>6, <2>7 DEF ChordInv
<1>2. ChordInv => Magic!ClearsWhatWasAsked
  <2> SUFFICES ASSUME ChordInv PROVE Magic!IsPrefix(done, asked)
    BY DEF Magic!ClearsWhatWasAsked
  <2>1. PICK h, u, c : /\ Course(h, u, c, key_events)
                       /\ Starts(h, u, c, held, used, done)
                       /\ Ends(h, u, c, Len(key_events), down, asked, alone)
    BY DEF ChordInv
  <2>2. 0 \in 0 .. Len(key_events)
    BY DEF ChordInv
  <2>3. Prefix(c[0], c[Len(key_events)])
    BY <2>1, <2>2 DEF Course
  <2>4. Prefix(done, asked)
    BY <2>1, <2>3 DEF Starts, Ends
  <2> QED
    BY <2>4, PrefixIs DEF ChordInv
<1> QED
  BY <1>1, <1>2, ChordStep, PTL DEF Magic!Spec, ClearsWhatWasAsked

-----------------------------------------------------------------------------
(* ReactiveHits.                                                           *)

\* Where x is in the sequence s.
Places(s, x) == {i \in DOMAIN s : s[i] = x}

\* A sequence holds x finitely often.
LEMMA PlacesFinite ==
    ASSUME NEW S, NEW s \in Seq(S), NEW x
    PROVE  IsFiniteSet(Places(s, x)) /\ Cardinality(Places(s, x)) \in Nat
<1>1. DOMAIN s = 1 .. Len(s) /\ Len(s) \in Nat
  OBVIOUS
<1>2. IsFiniteSet(DOMAIN s) /\ Places(s, x) \in SUBSET DOMAIN s
  BY <1>1, FS_Interval DEF Places
<1> QED
  BY <1>2, FS_Subset, FS_CardinalityType

\* An append adds one to the count of what is appended.
LEMMA CountAppend ==
    ASSUME NEW S, NEW s \in Seq(S), NEW e \in S, NEW x
    PROVE  Cardinality(Places(Append(s, e), x))
             = Cardinality(Places(s, x)) + IF e = x THEN 1 ELSE 0
<1>1. /\ Append(s, e) \in Seq(S) /\ Len(Append(s, e)) = Len(s) + 1
      /\ DOMAIN s = 1 .. Len(s) /\ Len(s) \in Nat
      /\ DOMAIN Append(s, e) = 1 .. (Len(s) + 1)
      /\ \A i \in 1 .. Len(s) : Append(s, e)[i] = s[i]
      /\ Append(s, e)[Len(s) + 1] = e
  OBVIOUS
<1>2. IsFiniteSet(Places(s, x)) /\ Cardinality(Places(s, x)) \in Nat
  BY PlacesFinite
<1>3. CASE e = x
  <2>1. Places(Append(s, e), x) = Places(s, x) \cup {Len(s) + 1}
    BY <1>1, <1>3 DEF Places
  <2>2. Len(s) + 1 \notin Places(s, x)
    BY <1>1 DEF Places
  <2> QED
    BY <1>2, <1>3, <2>1, <2>2, FS_AddElement
<1>4. CASE e # x
  <2>1. Places(Append(s, e), x) = Places(s, x)
    BY <1>1, <1>4 DEF Places
  <2> QED
    BY <1>2, <1>4, <2>1
<1> QED
  BY <1>3, <1>4

\* Taking the head takes one from its count.
LEMMA CountTail ==
    ASSUME NEW S, NEW s \in Seq(S), s # <<>>, NEW x
    PROVE  Cardinality(Places(s, x))
             = Cardinality(Places(Tail(s), x)) + IF Head(s) = x THEN 1 ELSE 0
<1>1. /\ Tail(s) \in Seq(S) /\ Len(s) \in Nat /\ Len(s) > 0
      /\ DOMAIN s = 1 .. Len(s) /\ DOMAIN Tail(s) = 1 .. (Len(s) - 1)
      /\ \A i \in 1 .. (Len(s) - 1) : Tail(s)[i] = s[i + 1]
      /\ Head(s) = s[1]
  OBVIOUS
<1> DEFINE Rest == Places(s, x) \ {1}
           Back == [i \in Places(Tail(s), x) |-> i + 1]
<1>2. /\ IsFiniteSet(Places(s, x)) /\ Cardinality(Places(s, x)) \in Nat
      /\ IsFiniteSet(Places(Tail(s), x)) /\ Cardinality(Places(Tail(s), x)) \in Nat
  BY <1>1, PlacesFinite
<1>3. Back \in Bijection(Places(Tail(s), x), Rest)
  <2>1. \A i \in Places(Tail(s), x) : i \in Nat /\ Back[i] = i + 1 /\ i + 1 \in Rest
    BY <1>1 DEF Places
  <2>2. Back \in [Places(Tail(s), x) -> Rest]
    BY <2>1
  <2>3. \A j \in Rest : j \in Nat /\ j - 1 \in Places(Tail(s), x)
    BY <1>1 DEF Places
  <2>4. \A j \in Rest : \E i \in Places(Tail(s), x) : Back[i] = j
    <3> SUFFICES ASSUME NEW j \in Rest PROVE \E i \in Places(Tail(s), x) : Back[i] = j
      OBVIOUS
    <3>1. j - 1 \in Places(Tail(s), x) /\ Back[j - 1] = (j - 1) + 1 /\ j \in Nat
      BY <2>1, <2>3
    <3>2. (j - 1) + 1 = j
      BY <3>1
    <3> QED
      BY <3>1, <3>2
  <2>5. IsInjective(Back)
    <3>1. \A i, j \in Places(Tail(s), x) : Back[i] = Back[j] => i = j
      BY <2>1
    <3> QED
      BY <3>1 DEF IsInjective
  <2> HIDE DEF Back
  <2> QED
    BY <2>2, <2>4, <2>5 DEF Bijection, Injection, Surjection
<1>4. Cardinality(Rest) = Cardinality(Places(Tail(s), x))
  <2>1. ExistsBijection(Places(Tail(s), x), Rest)
    BY <1>3 DEF ExistsBijection
  <2> QED
    BY <1>2, <2>1, FS_Bijection
<1>5. 1 \in Places(s, x) <=> Head(s) = x
  BY <1>1 DEF Places
<1>6. Cardinality(Rest)
        = IF 1 \in Places(s, x) THEN Cardinality(Places(s, x)) - 1
          ELSE Cardinality(Places(s, x))
  BY <1>2, FS_RemoveElement
<1> QED
  BY <1>2, <1>4, <1>5, <1>6

\* What holds of every element still holds after an append or a tail.
LEMMA Elements ==
    ASSUME NEW S, NEW s \in Seq(S)
    PROVE  /\ \A e \in S : /\ Append(s, e) \in Seq(S)
                           /\ \A i \in DOMAIN Append(s, e) :
                                 Append(s, e)[i] = e \/ (i \in DOMAIN s /\ Append(s, e)[i] = s[i])
           /\ s # <<>> => /\ Head(s) \in S /\ Tail(s) \in Seq(S)
                           /\ 1 \in DOMAIN s /\ Head(s) = s[1]
                           /\ \A i \in DOMAIN Tail(s) :
                                 i + 1 \in DOMAIN s /\ Tail(s)[i] = s[i + 1]
<1>1. ASSUME NEW e \in S
      PROVE  /\ Append(s, e) \in Seq(S)
             /\ \A i \in DOMAIN Append(s, e) :
                   Append(s, e)[i] = e \/ (i \in DOMAIN s /\ Append(s, e)[i] = s[i])
  OBVIOUS
<1>2. ASSUME s # <<>>
      PROVE  /\ Head(s) \in S /\ Tail(s) \in Seq(S)
             /\ 1 \in DOMAIN s /\ Head(s) = s[1]
             /\ \A i \in DOMAIN Tail(s) : i + 1 \in DOMAIN s /\ Tail(s)[i] = s[i + 1]
  BY <1>2
<1> QED
  BY <1>1, <1>2

\* How often s holds x.
Count(s, x) == Cardinality(Places(s, x))

\* CountOf of the model is that count.
LEMMA CountsAre == \A s, x : Hits!CountOf(s, x) = Count(s, x)
<1>1. ASSUME NEW S PROVE Hits!Cardinality(S) = Cardinality(S)
  BY DEF Hits!Cardinality, Cardinality
<1>2. \A s, x : Hits!CountOf(s, x) = Hits!Cardinality(Places(s, x))
  BY DEF Hits!CountOf, Places
<1> QED
  BY <1>1, <1>2 DEF Count

\* What a queue's count is, and what appending and taking do to it.
LEMMA Counting ==
    ASSUME NEW S, NEW s \in Seq(S), NEW x
    PROVE  /\ Count(s, x) \in Nat
           /\ \A e \in S : Count(Append(s, e), x) = Count(s, x) + IF e = x THEN 1 ELSE 0
           /\ s # <<>> => Count(s, x) = Count(Tail(s), x) + IF Head(s) = x THEN 1 ELSE 0
           /\ Count(<<>>, x) = 0
<1>1. Places(<<>>, x) = {}
  BY DEF Places
<1>2. Count(<<>>, x) = 0
  BY <1>1, FS_EmptySet DEF Count
<1> QED
  BY <1>2, PlacesFinite, CountAppend, CountTail DEF Count

\* The hits of a key that one half's engine was given or refused.
HitsIn(given, dropped, h, c) == given[h][c] + dropped[h][c]

\* Types. The peripheral's bus holds columns of its half, as it scans them, and
\* the split link carries only keys of the right half.
HitTypes ==
    /\ pressed \in [Hits!Columns -> Nat]
    /\ bus \in [Hits!Halves -> Seq(Hits!Columns)]
    /\ split \in Seq(Hits!Columns) /\ hit_tx \in Seq(Hits!Columns \cup {Hits!Other})
    /\ recorded \in [Hits!Halves -> [Hits!Columns -> Nat]]
    /\ refused \in [Hits!Halves -> [Hits!Columns -> Nat]]
    /\ \A i \in DOMAIN bus["peripheral"] : bus["peripheral"][i] < Width
    /\ \A i \in DOMAIN split : split[i] >= Width

\* A key of the left half: each press has reached the central's engine, or was
\* refused there, or waits on its bus. Those past the bus have been mirrored at
\* most once.
LeftAt(c, p, given, dropped, b, t) ==
    /\ p[c] = HitsIn(given, dropped, "central", c) + Count(b["central"], c)
    /\ HitsIn(given, dropped, "peripheral", c) + Count(t, c) + Count(b["central"], c) <= p[c]

\* A key of the right half: the same of the peripheral, and what was sent over
\* the split link is in it, on the central's bus or past it.
RightAt(c, p, given, dropped, b, sp) ==
    /\ p[c] = HitsIn(given, dropped, "peripheral", c) + Count(b["peripheral"], c - Width)
    /\ HitsIn(given, dropped, "central", c) + Count(b["central"], c) + Count(sp, c) <= p[c]

\* For every key of the left half.
LeftInv ==
    \A c \in Hits!Columns : c < Width => LeftAt(c, pressed, recorded, refused, bus, hit_tx)

\* For every key of the right half.
RightInv ==
    \A c \in Hits!Columns : c >= Width => RightAt(c, pressed, recorded, refused, bus, split)

\* HIT_QUEUE.record gives or refuses exactly one hit of one slot.
LEMMA RecordAdds ==
    ASSUME HitTypes, NEW h \in Hits!Halves, NEW slot \in Hits!Columns, Hits!Record(h, slot)
    PROVE  /\ recorded' \in [Hits!Halves -> [Hits!Columns -> Nat]]
           /\ refused' \in [Hits!Halves -> [Hits!Columns -> Nat]]
           /\ \A g \in Hits!Halves : \A c \in Hits!Columns :
                 HitsIn(recorded', refused', g, c)
                   = HitsIn(recorded, refused, g, c) + IF g = h /\ c = slot THEN 1 ELSE 0
<1> USE DEF HitTypes, HitsIn
<1>1. CASE /\ recorded' = [recorded EXCEPT ![h][slot] = @ + 1]
           /\ UNCHANGED refused
  <2>1. \A g \in Hits!Halves : \A c \in Hits!Columns :
            recorded'[g][c] = recorded[g][c] + IF g = h /\ c = slot THEN 1 ELSE 0
    BY <1>1
  <2>2. recorded' \in [Hits!Halves -> [Hits!Columns -> Nat]]
    BY <1>1
  <2>3. \A g \in Hits!Halves : \A c \in Hits!Columns :
            refused'[g][c] = refused[g][c] /\ recorded[g][c] \in Nat /\ refused[g][c] \in Nat
    BY <1>1
  <2>4. \A g \in Hits!Halves : \A c \in Hits!Columns :
            HitsIn(recorded', refused', g, c)
              = HitsIn(recorded, refused, g, c) + IF g = h /\ c = slot THEN 1 ELSE 0
    <3> SUFFICES ASSUME NEW g \in Hits!Halves, NEW c \in Hits!Columns
                 PROVE  HitsIn(recorded', refused', g, c)
                          = HitsIn(recorded, refused, g, c) + IF g = h /\ c = slot THEN 1 ELSE 0
      OBVIOUS
    <3> DEFINE a == recorded[g][c]
               b == refused[g][c]
               d == IF g = h /\ c = slot THEN 1 ELSE 0
    <3>1. a \in Nat /\ b \in Nat /\ d \in Nat
      BY <2>3
    <3>2. recorded'[g][c] = a + d /\ refused'[g][c] = b /\ HitsIn(recorded, refused, g, c) = a + b
      BY <2>1, <2>3
    <3> HIDE DEF a, b, d
    <3>3. (a + d) + b = (a + b) + d
      BY <3>1
    <3>4. HitsIn(recorded', refused', g, c) = (a + d) + b
      BY <3>2
    <3>5. HitsIn(recorded', refused', g, c) = HitsIn(recorded, refused, g, c) + d
      BY <3>2, <3>3, <3>4
    <3> QED
      BY <3>5 DEF d
  <2> QED
    BY <1>1, <2>2, <2>4
<1>2. CASE /\ refused' = [refused EXCEPT ![h][slot] = @ + 1]
           /\ UNCHANGED recorded
  <2>1. \A g \in Hits!Halves : \A c \in Hits!Columns :
            refused'[g][c] = refused[g][c] + IF g = h /\ c = slot THEN 1 ELSE 0
    BY <1>2
  <2>2. refused' \in [Hits!Halves -> [Hits!Columns -> Nat]]
    BY <1>2
  <2>3. \A g \in Hits!Halves : \A c \in Hits!Columns :
            recorded'[g][c] = recorded[g][c] /\ recorded[g][c] \in Nat /\ refused[g][c] \in Nat
    BY <1>2
  <2>4. \A g \in Hits!Halves : \A c \in Hits!Columns :
            HitsIn(recorded', refused', g, c)
              = HitsIn(recorded, refused, g, c) + IF g = h /\ c = slot THEN 1 ELSE 0
    <3> SUFFICES ASSUME NEW g \in Hits!Halves, NEW c \in Hits!Columns
                 PROVE  HitsIn(recorded', refused', g, c)
                          = HitsIn(recorded, refused, g, c) + IF g = h /\ c = slot THEN 1 ELSE 0
      OBVIOUS
    <3> DEFINE a == recorded[g][c]
               b == refused[g][c]
               d == IF g = h /\ c = slot THEN 1 ELSE 0
    <3>1. a \in Nat /\ b \in Nat /\ d \in Nat
      BY <2>3
    <3>2. recorded'[g][c] = a /\ refused'[g][c] = b + d /\ HitsIn(recorded, refused, g, c) = a + b
      BY <2>1, <2>3
    <3> HIDE DEF a, b, d
    <3>3. a + (b + d) = (a + b) + d
      BY <3>1
    <3> QED
      BY <3>2, <3>3 DEF d
  <2> QED
    BY <1>2, <2>2, <2>4
<1> QED
  BY <1>1, <1>2 DEF Hits!Record

\* Every step keeps the types.
LEMMA HitTypesStep ==
    ASSUME Hits!WidthAssumption, HitTypes, [Hits!Next]_(Hits!vars)
    PROVE  HitTypes'
<1> USE DEF HitTypes
<1>0. Width \in Nat \ {0} /\ Hits!Columns = 0 .. (2 * Width - 1)
  BY DEF Hits!WidthAssumption, Hits!Columns
<1>h. Hits!Halves = {"central", "peripheral"}
  BY DEF Hits!Halves
<1>1. ASSUME NEW col \in Hits!Columns, Hits!Press(col) PROVE HitTypes'
  <2>1. /\ pressed' \in [Hits!Columns -> Nat] /\ UNCHANGED <<hit_tx, recorded, refused>>
    BY <1>1 DEF Hits!Press
  <2>2. CASE col < Width
    <3>1. bus' = [bus EXCEPT !["central"] = Append(@, col)] /\ UNCHANGED split
      BY <1>1, <2>2 DEF Hits!Press
    <3>2. bus' \in [Hits!Halves -> Seq(Hits!Columns)] /\ bus'["peripheral"] = bus["peripheral"]
      BY <1>h, <3>1
    <3> QED
      BY <2>1, <3>1, <3>2
  <2>3. CASE ~ (col < Width)
    <3>1. /\ bus' = [bus EXCEPT !["peripheral"] = Append(@, col - Width)]
          /\ split' = IF hit_link THEN Append(split, col) ELSE split
      BY <1>1, <2>3 DEF Hits!Press
    <3>2. col - Width \in Hits!Columns /\ col - Width < Width /\ col >= Width
      BY <1>0, <2>3
    <3>3. /\ bus' \in [Hits!Halves -> Seq(Hits!Columns)]
          /\ bus'["peripheral"] = Append(bus["peripheral"], col - Width)
      <4> DEFINE own == col - Width
      <4>1. own \in Hits!Columns
        BY <3>2
      <4>2. bus["peripheral"] \in Seq(Hits!Columns)
        BY <1>h
      <4>3. bus' = [bus EXCEPT !["peripheral"] = Append(bus["peripheral"], own)]
        BY <3>1
      <4> HIDE DEF own
      <4>4. Append(bus["peripheral"], own) \in Seq(Hits!Columns)
        BY <4>1, <4>2
      <4>5. /\ bus' \in [Hits!Halves -> Seq(Hits!Columns)]
            /\ bus'["peripheral"] = Append(bus["peripheral"], own)
        BY <1>h, <4>3, <4>4
      <4> QED
        BY <4>5 DEF own
    <3>4. \A i \in DOMAIN bus'["peripheral"] : bus'["peripheral"][i] < Width
      <4>1. bus["peripheral"] \in Seq(Hits!Columns)
        BY <1>h
      <4> DEFINE own == col - Width
      <4>2. own \in Hits!Columns /\ own < Width
        BY <3>2
      <4>3. bus'["peripheral"] = Append(bus["peripheral"], own)
        BY <3>3
      <4> HIDE DEF own
      <4>4. \A i \in DOMAIN Append(bus["peripheral"], own) :
               Append(bus["peripheral"], own)[i] = own
                 \/ (i \in DOMAIN bus["peripheral"]
                       /\ Append(bus["peripheral"], own)[i] = bus["peripheral"][i])
        <5> DEFINE b == bus["peripheral"]
        <5>1. b \in Seq(Hits!Columns)
          BY <4>1
        <5> HIDE DEF b
        <5>2. \A i \in DOMAIN Append(b, own) :
                 Append(b, own)[i] = own \/ (i \in DOMAIN b /\ Append(b, own)[i] = b[i])
          BY <4>2, <5>1, Elements
        <5> QED
          BY <5>2 DEF b
      <4> QED
        BY <4>2, <4>3, <4>4
    <3>5. split' \in Seq(Hits!Columns) /\ \A i \in DOMAIN split' : split'[i] >= Width
      <4>1. split' = split \/ split' = Append(split, col)
        BY <3>1
      <4>2. /\ Append(split, col) \in Seq(Hits!Columns)
            /\ \A i \in DOMAIN Append(split, col) :
                 Append(split, col)[i] = col
                   \/ (i \in DOMAIN split /\ Append(split, col)[i] = split[i])
        BY Elements
      <4> QED
        BY <3>2, <4>1, <4>2
    <3> QED
      BY <2>1, <3>3, <3>4, <3>5
  <2> QED
    BY <2>2, <2>3
<1>2. CASE Hits!Republish
  <2>1. /\ Head(split) \in Hits!Columns /\ Tail(split) \in Seq(Hits!Columns)
        /\ \A i \in DOMAIN Tail(split) : Tail(split)[i] >= Width
    BY <1>2, Elements DEF Hits!Republish
  <2>2. /\ bus' \in [Hits!Halves -> Seq(Hits!Columns)] /\ bus'["peripheral"] = bus["peripheral"]
    <3>1. bus' = [bus EXCEPT !["central"] = Append(@, Head(split))]
      BY <1>2 DEF Hits!Republish
    <3> QED
      BY <1>h, <2>1, <3>1
  <2> QED
    BY <1>2, <2>1, <2>2 DEF Hits!Republish
<1>3. ASSUME NEW h \in Hits!Halves, Hits!Hears(h) PROVE HitTypes'
  <2>1. /\ bus[h] # <<>> /\ bus' = [bus EXCEPT ![h] = Tail(@)]
        /\ UNCHANGED <<pressed, split>>
    BY <1>3 DEF Hits!Hears
  <2>2. bus' \in [Hits!Halves -> Seq(Hits!Columns)]
    BY <2>1
  <2>3. \A i \in DOMAIN bus'["peripheral"] : bus'["peripheral"][i] < Width
    <3>1. CASE h = "peripheral"
      <4>1. bus'["peripheral"] = Tail(bus["peripheral"])
        BY <1>h, <2>1, <3>1
      <4>2. bus["peripheral"] \in Seq(Hits!Columns) /\ bus["peripheral"] # <<>>
        BY <1>h, <2>1, <3>1
      <4>3. \A i \in DOMAIN Tail(bus["peripheral"]) :
               /\ i + 1 \in DOMAIN bus["peripheral"]
               /\ Tail(bus["peripheral"])[i] = bus["peripheral"][i + 1]
        BY <4>2, Elements
      <4> QED
        BY <4>1, <4>3
    <3>2. CASE h # "peripheral"
      <4>1. bus'["peripheral"] = bus["peripheral"]
        BY <1>h, <2>1, <3>2
      <4> QED
        BY <4>1
    <3> QED
      BY <3>1, <3>2
  <2>4. /\ recorded' \in [Hits!Halves -> [Hits!Columns -> Nat]]
        /\ refused' \in [Hits!Halves -> [Hits!Columns -> Nat]]
        /\ hit_tx' \in Seq(Hits!Columns \cup {Hits!Other})
    <3> DEFINE col == Head(bus[h]) + Hits!Config[h].col_offset
    <3>1. CASE ~ (col >= Hits!Config[h].first_col /\ col < Hits!Config[h].last_col)
      BY <1>3, <3>1 DEF Hits!Hears
    <3>2. CASE col >= Hits!Config[h].first_col /\ col < Hits!Config[h].last_col
      <4>1. /\ Hits!Record(h, col)
            /\ hit_tx' = IF Hits!Config[h].mirror /\ Hits!MayMirror(col)
                         THEN Append(hit_tx, col) ELSE hit_tx
        BY <1>3, <3>2 DEF Hits!Hears
      <4>2. Head(bus[h]) \in 0 .. (2 * Width - 1)
        BY <1>0, <2>1, Elements
      <4>3. /\ Hits!Config[h].col_offset \in {0, Width}
            /\ Hits!Config[h].last_col = 2 * Width
        BY <1>h DEF Hits!Config
      <4>4. \A k \in 0 .. (2 * Width - 1) : \A o \in {0, Width} :
               k + o < 2 * Width => k + o \in 0 .. (2 * Width - 1)
        BY <1>0
      <4>5. col < 2 * Width
        BY <3>2, <4>3
      <4>6. col \in Hits!Columns
        BY <1>0, <4>2, <4>3, <4>4, <4>5
      <4> HIDE DEF col
      <4> QED
        BY <4>1, <4>6, RecordAdds
    <3> QED
      BY <3>1, <3>2
  <2> QED
    BY <2>1, <2>2, <2>3, <2>4
<1>4. CASE Hits!QueueOther
  BY <1>4 DEF Hits!QueueOther
<1>5. CASE Hits!Deliver
  <2>1. /\ hit_tx # <<>> /\ hit_tx' = Tail(hit_tx) /\ UNCHANGED <<pressed, bus, split>>
        /\ hit_tx' \in Seq(Hits!Columns \cup {Hits!Other})
        /\ Head(hit_tx) \in Hits!Columns \cup {Hits!Other}
    BY <1>5 DEF Hits!Deliver
  <2>2. /\ recorded' \in [Hits!Halves -> [Hits!Columns -> Nat]]
        /\ refused' \in [Hits!Halves -> [Hits!Columns -> Nat]]
    <3>1. CASE Head(hit_tx) # Hits!Other /\ Head(hit_tx) < Hits!LedsPerHalf
      BY <1>5, <1>h, <2>1, <3>1, RecordAdds DEF Hits!Deliver
    <3>2. CASE ~ (Head(hit_tx) # Hits!Other /\ Head(hit_tx) < Hits!LedsPerHalf)
      BY <1>5, <3>2 DEF Hits!Deliver
    <3> QED
      BY <3>1, <3>2
  <2> QED
    BY <2>1, <2>2
<1>6. ASSUME NEW h \in Hits!Halves, Hits!Render(h) PROVE HitTypes'
  BY <1>6 DEF Hits!Render
<1>7. CASE Hits!LinkChanges
  BY <1>7 DEF Hits!LinkChanges
<1>8. CASE UNCHANGED Hits!vars
  BY <1>8 DEF Hits!vars
<1> QED
  BY <1>1, <1>2, <1>3, <1>4, <1>5, <1>6, <1>7, <1>8 DEF Hits!Next

\* The inductive invariant. The property itself is not one: it does not say that
\* the two buses and the split link only carry keys of their halves.
HitInv == HitTypes /\ LeftInv /\ RightInv

\* What a step takes from a queue it gives to the next: it follows each queue's
\* count for one key.
LEMMA HitInvStep ==
    ASSUME Hits!WidthAssumption, HitInv, [Hits!Next]_(Hits!vars)
    PROVE  LeftInv' /\ RightInv'
<1>0. Width \in Nat \ {0} /\ Hits!Columns = 0 .. (2 * Width - 1)
  BY DEF Hits!WidthAssumption, Hits!Columns
<1>h. Hits!Halves = {"central", "peripheral"}
  BY DEF Hits!Halves
<1>t. /\ HitTypes /\ LeftInv /\ RightInv
      /\ pressed \in [Hits!Columns -> Nat] /\ bus \in [Hits!Halves -> Seq(Hits!Columns)]
      /\ bus["central"] \in Seq(Hits!Columns) /\ bus["peripheral"] \in Seq(Hits!Columns)
      /\ split \in Seq(Hits!Columns) /\ hit_tx \in Seq(Hits!Columns \cup {Hits!Other})
      /\ recorded \in [Hits!Halves -> [Hits!Columns -> Nat]]
      /\ refused \in [Hits!Halves -> [Hits!Columns -> Nat]]
      /\ \A i \in DOMAIN bus["peripheral"] : bus["peripheral"][i] < Width
      /\ \A i \in DOMAIN split : split[i] >= Width
  BY <1>h DEF HitInv, HitTypes
<1>w. Width \in Int
  BY <1>0
<1>n. \A c \in Hits!Columns :
        /\ c \in Int /\ pressed[c] \in Nat
        /\ HitsIn(recorded, refused, "central", c) \in Nat
        /\ HitsIn(recorded, refused, "peripheral", c) \in Nat
        /\ Count(bus["central"], c) \in Nat /\ Count(hit_tx, c) \in Nat
        /\ Count(bus["peripheral"], c - Width) \in Nat /\ Count(split, c) \in Nat
  <2>1. \A c : /\ Count(bus["central"], c) \in Nat /\ Count(bus["peripheral"], c) \in Nat
               /\ Count(split, c) \in Nat /\ Count(hit_tx, c) \in Nat
    BY <1>t, Counting
  <2>2. \A c \in Hits!Columns : /\ pressed[c] \in Nat
                                /\ HitsIn(recorded, refused, "central", c) \in Nat
                                /\ HitsIn(recorded, refused, "peripheral", c) \in Nat
    BY <1>t, <1>h DEF HitsIn
  <2>3. \A c \in Hits!Columns : c \in Int
    BY <1>0
  <2> QED
    BY <2>1, <2>2, <2>3
<1>1. ASSUME NEW col \in Hits!Columns, Hits!Press(col) PROVE LeftInv' /\ RightInv'
  <2>1. /\ pressed' = [pressed EXCEPT ![col] = @ + 1] /\ hit_tx' = hit_tx
        /\ \A h, c : HitsIn(recorded', refused', h, c) = HitsIn(recorded, refused, h, c)
    BY <1>1 DEF Hits!Press, HitsIn
  <2>2. \A c \in Hits!Columns : pressed'[c] = pressed[c] + IF c = col THEN 1 ELSE 0
    BY <1>t, <2>1
  <2>3. CASE col < Width
    <3>1. bus' = [bus EXCEPT !["central"] = Append(@, col)] /\ split' = split
      BY <1>1, <2>3 DEF Hits!Press
    <3>2. bus'["central"] = Append(bus["central"], col) /\ bus'["peripheral"] = bus["peripheral"]
      BY <1>t, <1>h, <3>1
    <3>3. \A c : Count(bus'["central"], c) = Count(bus["central"], c) + IF col = c THEN 1 ELSE 0
      BY <1>t, <3>2, Counting
    <3>4. LeftInv'
      <4> SUFFICES ASSUME NEW c \in Hits!Columns, c < Width
                   PROVE  LeftAt(c, pressed', recorded', refused', bus', hit_tx')
        BY DEF LeftInv
      <4>1. LeftAt(c, pressed, recorded, refused, bus, hit_tx)
        BY <1>t DEF LeftInv
      <4> QED
        BY <4>1, <1>n, <2>1, <2>2, <3>3 DEF LeftAt
    <3>5. RightInv'
      <4> SUFFICES ASSUME NEW c \in Hits!Columns, c >= Width
                   PROVE  RightAt(c, pressed', recorded', refused', bus', split')
        BY DEF RightInv
      <4>1. RightAt(c, pressed, recorded, refused, bus, split)
        BY <1>t DEF RightInv
      <4>2. c # col
        BY <1>n, <1>w, <2>3
      <4>3. Count(bus'["central"], c) = Count(bus["central"], c)
        BY <1>n, <3>3, <4>2
      <4> QED
        BY <4>1, <4>2, <4>3, <1>n, <2>1, <2>2, <3>1, <3>2 DEF RightAt
    <3> QED
      BY <3>4, <3>5
  <2>4. CASE ~ (col < Width)
    <3>1. /\ bus' = [bus EXCEPT !["peripheral"] = Append(@, col - Width)]
          /\ split' = IF hit_link THEN Append(split, col) ELSE split
      BY <1>1, <2>4 DEF Hits!Press
    <3> DEFINE own == col - Width
    <3>2. /\ bus'["peripheral"] = Append(bus["peripheral"], own)
          /\ bus'["central"] = bus["central"]
      BY <1>t, <1>h, <3>1
    <3>3. own \in Hits!Columns
      BY <1>0, <2>4
    <3>o. \A c \in Hits!Columns : own = c - Width <=> c = col
      BY <1>0
    <3> HIDE DEF own
    <3>4. \A c : Count(bus'["peripheral"], c)
                  = Count(bus["peripheral"], c) + IF own = c THEN 1 ELSE 0
      <4>1. bus["peripheral"] \in Seq(Hits!Columns)
        BY <1>t
      <4>2. \A c : Count(Append(bus["peripheral"], own), c)
                     = Count(bus["peripheral"], c) + IF own = c THEN 1 ELSE 0
        BY <3>3, <4>1, Counting
      <4> QED
        BY <3>2, <4>2
    <3>5. \A c \in Hits!Columns :
             /\ Count(split', c) \in Nat
             /\ Count(split', c) <= Count(split, c) + IF col = c THEN 1 ELSE 0
      <4>1. \A c : Count(Append(split, col), c) = Count(split, c) + IF col = c THEN 1 ELSE 0
        BY <1>t, Counting
      <4>2. \A c \in Hits!Columns : Count(split, c) \in Nat
        BY <1>n
      <4>3. CASE split' = split
        BY <4>2, <4>3
      <4>4. CASE split' = Append(split, col)
        BY <4>1, <4>2, <4>4
      <4> QED
        BY <3>1, <4>3, <4>4
    <3>6. LeftInv'
      <4> SUFFICES ASSUME NEW c \in Hits!Columns, c < Width
                   PROVE  LeftAt(c, pressed', recorded', refused', bus', hit_tx')
        BY DEF LeftInv
      <4>1. LeftAt(c, pressed, recorded, refused, bus, hit_tx)
        BY <1>t DEF LeftInv
      <4>2. c # col
        BY <1>n, <1>w, <2>4
      <4> QED
        BY <4>1, <4>2, <1>n, <2>1, <2>2, <3>2 DEF LeftAt
    <3>7. RightInv'
      <4> SUFFICES ASSUME NEW c \in Hits!Columns, c >= Width
                   PROVE  RightAt(c, pressed', recorded', refused', bus', split')
        BY DEF RightInv
      <4>1. RightAt(c, pressed, recorded, refused, bus, split)
        BY <1>t DEF RightInv
      <4>2. Count(bus'["peripheral"], c - Width)
              = Count(bus["peripheral"], c - Width) + IF c = col THEN 1 ELSE 0
        BY <3>o, <3>4
      <4>3. /\ Count(split', c) \in Nat
            /\ Count(split', c) <= Count(split, c) + IF c = col THEN 1 ELSE 0
        BY <3>5
      <4>4. pressed'[c] = pressed[c] + IF c = col THEN 1 ELSE 0
        BY <2>2
      <4>5. /\ HitsIn(recorded', refused', "central", c) = HitsIn(recorded, refused, "central", c)
            /\ HitsIn(recorded', refused', "peripheral", c)
                 = HitsIn(recorded, refused, "peripheral", c)
        BY <2>1
      <4>6. Count(bus'["central"], c) = Count(bus["central"], c)
        BY <3>2
      <4> QED
        BY <4>1, <4>2, <4>3, <4>4, <4>5, <4>6, <1>n DEF RightAt
    <3> QED
      BY <3>6, <3>7
  <2> QED
    BY <2>3, <2>4
<1>2. CASE Hits!Republish
  <2> DEFINE e == Head(split)
  <2>1. /\ split # <<>> /\ bus' = [bus EXCEPT !["central"] = Append(@, e)]
        /\ split' = Tail(split) /\ pressed' = pressed /\ hit_tx' = hit_tx
        /\ \A h, c : HitsIn(recorded', refused', h, c) = HitsIn(recorded, refused, h, c)
    BY <1>2 DEF Hits!Republish, HitsIn
  <2>2. e \in Hits!Columns /\ e >= Width
    BY <1>t, <2>1, Elements
  <2>3. /\ bus'["central"] = Append(bus["central"], e)
        /\ bus'["peripheral"] = bus["peripheral"]
    BY <1>t, <1>h, <2>1
  <2>5. \A c : Count(split, c) = Count(split', c) + IF e = c THEN 1 ELSE 0
    BY <1>t, <2>1, Counting
  <2> HIDE DEF e
  <2>4. \A c : Count(bus'["central"], c)
                = Count(bus["central"], c) + IF e = c THEN 1 ELSE 0
    BY <1>t, <2>2, <2>3, Counting
  <2>6. \A c : Count(split', c) \in Nat
    BY <1>t, <2>1, Elements, Counting
  <2>7. LeftInv'
    <3> SUFFICES ASSUME NEW c \in Hits!Columns, c < Width
                 PROVE  LeftAt(c, pressed', recorded', refused', bus', hit_tx')
      BY DEF LeftInv
    <3>1. LeftAt(c, pressed, recorded, refused, bus, hit_tx)
      BY <1>t DEF LeftInv
    <3>2. c # e
      BY <1>n, <1>w, <2>2
    <3>3. Count(bus'["central"], c) = Count(bus["central"], c)
      BY <1>n, <2>4, <3>2
    <3> QED
      BY <3>1, <3>3, <1>n, <2>1 DEF LeftAt
  <2>8. RightInv'
    <3> SUFFICES ASSUME NEW c \in Hits!Columns, c >= Width
                 PROVE  RightAt(c, pressed', recorded', refused', bus', split')
      BY DEF RightInv
    <3>1. RightAt(c, pressed, recorded, refused, bus, split)
      BY <1>t DEF RightInv
    <3>2. CASE c = e
      BY <3>1, <3>2, <1>n, <2>1, <2>3, <2>4, <2>5, <2>6 DEF RightAt
    <3>3. CASE c # e
      <4>1. /\ Count(bus'["central"], c) = Count(bus["central"], c)
            /\ Count(split', c) = Count(split, c)
        BY <3>3, <1>n, <2>4, <2>5, <2>6
      <4> QED
        BY <3>1, <4>1, <1>n, <2>1, <2>3 DEF RightAt
    <3> QED
      BY <3>2, <3>3
  <2> QED
    BY <2>7, <2>8
<1>3. ASSUME Hits!Hears("central") PROVE LeftInv' /\ RightInv'
  <2> DEFINE col == Head(bus["central"])
  <2>1. /\ bus["central"] # <<>> /\ bus' = [bus EXCEPT !["central"] = Tail(@)]
        /\ pressed' = pressed /\ split' = split
    BY <1>3 DEF Hits!Hears
  <2>2. bus'["central"] = Tail(bus["central"]) /\ bus'["peripheral"] = bus["peripheral"]
    BY <1>t, <1>h, <2>1
  <2>3. /\ Hits!Config["central"].col_offset = 0 /\ Hits!Config["central"].first_col = 0
        /\ Hits!Config["central"].last_col = 2 * Width /\ Hits!Config["central"].mirror = TRUE
    BY DEF Hits!Config
  <2>4. col \in 0 .. (2 * Width - 1) /\ col + 0 = col
    <3>1. col \in Hits!Columns
      BY <1>t, <2>1, Elements
    <3> HIDE DEF col
    <3> QED
      BY <1>0, <3>1
  <2>5. /\ Hits!Record("central", col)
        /\ hit_tx' = IF Hits!MayMirror(col) THEN Append(hit_tx, col) ELSE hit_tx
    <3>1. /\ col + 0 >= 0 /\ col + 0 < 2 * Width
      BY <1>0, <2>4
    <3> HIDE DEF col
    <3>2. /\ Hits!Record("central", col + 0)
          /\ hit_tx' = IF Hits!MayMirror(col + 0) THEN Append(hit_tx, col + 0) ELSE hit_tx
      BY <1>3, <2>3, <3>1 DEF Hits!Hears, col
    <3> QED
      BY <2>4, <3>2
  <2>6. \A c \in Hits!Columns :
          /\ HitsIn(recorded', refused', "central", c)
               = HitsIn(recorded, refused, "central", c) + IF c = col THEN 1 ELSE 0
          /\ HitsIn(recorded', refused', "peripheral", c)
               = HitsIn(recorded, refused, "peripheral", c)
    <3>1. col \in Hits!Columns /\ "central" \in Hits!Halves
      BY <1>0, <1>h, <2>4
    <3> HIDE DEF col
    <3>9. \A g \in Hits!Halves : \A c \in Hits!Columns :
             HitsIn(recorded', refused', g, c)
               = HitsIn(recorded, refused, g, c) + IF g = "central" /\ c = col THEN 1 ELSE 0
      BY <1>t, <2>5, <3>1, RecordAdds
    <3> QED
      BY <1>h, <1>n, <3>9
  <2>7. \A c : Count(bus["central"], c) = Count(bus'["central"], c) + IF col = c THEN 1 ELSE 0
    <3>1. \A c : Count(bus["central"], c)
                  = Count(Tail(bus["central"]), c) + IF col = c THEN 1 ELSE 0
      <4> DEFINE b == bus["central"]
      <4>1. b \in Seq(Hits!Columns) /\ b # <<>> /\ col = Head(b)
        BY <1>t, <2>1
      <4> HIDE DEF b, col
      <4>2. \A c : Count(b, c) = Count(Tail(b), c) + IF Head(b) = c THEN 1 ELSE 0
        BY <4>1, Counting
      <4> QED
        BY <4>1, <4>2 DEF b
    <3> QED
      BY <2>2, <3>1
  <2>8. \A c : Count(bus'["central"], c) \in Nat
    BY <1>t, <2>1, <2>2, Elements, Counting
  <2>9. \A c \in Hits!Columns :
           /\ Count(hit_tx', c) \in Nat
           /\ Count(hit_tx', c) <= Count(hit_tx, c) + IF col = c THEN 1 ELSE 0
    <3>1. col \in Hits!Columns \cup {Hits!Other}
      BY <1>0, <2>4
    <3>2. \A c : Count(Append(hit_tx, col), c) = Count(hit_tx, c) + IF col = c THEN 1 ELSE 0
      BY <1>t, <3>1, Counting
    <3> HIDE DEF col
    <3> QED
      BY <1>n, <2>5, <3>2
  <2> HIDE DEF col
  <2>10. LeftInv'
    <3> SUFFICES ASSUME NEW c \in Hits!Columns, c < Width
                 PROVE  LeftAt(c, pressed', recorded', refused', bus', hit_tx')
      BY DEF LeftInv
    <3>1. LeftAt(c, pressed, recorded, refused, bus, hit_tx)
      BY <1>t DEF LeftInv
    <3>2. CASE c = col
      <4>1. Count(bus["central"], c) = Count(bus'["central"], c) + 1
        BY <3>2, <2>7
      <4>2. Count(hit_tx', c) \in Nat /\ Count(hit_tx', c) <= Count(hit_tx, c) + 1
        BY <3>2, <2>9
      <4>3. HitsIn(recorded', refused', "central", c) = HitsIn(recorded, refused, "central", c) + 1
        BY <3>2, <2>6
      <4>4. /\ HitsIn(recorded', refused', "peripheral", c)
                  = HitsIn(recorded, refused, "peripheral", c)
            /\ pressed'[c] = pressed[c]
        BY <2>1, <2>6
      <4>5. /\ pressed[c] \in Nat /\ Count(bus'["central"], c) \in Nat
            /\ HitsIn(recorded, refused, "central", c) \in Nat
            /\ HitsIn(recorded, refused, "peripheral", c) \in Nat
            /\ Count(hit_tx, c) \in Nat
        BY <1>n, <2>8
      <4> QED
        BY <3>1, <4>1, <4>2, <4>3, <4>4, <4>5 DEF LeftAt
    <3>3. CASE c # col
      <4>1. Count(bus'["central"], c) = Count(bus["central"], c)
        BY <3>3, <2>7, <2>8
      <4>2. Count(hit_tx', c) \in Nat /\ Count(hit_tx', c) <= Count(hit_tx, c)
        BY <3>3, <1>n, <2>9
      <4> QED
        BY <3>1, <3>3, <4>1, <4>2, <1>n, <2>1, <2>6 DEF LeftAt
    <3> QED
      BY <3>2, <3>3
  <2>11. RightInv'
    <3> SUFFICES ASSUME NEW c \in Hits!Columns, c >= Width
                 PROVE  RightAt(c, pressed', recorded', refused', bus', split')
      BY DEF RightInv
    <3>1. RightAt(c, pressed, recorded, refused, bus, split)
      BY <1>t DEF RightInv
    <3>2. /\ pressed'[c] = pressed[c] /\ split' = split
          /\ bus'["peripheral"] = bus["peripheral"]
          /\ HitsIn(recorded', refused', "peripheral", c)
               = HitsIn(recorded, refused, "peripheral", c)
      BY <2>1, <2>2, <2>6
    <3>3. /\ HitsIn(recorded, refused, "central", c) \in Nat /\ Count(split, c) \in Nat
          /\ Count(bus'["central"], c) \in Nat /\ pressed[c] \in Nat
      BY <1>n, <2>8
    <3>4. HitsIn(recorded', refused', "central", c) + Count(bus'["central"], c)
            = HitsIn(recorded, refused, "central", c) + Count(bus["central"], c)
      <4>1. CASE c = col
        BY <2>6, <2>7, <3>3, <4>1
      <4>2. CASE c # col
        BY <2>6, <2>7, <3>3, <4>2
      <4> QED
        BY <4>1, <4>2
    <3> QED
      BY <3>1, <3>2, <3>4 DEF RightAt
  <2> QED
    BY <2>10, <2>11
<1>4. ASSUME Hits!Hears("peripheral") PROVE LeftInv' /\ RightInv'
  <2> DEFINE own == Head(bus["peripheral"])
             col == own + Width
  <2>1. /\ bus["peripheral"] # <<>> /\ bus' = [bus EXCEPT !["peripheral"] = Tail(@)]
        /\ pressed' = pressed /\ split' = split
    BY <1>4 DEF Hits!Hears
  <2>2. bus'["peripheral"] = Tail(bus["peripheral"]) /\ bus'["central"] = bus["central"]
    BY <1>t, <1>h, <2>1
  <2>3. /\ Hits!Config["peripheral"].col_offset = Width
        /\ Hits!Config["peripheral"].first_col = Width
        /\ Hits!Config["peripheral"].last_col = 2 * Width
        /\ Hits!Config["peripheral"].mirror = FALSE
    BY DEF Hits!Config
  <2>4. own \in 0 .. (2 * Width - 1) /\ own < Width
    <3>1. own \in Hits!Columns /\ own < Width
      BY <1>t, <2>1, Elements
    <3> HIDE DEF own
    <3> QED
      BY <1>0, <3>1
  <2>5. Hits!Record("peripheral", col) /\ hit_tx' = hit_tx
    <3>1. col >= Width /\ col < 2 * Width
      BY <1>0, <2>4
    <3> HIDE DEF col
    <3> QED
      BY <1>4, <2>3, <3>1 DEF Hits!Hears, col
  <2>6. col \in Hits!Columns /\ "peripheral" \in Hits!Halves /\ col >= Width
    BY <1>0, <1>h, <2>4
  <2>7. \A c \in Hits!Columns :
          /\ HitsIn(recorded', refused', "peripheral", c)
               = HitsIn(recorded, refused, "peripheral", c) + IF c = col THEN 1 ELSE 0
          /\ HitsIn(recorded', refused', "central", c)
               = HitsIn(recorded, refused, "central", c)
    <3> HIDE DEF col
    <3>9. \A g \in Hits!Halves : \A c \in Hits!Columns :
             HitsIn(recorded', refused', g, c)
               = HitsIn(recorded, refused, g, c) + IF g = "peripheral" /\ c = col THEN 1 ELSE 0
      BY <1>t, <2>5, <2>6, RecordAdds
    <3> QED
      BY <1>h, <1>n, <3>9
  <2>8. \A c : Count(bus["peripheral"], c)
                = Count(bus'["peripheral"], c) + IF own = c THEN 1 ELSE 0
    <3> DEFINE b == bus["peripheral"]
    <3>1. b \in Seq(Hits!Columns) /\ b # <<>> /\ own = Head(b)
      BY <1>t, <2>1
    <3> HIDE DEF b, own
    <3>2. \A c : Count(b, c) = Count(Tail(b), c) + IF Head(b) = c THEN 1 ELSE 0
      BY <3>1, Counting
    <3> QED
      BY <2>2, <3>1, <3>2 DEF b
  <2>9. \A c : Count(bus'["peripheral"], c) \in Nat
    BY <1>t, <2>1, <2>2, Elements, Counting
  <2>10. \A c \in Hits!Columns : c = col <=> own = c - Width
    BY <1>0, <2>4
  <2> HIDE DEF own, col
  <2>11. LeftInv'
    <3> SUFFICES ASSUME NEW c \in Hits!Columns, c < Width
                 PROVE  LeftAt(c, pressed', recorded', refused', bus', hit_tx')
      BY DEF LeftInv
    <3>1. LeftAt(c, pressed, recorded, refused, bus, hit_tx)
      BY <1>t DEF LeftInv
    <3>2. c # col
      BY <1>n, <1>w, <2>6
    <3>3. HitsIn(recorded', refused', "peripheral", c) = HitsIn(recorded, refused, "peripheral", c)
      BY <1>n, <2>7, <3>2
    <3> QED
      BY <3>1, <3>3, <1>n, <2>1, <2>2, <2>5, <2>7 DEF LeftAt
  <2>12. RightInv'
    <3> SUFFICES ASSUME NEW c \in Hits!Columns, c >= Width
                 PROVE  RightAt(c, pressed', recorded', refused', bus', split')
      BY DEF RightInv
    <3>1. RightAt(c, pressed, recorded, refused, bus, split)
      BY <1>t DEF RightInv
    <3>2. /\ pressed'[c] = pressed[c] /\ split' = split
          /\ bus'["central"] = bus["central"]
          /\ HitsIn(recorded', refused', "central", c) = HitsIn(recorded, refused, "central", c)
      BY <2>1, <2>2, <2>7
    <3>3. /\ HitsIn(recorded, refused, "peripheral", c) \in Nat
          /\ Count(bus'["peripheral"], c - Width) \in Nat
      BY <1>n, <2>9
    <3>4. HitsIn(recorded', refused', "peripheral", c) + Count(bus'["peripheral"], c - Width)
            = HitsIn(recorded, refused, "peripheral", c) + Count(bus["peripheral"], c - Width)
      <4>1. CASE c = col
        BY <2>7, <2>8, <2>10, <3>3, <4>1
      <4>2. CASE c # col
        BY <2>7, <2>8, <2>10, <3>3, <4>2
      <4> QED
        BY <4>1, <4>2
    <3> QED
      BY <3>1, <3>2, <3>4 DEF RightAt
  <2> QED
    BY <2>11, <2>12
<1>5. CASE Hits!QueueOther
  <2>1. /\ hit_tx' = Append(hit_tx, Hits!Other) /\ bus' = bus /\ split' = split
        /\ pressed' = pressed
        /\ \A h, c : HitsIn(recorded', refused', h, c) = HitsIn(recorded, refused, h, c)
    BY <1>5 DEF Hits!QueueOther, HitsIn
  <2>2. \A c \in Hits!Columns : Count(hit_tx', c) = Count(hit_tx, c)
    <3>1. \A c : Count(hit_tx', c) = Count(hit_tx, c) + IF Hits!Other = c THEN 1 ELSE 0
      BY <1>t, <2>1, Counting
    <3>2. \A c \in Hits!Columns : Hits!Other # c
      BY <1>0 DEF Hits!Other
    <3> QED
      BY <1>n, <3>1, <3>2
  <2>3. LeftInv'
    <3> SUFFICES ASSUME NEW c \in Hits!Columns, c < Width
                 PROVE  LeftAt(c, pressed', recorded', refused', bus', hit_tx')
      BY DEF LeftInv
    <3>1. LeftAt(c, pressed, recorded, refused, bus, hit_tx)
      BY <1>t DEF LeftInv
    <3> QED
      BY <3>1, <1>n, <2>1, <2>2 DEF LeftAt
  <2>4. RightInv'
    <3> SUFFICES ASSUME NEW c \in Hits!Columns, c >= Width
                 PROVE  RightAt(c, pressed', recorded', refused', bus', split')
      BY DEF RightInv
    <3>1. RightAt(c, pressed, recorded, refused, bus, split)
      BY <1>t DEF RightInv
    <3> QED
      BY <3>1, <1>n, <2>1 DEF RightAt
  <2> QED
    BY <2>3, <2>4
<1>6. CASE Hits!Deliver
  <2> DEFINE e == Head(hit_tx)
  <2>1. /\ hit_tx # <<>> /\ hit_tx' = Tail(hit_tx) /\ bus' = bus /\ split' = split
        /\ pressed' = pressed
    BY <1>6 DEF Hits!Deliver
  <2>2. \A c : Count(hit_tx, c) = Count(hit_tx', c) + IF e = c THEN 1 ELSE 0
    BY <1>t, <2>1, Counting
  <2>3. \A c : Count(hit_tx', c) \in Nat
    BY <1>t, <2>1, Elements, Counting
  <2>4. e \in Hits!Columns \cup {Hits!Other}
    BY <1>t, <2>1, Elements
  <2>5. CASE e # Hits!Other /\ e < Hits!LedsPerHalf
    <3>1. e \in Hits!Columns /\ e < Width /\ "peripheral" \in Hits!Halves
      BY <1>h, <2>4, <2>5 DEF Hits!LedsPerHalf
    <3>2. Hits!Record("peripheral", e)
      BY <1>6, <2>5 DEF Hits!Deliver
    <3> HIDE DEF e
    <3>3. \A c \in Hits!Columns :
            /\ HitsIn(recorded', refused', "peripheral", c)
                 = HitsIn(recorded, refused, "peripheral", c) + IF c = e THEN 1 ELSE 0
            /\ HitsIn(recorded', refused', "central", c)
                 = HitsIn(recorded, refused, "central", c)
      <4>1. \A g \in Hits!Halves : \A c \in Hits!Columns :
               HitsIn(recorded', refused', g, c)
                 = HitsIn(recorded, refused, g, c) + IF g = "peripheral" /\ c = e THEN 1 ELSE 0
        BY <1>t, <3>1, <3>2, RecordAdds
      <4> QED
        BY <1>h, <1>n, <4>1
    <3>4. LeftInv'
      <4> SUFFICES ASSUME NEW c \in Hits!Columns, c < Width
                   PROVE  LeftAt(c, pressed', recorded', refused', bus', hit_tx')
        BY DEF LeftInv
      <4>1. LeftAt(c, pressed, recorded, refused, bus, hit_tx)
        BY <1>t DEF LeftInv
      <4> QED
        BY <4>1, <1>n, <2>1, <2>2, <2>3, <3>3 DEF LeftAt
    <3>5. RightInv'
      <4> SUFFICES ASSUME NEW c \in Hits!Columns, c >= Width
                   PROVE  RightAt(c, pressed', recorded', refused', bus', split')
        BY DEF RightInv
      <4>1. RightAt(c, pressed, recorded, refused, bus, split)
        BY <1>t DEF RightInv
      <4>2. c # e
        BY <1>n, <1>w, <3>1
      <4>3. HitsIn(recorded', refused', "peripheral", c) = HitsIn(recorded, refused, "peripheral", c)
        BY <1>n, <3>3, <4>2
      <4> QED
        BY <4>1, <4>3, <1>n, <2>1, <3>3 DEF RightAt
    <3> QED
      BY <3>4, <3>5
  <2>6. CASE ~ (e # Hits!Other /\ e < Hits!LedsPerHalf)
    <3>1. \A h, c : HitsIn(recorded', refused', h, c) = HitsIn(recorded, refused, h, c)
      BY <1>6, <2>6 DEF Hits!Deliver, HitsIn
    <3> HIDE DEF e
    <3>2. LeftInv'
      <4> SUFFICES ASSUME NEW c \in Hits!Columns, c < Width
                   PROVE  LeftAt(c, pressed', recorded', refused', bus', hit_tx')
        BY DEF LeftInv
      <4>1. LeftAt(c, pressed, recorded, refused, bus, hit_tx)
        BY <1>t DEF LeftInv
      <4>2. Count(hit_tx', c) \in Nat /\ Count(hit_tx', c) <= Count(hit_tx, c)
        BY <1>n, <2>2, <2>3
      <4> QED
        BY <4>1, <4>2, <1>n, <2>1, <3>1 DEF LeftAt
    <3>3. RightInv'
      <4> SUFFICES ASSUME NEW c \in Hits!Columns, c >= Width
                   PROVE  RightAt(c, pressed', recorded', refused', bus', split')
        BY DEF RightInv
      <4>1. RightAt(c, pressed, recorded, refused, bus, split)
        BY <1>t DEF RightInv
      <4> QED
        BY <4>1, <1>n, <2>1, <3>1 DEF RightAt
    <3> QED
      BY <3>2, <3>3
  <2> QED
    BY <2>5, <2>6
<1>7. ASSUME NEW h \in Hits!Halves, Hits!Render(h) PROVE LeftInv' /\ RightInv'
  BY <1>t, <1>7 DEF Hits!Render, LeftInv, RightInv, LeftAt, RightAt, HitsIn
<1>8. CASE Hits!LinkChanges
  <2>1. /\ split' = <<>> /\ hit_tx' = hit_tx /\ bus' = bus
        /\ pressed' = pressed
        /\ \A h, c : HitsIn(recorded', refused', h, c) = HitsIn(recorded, refused, h, c)
    BY <1>8 DEF Hits!LinkChanges, HitsIn
  <2>2. \A c : Count(split', c) = 0
    BY <1>t, <2>1, Counting
  <2>3. LeftInv'
    <3> SUFFICES ASSUME NEW c \in Hits!Columns, c < Width
                 PROVE  LeftAt(c, pressed', recorded', refused', bus', hit_tx')
      BY DEF LeftInv
    <3>1. LeftAt(c, pressed, recorded, refused, bus, hit_tx)
      BY <1>t DEF LeftInv
    <3> QED
      BY <3>1, <1>n, <2>1 DEF LeftAt
  <2>4. RightInv'
    <3> SUFFICES ASSUME NEW c \in Hits!Columns, c >= Width
                 PROVE  RightAt(c, pressed', recorded', refused', bus', split')
      BY DEF RightInv
    <3>1. RightAt(c, pressed, recorded, refused, bus, split)
      BY <1>t DEF RightInv
    <3> QED
      BY <3>1, <1>n, <2>1, <2>2 DEF RightAt
  <2> QED
    BY <2>3, <2>4
<1>9. CASE UNCHANGED Hits!vars
  BY <1>t, <1>9 DEF Hits!vars, LeftInv, RightInv, LeftAt, RightAt, HitsIn
<1> QED
  BY <1>h, <1>1, <1>2, <1>3, <1>4, <1>5, <1>6, <1>7, <1>8, <1>9 DEF Hits!Next

\* Each press reaches the engine of its own half once, or is refused by its full
\* queue, and the engine of the other half at most once.
THEOREM HitsEachPressOnce ==
    ASSUME Hits!WidthAssumption PROVE Hits!Spec => []EachPressHitsOnce
<1>1. Hits!Init => HitInv
  <2> SUFFICES ASSUME Hits!Init PROVE HitInv
    OBVIOUS
  <2>h. Hits!Halves = {"central", "peripheral"}
    BY DEF Hits!Halves
  <2>1. HitTypes
    BY <2>h DEF Hits!Init, HitTypes
  <2>2. \A c : /\ Count(bus["central"], c) = 0 /\ Count(bus["peripheral"], c) = 0
               /\ Count(split, c) = 0 /\ Count(hit_tx, c) = 0
    <3>1. /\ bus["central"] = <<>> /\ bus["peripheral"] = <<>> /\ split = <<>>
          /\ hit_tx = <<>>
      BY <2>h DEF Hits!Init
    <3>2. \A c : Count(<<>>, c) = 0
      BY <2>1, <3>1, Counting DEF HitTypes
    <3> QED
      BY <3>1, <3>2
  <2>3. \A c \in Hits!Columns : \A h \in Hits!Halves :
            HitsIn(recorded, refused, h, c) = 0 /\ pressed[c] = 0
    BY DEF Hits!Init, HitsIn
  <2> QED
    BY <2>h, <2>1, <2>2, <2>3 DEF HitInv, LeftInv, RightInv, LeftAt, RightAt
<1>2. HitInv /\ [Hits!Next]_(Hits!vars) => HitInv'
  BY HitTypesStep, HitInvStep DEF HitInv
<1>3. HitInv => Hits!EachPressHitsOnce
  <2> SUFFICES ASSUME HitInv PROVE Hits!EachPressHitsOnce
    OBVIOUS
  <2>w. Width \in Nat \ {0} /\ Hits!Columns = 0 .. (2 * Width - 1)
    BY DEF Hits!WidthAssumption, Hits!Columns
  <2>h. Hits!Halves = {"central", "peripheral"}
    BY DEF Hits!Halves
  <2>1. Hits!OwnKeysHitOnce
    <3> SUFFICES ASSUME NEW col \in Hits!Columns
                 PROVE  LET h == IF col < Width THEN "central" ELSE "peripheral"
                            local == IF col < Width THEN col ELSE col - Width
                        IN  pressed[col] = recorded[h][col] + refused[h][col]
                                             + Hits!CountOf(bus[h], local)
      BY DEF Hits!OwnKeysHitOnce
    <3> QED
      BY <2>w, CountsAre DEF HitInv, LeftInv, RightInv, LeftAt, RightAt, HitsIn
  <2>2. Hits!OtherKeysHitAtMostOnce
    <3> SUFFICES ASSUME NEW col \in Hits!Columns
                 PROVE  IF col < Width
                        THEN recorded["peripheral"][col] + refused["peripheral"][col]
                               + Hits!CountOf(hit_tx, col)
                               + Hits!CountOf(bus["central"], col) <= pressed[col]
                        ELSE recorded["central"][col] + refused["central"][col]
                               + Hits!CountOf(bus["central"], col)
                               + Hits!CountOf(split, col) <= pressed[col]
      BY DEF Hits!OtherKeysHitAtMostOnce
    <3> QED
      BY <2>w, CountsAre DEF HitInv, LeftInv, RightInv, LeftAt, RightAt, HitsIn
  <2> QED
    BY <2>1, <2>2 DEF Hits!EachPressHitsOnce
<1> QED
  BY <1>1, <1>2, <1>3, PTL DEF Hits!Spec, EachPressHitsOnce

\* Keys typed without a session take no slot of the split queue.
THEOREM HitsTakeNoSlotOffline == Hits!Spec => Hits!TypingOfflineTakesNoSlot
<1>1. [Hits!Next]_(Hits!vars) =>
        [~ hit_link => Len(hit_tx') <= Len(hit_tx)]_(Hits!vars)
  <2> SUFFICES ASSUME [Hits!Next]_(Hits!vars), ~ hit_link, hit_tx' # hit_tx PROVE FALSE
    OBVIOUS
  <2> QED
    BY DEF Hits!Next, Hits!Press, Hits!Republish, Hits!Hears, Hits!MayMirror, Hits!Render,
           Hits!QueueOther, Hits!Deliver, Hits!LinkChanges, Hits!vars
<1> QED
  BY <1>1, PTL DEF Hits!Spec, Hits!TypingOfflineTakesNoSlot

-----------------------------------------------------------------------------
(* ChainPower.                                                             *)

\* What the renderer and the rail know of the pixels. A rail that is down has
\* lost their colour; pixels are lit only under frame_visible, unless a latch
\* was sent on a rail that had not settled; a suspend writes a dark frame.
ChainInv ==
    /\ rail \in Chain!Rails /\ content \in Chain!Frames /\ cur \in Chain!Frames
    /\ want \in Chain!Frames /\ visible \in BOOLEAN /\ faults \in Nat
    /\ board \in [awake : BOOLEAN, asleep : BOOLEAN]
    /\ op \in {"present", "suspend", "resume"}
    /\ rail = "off" => content = "dark"
    /\ pc = "suspended" => content = "dark"
    /\ pc = "writing" /\ cur = "dark" => rail = "on" \/ content = "dark"
    /\ pc \in {"writing", "settling"} /\ op # "resume" /\ cur = "lit" => visible
    /\ pc = "writing" => op # "resume"
    /\ pc \in {"latching", "latched"} => op # "resume" /\ cur = "dark"
    /\ pc \in {"writing", "settling"} /\ op = "suspend" => cur = "dark"
    /\ pc = "latched" => content = "dark" \/ cut
    /\ content = "lit" => visible \/ cut

\* Under lit pixels and a settled rail, a step that drops the rail belongs to
\* sleep, to a suspend or to a failed transfer.
ChainDrop ==
    content = "lit" /\ ~ cut /\ rail' = "off"
        => sleeping' \/ pc' = "suspended" \/ faults' > faults

\* A wait for power on behalf of `lit' keeps the invariant when frame_visible
\* is already clear under dark pixels, or is set.
LEMMA WaitKeeps ==
    ASSUME NEW lit \in BOOLEAN, ChainInv, Chain!WaitForPower(lit),
           board' = board, cut' = cut, faults' = faults, want' = want,
           cur' \in Chain!Frames, op' \in {"present", "suspend", "resume"},
           op' # "resume" /\ cur' = "lit" => lit,
           op' = "suspend" => cur' = "dark",
           content = "lit" => lit \/ cut
    PROVE  ChainInv' /\ ChainDrop
<1> DEFINE r == Chain!UpdatedRail(vbus, FALSE, lit)
<1>1. r \in Chain!Rails /\ (lit => r # "off") /\ (r = "on" => rail = "on")
  BY DEF Chain!UpdatedRail, Chain!chain_should_power, ChainInv, Chain!Rails
<1>2. /\ rail' = r /\ visible' = lit
      /\ content' = IF r = "off" THEN "dark" ELSE content
      /\ \/ r = "off" /\ pc' = (IF op' = "suspend" THEN "suspended" ELSE "idle")
         \/ r = "warming" /\ pc' = "settling"
         \/ r = "on" /\ op' = "resume" /\ pc' = (IF op' = "suspend" THEN "suspended" ELSE "idle")
         \/ r = "on" /\ op' # "resume" /\ pc' = "writing"
  BY DEF Chain!WaitForPower, Chain!SwitchRail, Chain!Return
<1> HIDE DEF r
<1>3. ChainInv'
  BY <1>1, <1>2, Zenon DEF ChainInv, Chain!Frames
<1>4. ChainDrop
  BY <1>1, <1>2 DEF ChainDrop, ChainInv
<1> QED
  BY <1>3, <1>4

\* Writing a frame: a dark one over lit pixels goes by way of the latch.
LEMMA WriteKeeps ==
    ASSUME NEW f \in Chain!Frames, ChainInv, Chain!WriteFrame(f),
           board' = board, cut' = cut, faults' = faults, want' = want,
           op' \in {"present", "suspend"}, op' = "suspend" => f = "dark"
    PROVE  ChainInv' /\ ChainDrop
<1>1. CASE f = "dark" /\ Chain!chain_needs_dark_latch
  BY <1>1 DEF Chain!WriteFrame, Chain!chain, ChainInv, ChainDrop, Chain!Frames
<1>2. CASE ~ (f = "dark" /\ Chain!chain_needs_dark_latch)
  <2>1. cur' = f /\ Chain!WaitForPower(f = "lit")
    BY <1>2 DEF Chain!WriteFrame
  <2>2. content = "lit" => (f = "lit") \/ cut
    BY <1>2 DEF Chain!chain_needs_dark_latch, ChainInv, Chain!Frames
  <2> QED
    BY <2>1, <2>2, WaitKeeps
<1> QED
  BY <1>1, <1>2

LEMMA ChainStep ==
    ASSUME ChainInv, [Chain!Next]_(Chain!vars)
    PROVE  ChainInv' /\ [ChainDrop]_(Chain!vars)
<1>1. CASE UNCHANGED Chain!vars
  BY <1>1 DEF Chain!vars, Chain!chain, Chain!renderer, Chain!counters, Chain!monitor, ChainInv
<1>2. CASE Chain!SleepChanges \/ Chain!CableChanges \/ Chain!FrameChanges \/ Chain!RailSettles
  BY <1>2 DEF Chain!SleepChanges, Chain!CableChanges, Chain!FrameChanges, Chain!RailSettles,
     Chain!chain, Chain!renderer, Chain!counters, Chain!monitor, ChainInv, ChainDrop, Chain!Rails
<1>3. CASE Chain!Present
  BY <1>3, WriteKeeps DEF Chain!Present, Chain!counters, ChainInv
<1>4. CASE Chain!RendererSleeps
  <2>1. /\ op' = "suspend" /\ Chain!DoSuspend /\ board' = board /\ want' = want
        /\ faults' = faults /\ cut' = cut
    BY <1>4 DEF Chain!RendererSleeps, Chain!counters
  <2>2. CASE board.asleep
    BY <2>1, <2>2, WriteKeeps DEF Chain!DoSuspend, Chain!Frames
  <2>3. CASE ~ board.asleep
    BY <2>1, <2>3 DEF Chain!DoSuspend, Chain!SwitchRail, ChainInv, ChainDrop, Chain!Frames,
       Chain!Rails
  <2> QED
    BY <2>2, <2>3
<1>5. CASE Chain!RendererWakes
  BY <1>5, WaitKeeps DEF Chain!RendererWakes, Chain!counters, ChainInv
<1>6. CASE Chain!PresentAgain
  BY <1>6 DEF Chain!PresentAgain, Chain!chain, Chain!counters, ChainInv, ChainDrop
<1>7. CASE Chain!SettleTimer
  BY <1>7, WaitKeeps DEF Chain!SettleTimer, Chain!counters, ChainInv
<1>8. CASE Chain!LatchSent
  BY <1>8 DEF Chain!LatchSent, Chain!Received, ChainInv, ChainDrop, Chain!Frames, Chain!Rails
<1>9. CASE Chain!LatchDone
  <2>1. content = "lit" => FALSE \/ cut
    BY <1>9 DEF Chain!LatchDone, ChainInv
  <2> QED
    BY <1>9, <2>1, WaitKeeps DEF Chain!LatchDone, Chain!counters, ChainInv
<1>10. CASE Chain!WriteDone
  BY <1>10 DEF Chain!WriteDone, Chain!Received, Chain!Return, ChainInv, ChainDrop, Chain!Frames,
     Chain!Rails
<1>11. CASE Chain!TransferFails
  BY <1>11 DEF Chain!TransferFails, Chain!SwitchRail, ChainInv, ChainDrop, Chain!Frames,
     Chain!Rails
<1>12. CASE Chain!MonitorStep
  <2>1. /\ Chain!SwitchRail(Chain!UpdatedRail(powered', sleeping', visible))
        /\ visible' = visible
    BY <1>12 DEF Chain!MonitorStep, Chain!MonitorBoots, Chain!MonitorTakesEdge,
       Chain!MonitorPolls, Chain!Refresh
  <2>2. UNCHANGED <<board, want, pc, op, cur, faults, cut>>
    BY <1>12 DEF Chain!MonitorStep, Chain!MonitorBoots, Chain!MonitorTakesEdge,
       Chain!MonitorPolls, Chain!counters, Chain!renderer
  <2>3. /\ rail' \in Chain!Rails /\ (rail' = "on" => rail = "on")
        /\ rail = "on" => rail' # "warming"
        /\ rail' = "off" => sleeping' \/ ~ visible
    BY <2>1 DEF Chain!SwitchRail, Chain!UpdatedRail, Chain!chain_should_power, ChainInv,
       Chain!Rails
  <2>4. content' = IF rail' = "off" THEN "dark" ELSE content
    BY <2>1 DEF Chain!SwitchRail
  <2> QED
    BY <2>1, <2>2, <2>3, <2>4 DEF ChainInv, ChainDrop, Chain!Frames, Chain!Rails
<1> QED
  BY <1>1, <1>2, <1>3, <1>4, <1>5, <1>6, <1>7, <1>8, <1>9, <1>10, <1>11, <1>12
     DEF Chain!Next, Chain!RendererStep

\* A suspended chain is dark, and the rail is not dropped under lit pixels,
\* for boards that keep the rail and boards that do not and however the
\* renderer and the monitor lag behind sleep, cable and frames.
THEOREM ChainOffIsDark == Chain!Spec => OffIsDark
<1>1. Chain!Init => ChainInv
  <2>1. Boards \subseteq [awake : BOOLEAN, asleep : BOOLEAN]
    BY TaskConstants DEF Chain!ChainConstants
  <2> SUFFICES ASSUME Chain!Init PROVE ChainInv
    OBVIOUS
  <2>2. board \in [awake : BOOLEAN, asleep : BOOLEAN]
    BY <2>1 DEF Chain!Init
  <2>3. /\ want = "dark" /\ rail = "off" /\ visible = FALSE /\ content = "dark"
        /\ pc = "idle" /\ op = "present" /\ cur = "dark" /\ faults = 0
    BY DEF Chain!Init
  <2> QED
    BY <2>2, <2>3 DEF ChainInv, Chain!Frames, Chain!Rails
<1>2. ChainInv => Chain!SuspendedIsDark
  BY DEF ChainInv, Chain!SuspendedIsDark
<1>3. ChainInv /\ [Chain!Next]_(Chain!vars) =>
        [content = "lit" /\ ~ cut /\ rail' = "off"
            => sleeping' \/ pc' = "suspended" \/ faults' > faults]_(Chain!vars)
  BY ChainStep DEF ChainDrop
<1>4. ChainInv /\ [Chain!Next]_(Chain!vars) => ChainInv'
  BY ChainStep
<1> QED
  BY <1>1, <1>2, <1>3, <1>4, PTL
     DEF Chain!Spec, OffIsDark, Chain!OffIsDark, Chain!LitRailIsNotDropped
=============================================================================
