----------------------------- MODULE ChainPower -----------------------------
(***************************************************************************)
(* The supply rail of one half's LED chain (lighting.rs), which two tasks  *)
(* switch: the renderer, before and after it writes a frame, and           *)
(* PowerMonitor, when the cable or the sleep state changes. CHAIN_POWER is *)
(* behind a blocking mutex, so each access is atomic, but the renderer     *)
(* awaits the transfer and the settling of the rail with the state         *)
(* released. Both tasks learn of sleep through subscriptions of their own. *)
(*                                                                         *)
(* A frame is "lit" or "dark" (frame_visible). The pixels are write-only   *)
(* registers that lose their colour with the rail.                         *)
(***************************************************************************)
EXTENDS Integers, Sequences

CONSTANTS
    Boards,      \* [awake, asleep]: BOARD_KEEP_LED_POWER_WHILE_AWAKE/_SUSPENDED
    MaxSleeps,   \* bound on changes of the sleep state
    MaxCables,   \* bound on plugging and unplugging
    MaxFrames,   \* bound on changes of the frame the engine renders
    MaxFaults    \* bound on failed transfers

ChainConstants ==
    /\ Boards \subseteq [awake : BOOLEAN, asleep : BOOLEAN]
    /\ {MaxSleeps, MaxCables, MaxFrames, MaxFaults} \subseteq Nat

VARIABLES
    board,          \* the board's two constants
    vbus, asleep, want,          \* the cable, the sleep state, the frame
    \* CHAIN_POWER: the rail with the age of powered_at, and frame_visible.
    rail, visible,
    content,        \* what the pixels hold
    \* The renderer: where it is, its operation, the frame it writes, its
    \* subscription, and the frame it last wrote.
    pc, op, cur, events, written,
    \* PowerMonitor: whether its start-up delay is over, its fields, its
    \* subscription, the status LED and the last ChargingStateEvent.
    booted, powered, sleeping, edges, led, charging,
    sleeps, cables, frames, faults,     \* counters of the bounds
    cut             \* history: the last transfer ended on an unsettled rail

chain == <<rail, visible, content>>
renderer == <<pc, op, cur, events, written>>
monitor == <<booted, powered, sleeping, edges, led, charging>>
counters == <<sleeps, cables, frames, faults, cut>>
vars == <<board, vbus, asleep, want, chain, renderer, monitor, counters>>

Frames == {"dark", "lit"}
Rails == {"off", "warming", "on"}

-----------------------------------------------------------------------------
(* CHAIN_POWER.                                                            *)

chain_should_power(usb, sleep, lit) ==
    IF sleep THEN board.asleep ELSE board.awake \/ usb \/ lit

\* The rail after update_chain_power, frame_visible being `lit'.
UpdatedRail(usb, sleep, lit) ==
    IF ~ chain_should_power(usb, sleep, lit) THEN "off"
    ELSE IF rail = "off" THEN "warming" ELSE rail

\* Switching the rail; the pixels lose their colour with it.
SwitchRail(r) ==
    /\ rail' = r
    /\ content' = IF r = "off" THEN "dark" ELSE content

\* mutant: a lit chain is not darkened before its rail is dropped
NeverLatched == FALSE

chain_needs_dark_latch == rail # "off" /\ visible

-----------------------------------------------------------------------------
Init ==
    /\ board \in Boards
    /\ vbus \in BOOLEAN /\ asleep = FALSE /\ want = "dark"
    /\ rail = "off" /\ visible = FALSE /\ content = "dark"
    /\ pc = "idle" /\ op = "present" /\ cur = "dark" /\ events = <<>>
    /\ written = "none"
    /\ booted = FALSE /\ powered = vbus /\ sleeping = FALSE /\ edges = <<>>
    /\ led = vbus /\ charging = FALSE
    /\ sleeps = 0 /\ cables = 0 /\ frames = 0 /\ faults = 0 /\ cut = FALSE

(* The environment. The keyboard does not go to sleep within the two       *)
(* seconds PowerMonitor waits before it subscribes.                        *)
SleepChanges ==
    /\ booted /\ sleeps < MaxSleeps
    /\ asleep' = ~ asleep
    /\ events' = Append(events, asleep') /\ edges' = Append(edges, asleep')
    /\ sleeps' = sleeps + 1
    /\ UNCHANGED <<board, vbus, want, chain, pc, op, cur, written, booted,
                   powered, sleeping, led, charging, cables, frames, faults,
                   cut>>

CableChanges ==
    /\ cables < MaxCables
    /\ vbus' = ~ vbus /\ cables' = cables + 1
    /\ UNCHANGED <<board, asleep, want, chain, renderer, monitor, sleeps,
                   frames, faults, cut>>

FrameChanges ==
    /\ frames < MaxFrames
    /\ want' \in Frames \ {want} /\ frames' = frames + 1
    /\ UNCHANGED <<board, vbus, asleep, chain, renderer, monitor, sleeps,
                   cables, faults, cut>>

\* CHAIN_POWER_SETTLE elapses.
RailSettles ==
    /\ rail = "warming" /\ rail' = "on"
    /\ UNCHANGED <<board, vbus, asleep, want, visible, content, renderer,
                   monitor, counters>>

-----------------------------------------------------------------------------
(* The renderer: LightingHardware::write and HalfOutput.                   *)

\* An operation is over. A suspended renderer waits for the wake event.
Return ==
    pc' = IF op' = "suspend" THEN "suspended" ELSE "idle"

\* mutant: resume goes on to write a frame
WaitAndWrite(lit) ==
    LET r == UpdatedRail(vbus, FALSE, lit) IN
        /\ SwitchRail(r)
        /\ visible' = lit
        /\ pc' = IF r = "off" THEN "idle"
                 ELSE IF r = "warming" THEN "settling" ELSE "writing"

\* wait_for_chain_power from its top, and what follows it: nothing if the rail
\* is to stay down, another turn when it has settled, or the transfer. resume
\* only waits.
WaitForPower(lit) ==
    LET r == UpdatedRail(vbus, FALSE, lit) IN
        /\ SwitchRail(r)
        /\ visible' = lit
        /\ \/ r = "off" /\ Return
           \/ r = "warming" /\ pc' = "settling"
           \/ r = "on" /\ op' = "resume" /\ Return
           \/ r = "on" /\ op' # "resume" /\ pc' = "writing"

\* LightingHardware::write of frame f, up to its first await.
WriteFrame(f) ==
    /\ cur' = f
    /\ IF f = "dark" /\ chain_needs_dark_latch
       THEN pc' = "latching" /\ UNCHANGED chain
       ELSE WaitForPower(f = "lit")

\* mutant: only a changed frame is presented, never the latched one again
OnlyChanged == want # written

\* Presentation is due for a changed frame, and every PRESENT_REFRESH_INTERVAL.
PresentDue == TRUE

Present ==
    /\ pc = "idle" /\ PresentDue
    /\ op' = "present" /\ written' = want
    /\ WriteFrame(want)
    /\ UNCHANGED <<board, vbus, asleep, want, events, monitor, counters>>

\* mutant: a rail kept through suspend is taken to be dark already
SuspendKeepsPixels ==
    /\ visible' = FALSE
    /\ IF board.asleep THEN UNCHANGED <<rail, content>> ELSE SwitchRail("off")
    /\ pc' = "suspended" /\ cur' = "dark"

\* mutant: suspend shows a dark frame on either board, as if it stayed awake
SuspendAwake == WriteFrame("dark")

\* HalfOutput::suspend.
DoSuspend ==
    IF board.asleep THEN WriteFrame("dark")
    ELSE /\ visible' = FALSE /\ SwitchRail("off")
         /\ pc' = "suspended" /\ cur' = "dark"

\* The renderer takes a sleep event, or tries a failed suspend again after
\* retry_after; it is idle, or suspended already.
RendererSleeps ==
    /\ \/ pc \in {"idle", "suspended"} /\ events # <<>> /\ Head(events)
          /\ events' = Tail(events)
       \/ pc = "retry" /\ op = "suspend" /\ UNCHANGED events
    /\ op' = "suspend"
    /\ DoSuspend
    /\ UNCHANGED <<board, vbus, asleep, want, written, monitor, counters>>

\* The renderer takes a wake event: HalfOutput::resume.
RendererWakes ==
    /\ pc \in {"idle", "suspended"} /\ events # <<>> /\ ~ Head(events)
    /\ events' = Tail(events)
    /\ op' = "resume"
    /\ WaitForPower(visible)
    /\ UNCHANGED <<board, vbus, asleep, want, cur, written, monitor, counters>>

\* A failed present is tried again with whatever the engine renders by then.
PresentAgain ==
    /\ pc = "retry" /\ op = "present"
    /\ pc' = "idle"
    /\ UNCHANGED <<board, vbus, asleep, want, chain, op, cur, events, written,
                   monitor, counters>>

\* The settling timer fires and the loop of wait_for_chain_power turns.
SettleTimer ==
    /\ pc = "settling"
    /\ UNCHANGED op
    /\ WaitForPower(visible)
    /\ UNCHANGED <<board, vbus, asleep, want, cur, events, written, monitor,
                   counters>>

\* What the pixels hold after a transfer: the frame if the rail was settled;
\* on a rail still rising the pixels may have missed it.
Received(c) ==
    /\ content' \in IF rail = "on" THEN {c}
                    ELSE IF rail = "warming" THEN {content, c} ELSE {content}
    /\ cut' = (rail # "on")

\* The dark latch has been sent, and some time later the task goes on;
\* frame_visible is cleared only then.
LatchSent ==
    /\ pc = "latching"
    /\ Received("dark") /\ pc' = "latched"
    /\ UNCHANGED <<board, vbus, asleep, want, rail, visible, op, cur, events,
                   written, monitor, sleeps, cables, frames, faults>>

LatchDone ==
    /\ pc = "latched"
    /\ UNCHANGED op
    /\ WaitForPower(FALSE)
    /\ UNCHANGED <<board, vbus, asleep, want, cur, events, written, monitor,
                   counters>>

WriteDone ==
    /\ pc = "writing"
    /\ UNCHANGED op
    /\ Received(cur) /\ Return
    /\ UNCHANGED <<board, vbus, asleep, want, rail, visible, cur, events,
                   written, monitor, sleeps, cables, frames, faults>>

\* Either transfer fails: power_down_chain, and the operation is an error.
TransferFails ==
    /\ pc \in {"latching", "writing"} /\ faults < MaxFaults
    /\ SwitchRail("off")
    /\ pc' = "retry" /\ faults' = faults + 1
    /\ UNCHANGED <<board, vbus, asleep, want, visible, op, cur, events, written,
                   monitor, sleeps, cables, frames, cut>>

-----------------------------------------------------------------------------
(* PowerMonitor.                                                           *)

\* update_chain_power and update_status_led with the fields as they are now.
Refresh ==
    /\ SwitchRail(UpdatedRail(powered', sleeping', visible))
    /\ led' = (powered' /\ ~ sleeping')
    /\ UNCHANGED visible

\* run, up to its loop: the boot-time state is announced.
MonitorBoots ==
    /\ ~ booted /\ booted' = TRUE
    /\ powered' = vbus /\ charging' = vbus
    /\ UNCHANGED sleeping
    /\ Refresh
    /\ UNCHANGED <<board, vbus, asleep, want, renderer, edges, counters>>

\* A sleep event: refresh_power, and then the rail again for `sleeping'.
MonitorTakesEdge ==
    /\ booted /\ edges # <<>>
    /\ sleeping' = Head(edges) /\ edges' = Tail(edges)
    /\ powered' = vbus
    /\ charging' = IF vbus = powered THEN charging ELSE vbus
    /\ Refresh
    /\ UNCHANGED <<board, vbus, asleep, want, renderer, booted, counters>>

\* The poll timer: refresh_power does something only on a change. It also
\* makes a powered-only board render again, which FrameChanges covers.
MonitorPolls ==
    /\ booted /\ vbus # powered
    /\ powered' = vbus /\ charging' = vbus
    /\ UNCHANGED sleeping
    /\ Refresh
    /\ UNCHANGED <<board, vbus, asleep, want, renderer, booted, edges, counters>>

-----------------------------------------------------------------------------
RendererStep ==
    \/ Present \/ RendererSleeps \/ RendererWakes \/ PresentAgain
    \/ SettleTimer \/ LatchSent \/ LatchDone \/ WriteDone

MonitorStep == MonitorBoots \/ MonitorTakesEdge \/ MonitorPolls

Next ==
    \/ SleepChanges \/ CableChanges \/ FrameChanges \/ RailSettles
    \/ RendererStep \/ TransferFails \/ MonitorStep

Spec == Init /\ [][Next]_vars

\* The tasks run and the timers fire. A renderer that keeps presenting still
\* polls its subscription between two operations.
FairSpec ==
    /\ Spec
    /\ WF_vars(RendererStep) /\ WF_vars(MonitorStep) /\ WF_vars(RailSettles)
    /\ SF_vars(RendererSleeps) /\ SF_vars(RendererWakes) /\ SF_vars(Present)

-----------------------------------------------------------------------------
TypeOK ==
    /\ board \in Boards /\ {vbus, asleep, visible} \subseteq BOOLEAN
    /\ {want, content, cur} \subseteq Frames /\ rail \in Rails
    /\ pc \in {"idle", "latching", "latched", "settling", "writing", "retry",
              "suspended"}
    /\ op \in {"present", "suspend", "resume"}
    /\ op = "resume" => pc \in {"idle", "settling"}
    /\ events \in Seq(BOOLEAN) /\ edges \in Seq(BOOLEAN)
    /\ written \in Frames \cup {"none"}
    /\ {booted, powered, sleeping, led, charging, cut} \subseteq BOOLEAN
    /\ {sleeps, cables, frames, faults} \subseteq Nat

(* Once suspend has returned no pixel is lit, on a board that drops the    *)
(* rail and on one that keeps it, whatever the monitor does, also after    *)
(* failed transfers (HalfOutput::suspend: "the chain must be latched dark  *)
(* explicitly before rendering stops").                                    *)
SuspendedIsDark == pc = "suspended" => content = "dark"

(* A lit chain on a settled rail loses it only to sleep, to suspend or to  *)
(* a failed transfer: the switch from a lit to a dark frame latches black  *)
(* first, and clears frame_visible only behind it, so neither task drops   *)
(* the rail under lit pixels. Left out is a latch that was itself sent on  *)
(* a rail the monitor had just cycled: the latch does not wait for it to   *)
(* settle, and may be missed.                                              *)
LitRailIsNotDropped ==
    [][content = "lit" /\ ~ cut /\ rail' = "off"
          => sleeping' \/ pc' = "suspended" \/ faults' > faults]_vars

\* Pixels are dark whenever they go unattended: a suspended chain is, and so
\* is one whose rail is dropped.
OffIsDark == []SuspendedIsDark /\ LitRailIsNotDropped

(* Once sleep state, cable and frame stay as they are, the rail is up for  *)
(* good exactly if they call for it, in whichever order the two tasks      *)
(* learned of the changes: a sleeping battery board does not feed its      *)
(* LEDs, and a kept rail comes back after a failed transfer. It is not so  *)
(* at every rest: a cable that is out between two polls of the monitor is  *)
(* seen by the renderer alone.                                             *)
RailFollowsDemand ==
    <>[]((rail # "off") = chain_should_power(vbus, asleep, visible))

(* If the keyboard stays awake with a lit frame, the pixels show it for    *)
(* good in the end, although a monitor that is behind may have cut the     *)
(* rail after the frame was written: this is what presenting an unchanged  *)
(* frame again is for.                                                     *)
LitFrameIsShown ==
    <>[](~ asleep /\ want = "lit") => <>[](content = "lit")

\* When sleep, cable and frames come to rest so does the chain: it shows the
\* frame it should, on a rail that is on exactly if it has to be.
ChainSettles == LitFrameIsShown /\ RailFollowsDemand
=============================================================================
