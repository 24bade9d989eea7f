----------------------- MODULE TransportAnnounceProofs -----------------------
(***************************************************************************)
(* The peripheral never comes to rest in a session without having queued   *)
(* its transport, for every value of the constants.                        *)
(***************************************************************************)
EXTENDS TransportAnnounce, TLAPS

\* An announcement is owed, or about to be owed, until one is queued.
OwedUntilQueued == AutoSplit /\ link => pedge \/ announce_transport \/ queued # None

\* No step loses the announcement: a link edge asks for it again, and a full
\* queue leaves it owed.
LEMMA OwedStep == OwedUntilQueued /\ [Next]_vars => OwedUntilQueued'
<1> SUFFICES ASSUME OwedUntilQueued, [Next]_vars PROVE OwedUntilQueued'
  OBVIOUS
<1> USE DEF OwedUntilQueued
<1>1. CASE LinkUp \/ LinkDown \/ PeripheralReboots
  BY <1>1 DEF LinkUp, LinkDown, PeripheralReboots
<1>2. CASE PeripheralLinkChanged \/ Heartbeat
  BY <1>2 DEF PeripheralLinkChanged, Heartbeat, HeartbeatAnnounces
<1>3. CASE TransportAnnounceDue
  <2>1. CASE Announce
    <3>1. UNCHANGED <<link, pedge>>
      BY <1>3 DEF TransportAnnounceDue
    <3>2. CASE link /\ Sent
      <4>1. queued' = {wired_selected}
        BY <2>1, <3>2 DEF Announce
      <4> QED
        BY <4>1 DEF None
    <3>3. CASE link /\ ~ Sent
      BY <2>1, <3>3 DEF Announce, StillOwed
    <3> QED
      BY <3>1, <3>2, <3>3
  <2>2. CASE RelayDebug
    BY <1>3, <2>2 DEF TransportAnnounceDue, RelayDebug
  <2> QED
    BY <1>3, <2>1, <2>2 DEF TransportAnnounceDue
<1>4. CASE \/ SelectorChanges \/ Deliver \/ Lose
           \/ PeripheralTakesPacket \/ PeripheralProcessed
           \/ CentralLinkChanged \/ CentralReceives \/ UNCHANGED vars
  BY <1>4 DEF SelectorChanges, Deliver, Lose, PeripheralTakesPacket, PeripheralProcessed,
     CentralLinkChanged, CentralReceives, vars, peripheral
<1> QED
  BY <1>1, <1>2, <1>3, <1>4 DEF Next, PeripheralStep

\* In every session the transport is announced before the peripheral is at
\* rest, whatever the queue, the link edges and the flags do.
THEOREM TransportAnnouncedInSession == Spec => []AnnouncedInSession
<1>1. Init => OwedUntilQueued
  BY DEF Init, OwedUntilQueued
<1>2. OwedUntilQueued => AnnouncedInSession
  BY DEF OwedUntilQueued, AnnouncedInSession, AtRest
<1> QED
  BY <1>1, <1>2, OwedStep, PTL DEF Spec

=============================================================================
