---------------------------- MODULE RemoteFrame ----------------------------
(***************************************************************************)
(* Reading a page of the peripheral's rendered frame from the central:     *)
(* RemoteFrameBridge (central_lighting.rs) asks for one chunk at a time    *)
(* over the split queues, the peripheral's worker (lighting.rs) reads it   *)
(* from its engine, and FramePageAssembly (split_lighting.rs) puts the     *)
(* page together. The channel is stop-and-wait with timeouts, so answers   *)
(* of attempts that were given up may still arrive.                        *)
(*                                                                         *)
(* A frame is identified by its revision; the cell of LED i in the frame   *)
(* of revision r is <<r, i>>. Animation within a revision, and frames an   *)
(* engine presents without a revision, are left out: the assembly cannot   *)
(* tell those apart.                                                       *)
(***************************************************************************)
EXTENDS Integers, Sequences, FiniteSetsExt

CONSTANTS
    FRAME_CHUNK_CELLS,   \* cells in one FrameChunk packet
    FRAME_CHUNK_SIZE,    \* cells in one page
    Totals,              \* frame lengths the peripheral's engine may report
    Offsets,             \* page offsets hosts ask for
    TxCapacity,          \* slots of SPLIT_APP_TX left to the bridge
    RequestIds,          \* size of the u8 request id counter (256)
    MaxRequests,         \* bound on page requests from hosts
    MaxFrames            \* bound on revisions of the peripheral's frame

\* The page size is rmk's. Nothing in the source ties it to the packet size,
\* but a page that is not a whole number of packets could not be completed.
ASSUME FrameConstants ==
    /\ FRAME_CHUNK_CELLS \in Nat \ {0} /\ FRAME_CHUNK_SIZE \in Nat \ {0}
    /\ FRAME_CHUNK_SIZE % FRAME_CHUNK_CELLS = 0
    /\ Totals \subseteq Nat /\ Offsets \subseteq Nat
    /\ TxCapacity \in Nat \ {0} /\ RequestIds \in Nat \ {0}
    /\ MaxRequests \in Nat /\ MaxFrames \in Nat \ {0}

VARIABLES
    frame,       \* the frame the peripheral's engine presents
    link,        \* SPLIT_APP_LINK on the central
    \* RemoteFrameBridge: where it is, the request it serves, the loops of
    \* read_page and chunk, and whether the page deadline has passed.
    pc, offset, page_tries, attempts, next_request_id, expired, assembly,
    reply,       \* the last answer given to a host
    tx,          \* FrameChunkRequests on their way to the peripheral
    pending,     \* DIAGNOSTIC_REQUESTS on the peripheral
    reading,     \* the request whose ReadFrame the worker awaits
    ptx,         \* FrameChunks on their way to the central
    response,    \* FRAME_RESPONSES
    \* History: requests so far, the frame presented when the current request
    \* was taken, and whether anything has ever gone wrong.
    requests, since, disturbed

loops == <<page_tries, attempts, next_request_id, assembly>>
wire == <<tx, pending, reading, ptx, response>>
vars == <<frame, link, pc, offset, expired, reply, loops, wire, requests, since,
          disturbed>>

None == [request_id |-> -1]
Failed == [revision |-> -1]

\* FramePageAssembly::new. `initialized' is cells # <<>>: a chunk that leaves
\* the page empty completes it.
NewAssembly == [revision |-> 0, total |-> 0, cells |-> <<>>]

\* The chunk the worker reads at offset o. The engine serves what is left of
\* the frame from there, the worker at most one packet of it.
ChunkAt(id, o) ==
    LET len == Min({FRAME_CHUNK_CELLS, Max({0, frame.total - o})}) IN
        [request_id |-> id, revision |-> frame.revision, total |-> frame.total,
         start |-> o,
         cells |-> [i \in 1 .. len |-> <<frame.revision, o + i - 1>>]]

-----------------------------------------------------------------------------
(* FramePageAssembly::accept.                                              *)

\* mutant: the room left in the page is miscounted
WantedShort(a, c) ==
    Min({Max({0, c.total - c.start}), FRAME_CHUNK_CELLS,
         FRAME_CHUNK_SIZE - Len(a.cells) - 1})

\* The cells a chunk must bring: what is left of frame, packet and page.
Wanted(a, c) ==
    Min({Max({0, c.total - c.start}), FRAME_CHUNK_CELLS,
         FRAME_CHUNK_SIZE - Len(a.cells)})

\* The chunk is of the frame the page was begun with.
SameFrame(a, c) == a.total = c.total   \* mutant: the revision is not compared
FrameKept(a, c) == a.total = c.total /\ a.revision = c.revision

Extended(a, c) ==
    [revision |-> c.revision, total |-> c.total, cells |-> a.cells \o c.cells]

Decision(a, c) ==
    IF c.start # offset + Len(a.cells) THEN "Invalid"
    ELSE IF a.cells # <<>> /\ ~ FrameKept(a, c) THEN "Restart"
    ELSE IF Len(c.cells) # Wanted(a, c) THEN "Invalid"
    ELSE IF \/ Len(a.cells \o c.cells) = FRAME_CHUNK_SIZE
            \/ c.start + Len(c.cells) >= c.total
    THEN "Complete" ELSE "Accepted"

-----------------------------------------------------------------------------
Init ==
    /\ frame \in [revision : {1}, total : Totals]
    /\ link \in BOOLEAN
    /\ pc = "idle" /\ offset = 0 /\ page_tries = 0 /\ attempts = 0
    /\ next_request_id = 0 /\ expired = FALSE /\ assembly = NewAssembly
    /\ reply = Failed
    /\ tx = <<>> /\ pending = None /\ reading = None /\ ptx = <<>>
    /\ response = None
    /\ requests = 0 /\ since = 0 /\ disturbed = FALSE

\* The peripheral presents the next revision.
FrameChanges ==
    /\ frame.revision < MaxFrames
    /\ \E n \in Totals : frame' = [revision |-> frame.revision + 1, total |-> n]
    /\ disturbed' = TRUE
    /\ UNCHANGED <<link, pc, offset, expired, reply, loops, wire, requests, since>>

LinkChanges ==
    /\ link' = ~ link
    /\ disturbed' = TRUE
    /\ UNCHANGED <<frame, pc, offset, expired, reply, loops, wire, requests, since>>

-----------------------------------------------------------------------------
(* RemoteFrameBridge.                                                      *)

Reply(page) == reply' = page /\ pc' = "idle"

\* run() takes a request. Only node 1 over a live link is asked.
TakeRequest(node, o) ==
    /\ pc = "idle" /\ requests < MaxRequests
    /\ requests' = requests + 1
    /\ since' = frame.revision
    /\ offset' = o /\ expired' = FALSE
    /\ page_tries' = 1 /\ attempts' = 0 /\ assembly' = NewAssembly
    /\ IF node = 1 /\ link THEN pc' = "sending" /\ UNCHANGED <<reply, disturbed>>
       ELSE Reply(Failed) /\ disturbed' = TRUE
    /\ UNCHANGED <<frame, link, next_request_id, wire>>

DeadlinePasses ==
    /\ pc # "idle" /\ ~ expired
    /\ expired' = TRUE /\ disturbed' = TRUE
    /\ UNCHANGED <<frame, link, pc, offset, reply, loops, wire, requests, since>>

NeverSpent == FALSE   \* mutant: the attempts are not limited
AttemptsSpent == attempts = 2

\* chunk(): one of its two attempts; an attempt is spent on a full queue too.
\* Without an answer to either the page fails.
Attempt ==
    /\ pc = "sending"
    /\ IF expired \/ AttemptsSpent
       THEN Reply(Failed) /\ UNCHANGED <<attempts, next_request_id, tx, disturbed>>
       ELSE /\ attempts' = attempts + 1
            /\ next_request_id' = (next_request_id + 1) % RequestIds
            /\ IF Len(tx) < TxCapacity
               THEN /\ tx' = Append(tx, [request_id |-> next_request_id',
                                         offset |-> offset + Len(assembly.cells)])
                    /\ pc' = "waiting" /\ UNCHANGED disturbed
               ELSE disturbed' = TRUE /\ UNCHANGED <<tx, pc>>
            /\ UNCHANGED reply
    /\ UNCHANGED <<frame, link, offset, expired, page_tries, assembly, pending, reading,
                   ptx, response, requests, since>>

\* mutant: the last attempt is awaited without a timer
TimerButForTheLast ==
    /\ pc = "waiting" /\ response = None /\ attempts < 2
    /\ pc' = "sending" /\ disturbed' = TRUE
    /\ UNCHANGED <<frame, link, offset, expired, reply, loops, wire, requests, since>>

\* The attempt's timer; an answer that is there already wins.
AttemptTimesOut ==
    /\ pc = "waiting" /\ response = None
    /\ pc' = "sending" /\ disturbed' = TRUE
    /\ UNCHANGED <<frame, link, offset, expired, reply, loops, wire, requests, since>>

\* An answer of an attempt that was given up is discarded.
AnyResponse == TRUE   \* mutant: the request id is not compared
ResponseMatches == response.request_id = next_request_id

\* read_page: the page is extended, completed, begun again once, or given up.
\* chunk() starts afresh for the next packet.
AcceptChunk ==
    LET decision == Decision(assembly, response)
        page == Extended(assembly, response) IN
    /\ pc = "waiting" /\ response # None
    /\ response' = None
    /\ \/ /\ ~ ResponseMatches
          /\ UNCHANGED <<pc, reply, page_tries, attempts, assembly>>
       \/ /\ ResponseMatches /\ decision = "Accepted"
          /\ pc' = "sending" /\ attempts' = 0 /\ assembly' = page
          /\ UNCHANGED <<reply, page_tries>>
       \/ /\ ResponseMatches /\ decision = "Complete"
          /\ Reply([start |-> offset, revision |-> page.revision,
                    total |-> page.total, cells |-> page.cells])
          /\ UNCHANGED <<page_tries, attempts, assembly>>
       \/ /\ ResponseMatches /\ decision = "Restart" /\ ~ expired /\ page_tries < 2
          /\ pc' = "sending" /\ attempts' = 0 /\ assembly' = NewAssembly
          /\ page_tries' = page_tries + 1
          /\ UNCHANGED reply
       \/ /\ ResponseMatches
          /\ \/ decision = "Invalid"
             \/ decision = "Restart" /\ (expired \/ page_tries = 2)
          /\ Reply(Failed)
          /\ UNCHANGED <<page_tries, attempts, assembly>>
    /\ UNCHANGED <<frame, link, offset, expired, next_request_id, tx, pending,
                   reading, ptx, requests, since, disturbed>>

-----------------------------------------------------------------------------
(* The way there and back.                                                 *)

\* The peripheral's inbox: a request is dropped while another is pending.
ProcessFrameRequest ==
    /\ tx # <<>>
    /\ tx' = Tail(tx)
    /\ IF pending = None THEN pending' = Head(tx) /\ UNCHANGED disturbed
       ELSE disturbed' = TRUE /\ UNCHANGED pending
    /\ UNCHANGED <<frame, link, pc, offset, expired, reply, loops, reading, ptx,
                   response, requests, since>>

\* The worker takes a request and asks its engine for the frame.
WorkerTakesRequest ==
    /\ pending # None /\ reading = None
    /\ reading' = pending /\ pending' = None
    /\ UNCHANGED <<frame, link, pc, offset, expired, reply, loops, tx, ptx, response,
                   requests, since, disturbed>>

\* PeripheralLightingWorker::diagnostic: the chunk enters an empty queue only.
WorkerReadsChunk ==
    /\ reading # None
    /\ reading' = None
    /\ IF ptx = <<>>
       THEN /\ ptx' = <<ChunkAt(reading.request_id, reading.offset)>>
            /\ UNCHANGED disturbed
       ELSE disturbed' = TRUE /\ UNCHANGED ptx
    /\ UNCHANGED <<frame, link, pc, offset, expired, reply, loops, tx, pending,
                   response, requests, since>>

\* The central's replication task passes the chunk on if the bridge has taken
\* the one before.
CentralForwardsChunk ==
    /\ ptx # <<>>
    /\ ptx' = Tail(ptx)
    /\ IF response = None THEN response' = Head(ptx) /\ UNCHANGED disturbed
       ELSE disturbed' = TRUE /\ UNCHANGED response
    /\ UNCHANGED <<frame, link, pc, offset, expired, reply, loops, tx, pending,
                   reading, requests, since>>

\* The link loses a packet, or the engine answers the worker with an error.
Lose ==
    /\ \/ tx # <<>> /\ tx' = Tail(tx) /\ UNCHANGED <<reading, ptx>>
       \/ reading # None /\ reading' = None /\ UNCHANGED <<tx, ptx>>
       \/ ptx # <<>> /\ ptx' = Tail(ptx) /\ UNCHANGED <<tx, reading>>
    /\ disturbed' = TRUE
    /\ UNCHANGED <<frame, link, pc, offset, expired, reply, loops, pending, response,
                   requests, since>>

-----------------------------------------------------------------------------
BridgeStep == Attempt \/ AcceptChunk

Next ==
    \/ FrameChanges \/ LinkChanges
    \/ \E node \in {0, 1}, o \in Offsets : TakeRequest(node, o)
    \/ DeadlinePasses \/ AttemptTimesOut \/ BridgeStep
    \/ ProcessFrameRequest \/ WorkerTakesRequest \/ WorkerReadsChunk
    \/ CentralForwardsChunk \/ Lose

Spec == Init /\ [][Next]_vars

\* The bridge is polled and its timer fires. Nothing is asked of the link.
FairSpec == Spec /\ WF_vars(BridgeStep) /\ WF_vars(AttemptTimesOut)

-----------------------------------------------------------------------------
Chunks ==
    [request_id : 0 .. (RequestIds - 1), revision : 1 .. MaxFrames, total : Totals,
     start : Nat, cells : Seq((1 .. MaxFrames) \X Nat)]

\* The variables have their types; the loops stay within their bounds and a
\* page never outgrows its buffer.
TypeOK ==
    /\ frame \in [revision : 1 .. MaxFrames, total : Totals] /\ link \in BOOLEAN
    /\ pc \in {"idle", "sending", "waiting"}
    /\ offset \in Offsets \cup {0}
    /\ page_tries \in 0 .. 2 /\ attempts \in 0 .. 2
    /\ next_request_id \in 0 .. (RequestIds - 1) /\ expired \in BOOLEAN
    /\ Len(assembly.cells) <= FRAME_CHUNK_SIZE
    /\ Len(tx) <= TxCapacity
    /\ Len(ptx) <= 1 /\ \A i \in DOMAIN ptx : ptx[i] \in Chunks
    /\ response \in Chunks \cup {None}

\* A page that is returned is one contiguous part of one frame: chunks of two
\* frames, repeated chunks and gaps never make it into a page, whichever
\* answers are lost or late.
PageIsUntorn ==
    reply # Failed =>
        \A i \in DOMAIN reply.cells :
            reply.cells[i] = <<reply.revision, reply.start + i - 1>>

\* A page that is returned is whole: it fills the buffer or reaches the end of
\* its frame. And it is not an answer to an earlier request: its frame was
\* still presented after the request was taken.
PageIsWholeAndFresh ==
    reply # Failed =>
        /\ \/ Len(reply.cells) = FRAME_CHUNK_SIZE
           \/ reply.start + Len(reply.cells) >= reply.total
        /\ pc = "idle" => reply.revision >= since

\* A page is refused only if something went wrong on the way; in particular
\* the frame's end, an offset behind it and the page's end fit the packets.
RefusedOnlyIfDisturbed ==
    requests > 0 /\ pc = "idle" /\ ~ disturbed => reply # Failed

\* Every request is answered: the bounded retries see to it even if nothing
\* ever comes back.
EveryRequestAnswered == pc # "idle" ~> pc = "idle"

=============================================================================
