-------------------------- MODULE RemoteFrameProofs --------------------------
(***************************************************************************)
(* Proofs about reading a page of the remote frame: for every packet size, *)
(* page size, frame length and loss on the way, a page is one whole part   *)
(* of one frame, and it is refused only if something went wrong.           *)
(*                                                                         *)
(* Three invariants are proved beside the types. UntornInv follows the     *)
(* cells from the worker through the packets into the page; FreshInv       *)
(* follows the revision of the answer that is waited for; QuietInv says    *)
(* where the one request is while nothing has gone wrong.                  *)
(***************************************************************************)
EXTENDS RemoteFrame, TLAPS

USE FrameConstants

-----------------------------------------------------------------------------
(* Chunks.                                                                 *)

\* The minimum is one of its arguments and above none.
LEMMA MinType ==
    ASSUME NEW a \in Nat, NEW b \in Nat
    PROVE  /\ Min({a, b}) \in {a, b} /\ Min({a, b}) <= a /\ Min({a, b}) <= b
           /\ \A c \in Nat : /\ Min({a, b, c}) \in {a, b, c}
                             /\ Min({a, b, c}) <= a /\ Min({a, b, c}) <= b
                             /\ Min({a, b, c}) <= c
<1>1. \E x \in {a, b} : \A y \in {a, b} : x <= y
  OBVIOUS
<1>2. \A c \in Nat : \E x \in {a, b, c} : \A y \in {a, b, c} : x <= y
  OBVIOUS
<1>3. /\ Min({a, b}) \in {a, b} /\ \A y \in {a, b} : Min({a, b}) <= y
  BY <1>1 DEF Min
<1>4. ASSUME NEW c \in Nat
      PROVE  Min({a, b, c}) \in {a, b, c} /\ \A y \in {a, b, c} : Min({a, b, c}) <= y
  BY <1>2 DEF Min
<1> QED
  BY <1>3, <1>4

\* The maximum with 0 cuts a negative number off: what is left of a frame.
LEMMA MaxType ==
    ASSUME NEW b \in Int
    PROVE  Max({0, b}) \in Nat /\ (b > 0 => Max({0, b}) = b) /\ (b <= 0 => Max({0, b}) = 0)
<1>1. \E x \in {0, b} : \A y \in {0, b} : x >= y
  OBVIOUS
<1>2. Max({0, b}) \in {0, b} /\ \A y \in {0, b} : Max({0, b}) >= y
  BY <1>1 DEF Max
<1> QED
  BY <1>2

\* The chunk the worker reads is a well-formed packet of the frame presented.
LEMMA ChunkFields ==
    ASSUME NEW id \in 0 .. (RequestIds - 1), NEW o \in Nat,
           frame \in [revision : 1 .. MaxFrames, total : Totals]
    PROVE  /\ ChunkAt(id, o) \in Chunks
           /\ ChunkAt(id, o).request_id = id /\ ChunkAt(id, o).start = o
           /\ ChunkAt(id, o).revision = frame.revision
           /\ ChunkAt(id, o).total = frame.total
           /\ Len(ChunkAt(id, o).cells) = Min({FRAME_CHUNK_CELLS, Max({0, frame.total - o})})
           /\ \A i \in DOMAIN ChunkAt(id, o).cells :
                ChunkAt(id, o).cells[i] = <<frame.revision, o + i - 1>>
<1> DEFINE len == Min({FRAME_CHUNK_CELLS, Max({0, frame.total - o})})
           cells == [i \in 1 .. len |-> <<frame.revision, o + i - 1>>]
<1>1. frame.total \in Nat /\ frame.revision \in 1 .. MaxFrames /\ frame.total \in Totals
  OBVIOUS
<1>2. len \in Nat
  BY <1>1, MaxType, MinType
<1> HIDE DEF len
<1>3. /\ cells \in Seq((1 .. MaxFrames) \X Nat) /\ Len(cells) = len
      /\ \A i \in DOMAIN cells : cells[i] = <<frame.revision, o + i - 1>>
  BY <1>1, <1>2
<1> HIDE DEF cells
<1>4. ChunkAt(id, o) = [request_id |-> id, revision |-> frame.revision,
                        total |-> frame.total, start |-> o, cells |-> cells]
  BY DEF ChunkAt, cells, len
<1>5. ChunkAt(id, o) \in Chunks
  BY <1>1, <1>3, <1>4 DEF Chunks
<1>6. /\ ChunkAt(id, o).request_id = id /\ ChunkAt(id, o).start = o
      /\ ChunkAt(id, o).revision = frame.revision
      /\ ChunkAt(id, o).total = frame.total /\ ChunkAt(id, o).cells = cells
  BY <1>4
<1>7. Len(cells) = Min({FRAME_CHUNK_CELLS, Max({0, frame.total - o})})
  BY <1>3 DEF len
<1> QED
  BY <1>3, <1>5, <1>6, <1>7

\* The cells a chunk must bring fit the packet and the room left in the page.
LEMMA WantedType ==
    ASSUME NEW a, NEW c \in Chunks, Len(a.cells) \in Nat, Len(a.cells) <= FRAME_CHUNK_SIZE
    PROVE  /\ Wanted(a, c) \in Nat /\ Wanted(a, c) <= FRAME_CHUNK_SIZE - Len(a.cells)
           /\ Wanted(a, c) <= FRAME_CHUNK_CELLS
           /\ Wanted(a, c) \in {Max({0, c.total - c.start}), FRAME_CHUNK_CELLS,
                                 FRAME_CHUNK_SIZE - Len(a.cells)}
<1>1. c.total \in Nat /\ c.start \in Nat
  BY DEF Chunks
<1>2. Max({0, c.total - c.start}) \in Nat
  BY <1>1, MaxType
<1>3. \A x, y, z \in Nat : /\ Min({x, y, z}) \in {x, y, z}
                            /\ Min({x, y, z}) <= y /\ Min({x, y, z}) <= z
  BY MinType
<1>4. FRAME_CHUNK_SIZE - Len(a.cells) \in Nat /\ FRAME_CHUNK_CELLS \in Nat
  OBVIOUS
<1>5. /\ Wanted(a, c) \in {Max({0, c.total - c.start}), FRAME_CHUNK_CELLS,
                            FRAME_CHUNK_SIZE - Len(a.cells)}
      /\ Wanted(a, c) <= FRAME_CHUNK_SIZE - Len(a.cells)
      /\ Wanted(a, c) <= FRAME_CHUNK_CELLS
  BY <1>2, <1>3, <1>4 DEF Wanted
<1> QED
  BY <1>2, <1>4, <1>5

-----------------------------------------------------------------------------
(* The type invariant.                                                     *)

\* Requests in the queues, and the cells of a page.
FrameRequests == [request_id : 0 .. (RequestIds - 1), offset : Nat]
Cells == Seq((1 .. MaxFrames) \X Nat)

\* TypeOK and the types of the queues, which it leaves open.
Types ==
    /\ TypeOK
    /\ assembly \in [revision : Nat, total : Nat, cells : Cells]
    /\ tx \in Seq(FrameRequests) /\ ptx \in Seq(Chunks)
    /\ pending \in FrameRequests \cup {None} /\ reading \in FrameRequests \cup {None}
    /\ requests \in Nat /\ since \in Nat

\* The bridge starts idle, with empty queues.
LEMMA InitTypes == Init => Types
<1> SUFFICES ASSUME Init PROVE Types
  OBVIOUS
<1>1. NewAssembly \in [revision : Nat, total : Nat, cells : Cells] /\ NewAssembly.cells = <<>>
  BY DEF NewAssembly, Cells
<1>2. frame \in [revision : 1 .. MaxFrames, total : Totals]
  BY DEF Init
<1>3. /\ Len(assembly.cells) <= FRAME_CHUNK_SIZE /\ Len(tx) <= TxCapacity
      /\ Len(ptx) <= 1 /\ \A i \in DOMAIN ptx : ptx[i] \in Chunks
  BY <1>1 DEF Init
<1>4. /\ link \in BOOLEAN /\ pc \in {"idle", "sending", "waiting"}
      /\ offset \in Offsets \cup {0} /\ expired \in BOOLEAN
      /\ page_tries \in 0 .. 2 /\ attempts \in 0 .. 2
  <2>1. /\ link \in BOOLEAN /\ expired \in BOOLEAN
        /\ pc = "idle" /\ offset = 0 /\ page_tries = 0 /\ attempts = 0
    BY DEF Init
  <2> QED
    BY <2>1
<1>5. next_request_id \in 0 .. (RequestIds - 1) /\ response \in Chunks \cup {None}
  <2>1. next_request_id = 0 /\ response = None
    BY DEF Init
  <2> QED
    BY <2>1
<1>6. TypeOK
  BY <1>2, <1>3, <1>4, <1>5 DEF TypeOK
<1>7. /\ assembly \in [revision : Nat, total : Nat, cells : Cells]
      /\ tx \in Seq(FrameRequests) /\ ptx \in Seq(Chunks)
      /\ pending \in FrameRequests \cup {None} /\ reading \in FrameRequests \cup {None}
      /\ requests \in Nat /\ since \in Nat
  BY <1>1 DEF Init
<1> QED
  BY <1>6, <1>7 DEF Types

\* What a page looks like after a chunk is taken.
LEMMA ExtendedType ==
    ASSUME Types, NEW c \in Chunks, Decision(assembly, c) \in {"Accepted", "Complete"}
    PROVE  /\ c.start = offset + Len(assembly.cells)
           /\ Len(c.cells) = Wanted(assembly, c)
           /\ Extended(assembly, c) \in [revision : Nat, total : Nat, cells : Cells]
           /\ Extended(assembly, c).revision = c.revision
           /\ Extended(assembly, c).total = c.total
           /\ Extended(assembly, c).cells = assembly.cells \o c.cells
           /\ Len(Extended(assembly, c).cells) = Len(assembly.cells) + Len(c.cells)
           /\ Len(Extended(assembly, c).cells) <= FRAME_CHUNK_SIZE
           /\ assembly.cells # <<>> => assembly.revision = c.revision
<1>1. /\ assembly.cells \in Cells /\ c.cells \in Cells /\ c.revision \in Nat /\ c.total \in Nat
      /\ Len(assembly.cells) <= FRAME_CHUNK_SIZE
  <2>1. c.cells \in Cells /\ c.revision \in 1 .. MaxFrames /\ c.total \in Totals
    BY DEF Chunks, Cells
  <2>2. c.revision \in Nat
    BY <2>1
  <2>4. c.total \in Nat
    BY <2>1, Totals \subseteq Nat
  <2>3. assembly.cells \in Cells /\ Len(assembly.cells) <= FRAME_CHUNK_SIZE
    BY DEF Types, TypeOK
  <2> QED
    BY <2>1, <2>2, <2>3, <2>4
<1>2. /\ c.start = offset + Len(assembly.cells)
      /\ Len(c.cells) = Wanted(assembly, c)
      /\ assembly.cells # <<>> => assembly.revision = c.revision
  BY DEF Decision, FrameKept
<1>3. assembly.cells \o c.cells \in Cells
      /\ Len(assembly.cells \o c.cells) = Len(assembly.cells) + Len(c.cells)
  BY <1>1 DEF Cells
<1>4. Len(assembly.cells) + Len(c.cells) <= FRAME_CHUNK_SIZE
  <2>1. Len(assembly.cells) \in Nat /\ Len(c.cells) \in Nat
    BY <1>1 DEF Cells
  <2>2. Wanted(assembly, c) <= FRAME_CHUNK_SIZE - Len(assembly.cells)
    BY <1>1, <2>1, WantedType
  <2> QED
    BY <1>2, <2>1, <2>2
<1> QED
  BY <1>1, <1>2, <1>3, <1>4 DEF Extended

\* The bridge keeps the types: its loops stay within two tries and two attempts,
\* and the page within its buffer.
LEMMA BridgeTypes ==
    ASSUME Types, BridgeStep \/ AttemptTimesOut \/ DeadlinePasses
    PROVE  Types'
<1> USE DEF Types, TypeOK
<1>1. CASE Attempt
  <2> USE <1>1 DEF Attempt, Reply
  <2>1. /\ UNCHANGED <<frame, link, offset, expired, page_tries, assembly, pending,
                       reading, ptx, response, requests, since>>
        /\ pc' \in {"idle", "sending", "waiting"}
    OBVIOUS
  <2>2. attempts' \in 0 .. 2 /\ next_request_id' \in 0 .. (RequestIds - 1)
    <3>1. CASE UNCHANGED <<attempts, next_request_id>>
      BY <3>1
    <3>2. CASE /\ attempts # 2 /\ attempts' = attempts + 1
               /\ next_request_id' = (next_request_id + 1) % RequestIds
      <4>1. attempts' \in 0 .. 2
        BY <3>2
      <4>2. next_request_id + 1 \in Nat /\ RequestIds \in Nat \ {0}
        BY FrameConstants
      <4>3. (next_request_id + 1) % RequestIds \in 0 .. (RequestIds - 1)
        BY <4>2
      <4> QED
        BY <3>2, <4>1, <4>3
    <3> QED
      BY <3>1, <3>2 DEF AttemptsSpent
  <2>3. tx' \in Seq(FrameRequests) /\ Len(tx') <= TxCapacity
    <3>1. CASE tx' = tx
      BY <3>1
    <3>2. CASE /\ Len(tx) < TxCapacity
               /\ tx' = Append(tx, [request_id |-> next_request_id',
                                    offset |-> offset + Len(assembly.cells)])
      <4>1. offset + Len(assembly.cells) \in Nat
        BY DEF Cells
      <4>2. [request_id |-> next_request_id', offset |-> offset + Len(assembly.cells)]
               \in FrameRequests
        BY <2>2, <4>1 DEF FrameRequests
      <4> QED
        BY <3>2, <4>2
    <3> QED
      BY <3>1, <3>2
  <2> QED
    BY <2>1, <2>2, <2>3
<1>2. CASE AcceptChunk
  <2> USE <1>2 DEF AcceptChunk, Reply
  <2>1. /\ UNCHANGED <<frame, link, offset, expired, next_request_id, tx, pending,
                       reading, ptx, requests, since>>
        /\ response' = None /\ response \in Chunks
        /\ pc' \in {"idle", "sending", "waiting"} /\ attempts' \in 0 .. 2
    OBVIOUS
  <2>2. page_tries' \in 0 .. 2
    OBVIOUS
  <2>3. /\ assembly' \in [revision : Nat, total : Nat, cells : Cells]
        /\ Len(assembly'.cells) <= FRAME_CHUNK_SIZE
    <3>1. CASE assembly' = assembly
      BY <3>1
    <3>2. CASE assembly' = NewAssembly
      BY <3>2 DEF NewAssembly, Cells
    <3>3. CASE Decision(assembly, response) = "Accepted"
               /\ assembly' = Extended(assembly, response)
      BY <2>1, <3>3, ExtendedType
    <3> QED
      BY <3>1, <3>2, <3>3
  <2> QED
    BY <2>1, <2>2, <2>3
<1>3. CASE AttemptTimesOut
  BY <1>3 DEF AttemptTimesOut, loops, wire
<1>4. CASE DeadlinePasses
  BY <1>4 DEF DeadlinePasses, loops, wire
<1> QED
  BY <1>1, <1>2, <1>3, <1>4 DEF BridgeStep

\* So do the queues, the worker and the central's replication task.
LEMMA WireTypes ==
    ASSUME Types, \/ ProcessFrameRequest \/ WorkerTakesRequest \/ WorkerReadsChunk
                  \/ CentralForwardsChunk \/ Lose
    PROVE  Types'
<1> USE DEF Types, TypeOK, loops
<1>1. CASE ProcessFrameRequest
  <2>1. Head(tx) \in FrameRequests /\ tx' \in Seq(FrameRequests) /\ Len(tx') <= TxCapacity
    BY <1>1 DEF ProcessFrameRequest
  <2> QED
    BY <1>1, <2>1 DEF ProcessFrameRequest
<1>2. CASE WorkerTakesRequest
  BY <1>2 DEF WorkerTakesRequest
<1>3. CASE WorkerReadsChunk
  <2>1. reading \in FrameRequests /\ reading.request_id \in 0 .. (RequestIds - 1)
        /\ reading.offset \in Nat
    BY <1>3 DEF WorkerReadsChunk, FrameRequests
  <2>2. ChunkAt(reading.request_id, reading.offset) \in Chunks
    BY <2>1, ChunkFields
  <2>3. ptx' \in Seq(Chunks) /\ Len(ptx') <= 1 /\ \A i \in DOMAIN ptx' : ptx'[i] \in Chunks
    <3>1. CASE ptx' = ptx
      BY <3>1
    <3>2. CASE ptx' = <<ChunkAt(reading.request_id, reading.offset)>>
      BY <2>2, <3>2
    <3> QED
      BY <1>3, <3>1, <3>2 DEF WorkerReadsChunk
  <2> QED
    BY <1>3, <2>3 DEF WorkerReadsChunk
<1>4. CASE CentralForwardsChunk
  <2>1. Head(ptx) \in Chunks /\ ptx' \in Seq(Chunks) /\ Len(ptx') <= 1
    BY <1>4 DEF CentralForwardsChunk
  <2>2. \A i \in DOMAIN ptx' : ptx'[i] \in Chunks
    BY <2>1
  <2> QED
    BY <1>4, <2>1, <2>2 DEF CentralForwardsChunk
<1>5. CASE Lose
  <2>1. /\ tx' \in Seq(FrameRequests) /\ Len(tx') <= TxCapacity
        /\ ptx' \in Seq(Chunks) /\ Len(ptx') <= 1
        /\ reading' \in FrameRequests \cup {None}
    <3>1. CASE tx # <<>> /\ tx' = Tail(tx) /\ UNCHANGED <<reading, ptx>>
      BY <3>1
    <3>2. CASE reading # None /\ reading' = None /\ UNCHANGED <<tx, ptx>>
      BY <3>2
    <3>3. CASE ptx # <<>> /\ ptx' = Tail(ptx) /\ UNCHANGED <<tx, reading>>
      BY <3>3
    <3> QED
      BY <1>5, <3>1, <3>2, <3>3 DEF Lose
  <2>2. \A i \in DOMAIN ptx' : ptx'[i] \in Chunks
    BY <2>1
  <2> QED
    BY <1>5, <2>1, <2>2 DEF Lose
<1> QED
  BY <1>1, <1>2, <1>3, <1>4, <1>5

\* So does every step.
LEMMA TypeStep == Types /\ [Next]_vars => Types'
<1> SUFFICES ASSUME Types, [Next]_vars PROVE Types'
  OBVIOUS
<1> USE DEF Types, TypeOK, loops, wire
<1>1. CASE FrameChanges
  BY <1>1 DEF FrameChanges
<1>2. CASE LinkChanges
  BY <1>2 DEF LinkChanges
<1>3. ASSUME NEW node \in {0, 1}, NEW o \in Offsets, TakeRequest(node, o) PROVE Types'
  <2>1. NewAssembly \in [revision : Nat, total : Nat, cells : Cells] /\ NewAssembly.cells = <<>>
    BY DEF NewAssembly, Cells
  <2>2. /\ UNCHANGED <<frame, link, next_request_id, tx, pending, reading, ptx, response>>
        /\ since' = frame.revision /\ requests' = requests + 1 /\ offset' = o
        /\ expired' = FALSE /\ page_tries' = 1 /\ attempts' = 0
        /\ assembly' = NewAssembly /\ pc' \in {"idle", "sending"}
    BY <1>3 DEF TakeRequest, Reply
  <2>3. since' \in Nat
    BY <2>2
  <2>4. /\ assembly' \in [revision : Nat, total : Nat, cells : Cells]
        /\ Len(assembly'.cells) <= FRAME_CHUNK_SIZE
    BY <2>1, <2>2
  <2>5. offset' \in Offsets \cup {0} /\ page_tries' \in 0 .. 2 /\ attempts' \in 0 .. 2
    BY <2>2
  <2>8. expired' \in BOOLEAN
    BY <2>2
  <2>7. requests' \in Nat
    BY <2>2
  <2>6. TypeOK'
    BY <2>2, <2>4, <2>5, <2>8
  <2> QED
    BY <2>2, <2>3, <2>4, <2>6, <2>7
<1>4. CASE UNCHANGED vars
  BY <1>4 DEF vars
<1> QED
  BY <1>1, <1>2, <1>3, <1>4, BridgeTypes, WireTypes DEF Next

\* The loops stay within their bounds, a page never outgrows its buffer and the
\* queues their slots.
THEOREM FrameTypeCorrect == Spec => []TypeOK
<1>1. Types => TypeOK
  BY DEF Types
<1> QED
  BY <1>1, InitTypes, TypeStep, PTL DEF Spec

-----------------------------------------------------------------------------
(* Untorn, whole and fresh pages.                                          *)

\* The cells are those of one frame, from LED start on.
Contiguous(cells, revision, start) ==
    \A i \in DOMAIN cells : cells[i] = <<revision, start + i - 1>>

\* The cells of the page under construction, and those of every chunk on its
\* way, are one part of the frame they name. PageIsUntorn says so of the answer
\* only.
UntornInv ==
    /\ PageIsUntorn
    /\ Contiguous(assembly.cells, assembly.revision, offset)
    /\ \A i \in DOMAIN ptx : Contiguous(ptx[i].cells, ptx[i].revision, ptx[i].start)
    /\ response # None => Contiguous(response.cells, response.revision, response.start)

\* A page that is returned fills the buffer or reaches the end of its frame.
PageIsWhole ==
    reply # Failed => \/ Len(reply.cells) = FRAME_CHUNK_SIZE
                      \/ reply.start + Len(reply.cells) >= reply.total

\* No answer that carries the id of a new attempt is still on its way: the u8
\* counter has not come round behind a delayed answer.
FreshIds ==
    Attempt /\ pc' = "waiting" =>
        /\ \A i \in DOMAIN ptx : ptx[i].request_id # next_request_id'
        /\ response # None => response.request_id # next_request_id'

\* What the bridge holds or may take is of a frame that was presented after the
\* request was taken; chunks with other ids may be older.
FreshInv ==
    /\ since <= frame.revision
    /\ pc = "waiting" =>
        /\ \A i \in DOMAIN ptx :
               ptx[i].request_id = next_request_id => ptx[i].revision >= since
        /\ response # None /\ response.request_id = next_request_id =>
               response.revision >= since
    /\ pc # "idle" /\ assembly.cells # <<>> => assembly.revision >= since
    /\ pc = "idle" /\ reply # Failed => reply.revision >= since

\* Two parts of a frame that meet are one part.
LEMMA ContiguousJoin ==
    ASSUME NEW a \in Cells, NEW b \in Cells, NEW r \in Nat, NEW o \in Nat,
           Contiguous(a, r, o), Contiguous(b, r, o + Len(a))
    PROVE  Contiguous(a \o b, r, o)
<1> SUFFICES ASSUME NEW i \in DOMAIN (a \o b) PROVE (a \o b)[i] = <<r, o + i - 1>>
  BY DEF Contiguous
<1>1. Len(a) \in Nat /\ Len(b) \in Nat /\ i \in 1 .. (Len(a) + Len(b))
  BY DEF Cells
<1>2. CASE i <= Len(a)
  <2>1. (a \o b)[i] = a[i] /\ i \in DOMAIN a
    BY <1>1, <1>2 DEF Cells
  <2> QED
    BY <2>1 DEF Contiguous
<1>3. CASE i > Len(a)
  <2>1. (a \o b)[i] = b[i - Len(a)] /\ i - Len(a) \in DOMAIN b
    BY <1>1, <1>3 DEF Cells
  <2>2. b[i - Len(a)] = <<r, o + Len(a) + (i - Len(a)) - 1>>
    BY <2>1 DEF Contiguous
  <2>3. o + Len(a) + (i - Len(a)) - 1 = o + i - 1
    BY <1>1
  <2> QED
    BY <2>1, <2>2, <2>3
<1> QED
  BY <1>1, <1>2, <1>3

\* A chunk that FramePageAssembly::accept takes continues the page where it
\* ends, in the same frame.
LEMMA ExtendedContiguous ==
    ASSUME Types, UntornInv, response # None,
           Decision(assembly, response) \in {"Accepted", "Complete"}
    PROVE  LET page == Extended(assembly, response) IN
               Contiguous(page.cells, page.revision, offset)
<1>1. response \in Chunks
  BY DEF Types, TypeOK
<1>2. /\ assembly.cells \in Cells /\ response.cells \in Cells
      /\ response.revision \in Nat /\ offset \in Nat
  <2>1. response.cells \in Cells /\ response.revision \in 1 .. MaxFrames
    BY <1>1 DEF Chunks, Cells
  <2>2. assembly.cells \in Cells /\ offset \in Offsets \cup {0}
    BY DEF Types, TypeOK
  <2>3. response.revision \in Nat
    BY <2>1
  <2>4. offset \in Nat
    BY <2>2
  <2> QED
    BY <2>1, <2>2, <2>3, <2>4
<1>3. /\ response.start = offset + Len(assembly.cells)
      /\ Extended(assembly, response).revision = response.revision
      /\ Extended(assembly, response).cells = assembly.cells \o response.cells
      /\ assembly.cells # <<>> => assembly.revision = response.revision
  BY <1>1, ExtendedType
<1>4. Contiguous(assembly.cells, response.revision, offset)
  <2>1. CASE assembly.cells = <<>>
    BY <2>1 DEF Contiguous
  <2>2. CASE assembly.cells # <<>>
    BY <1>3, <2>2 DEF UntornInv
  <2> QED
    BY <2>1, <2>2
<1>5. Contiguous(response.cells, response.revision, offset + Len(assembly.cells))
  BY <1>3 DEF UntornInv
<1> QED
  BY <1>2, <1>3, <1>4, <1>5, ContiguousJoin

\* The frame presented is of a type of its own.
LEMMA FrameType == Types => frame \in [revision : 1 .. MaxFrames, total : Totals]
  BY DEF Types, TypeOK

\* The chunk the worker reads is one part of the frame presented.
LEMMA ReadContiguous ==
    ASSUME NEW id \in 0 .. (RequestIds - 1), NEW o \in Nat,
           frame \in [revision : 1 .. MaxFrames, total : Totals]
    PROVE  LET c == ChunkAt(id, o) IN Contiguous(c.cells, c.revision, c.start)
<1>1. ChunkAt(id, o).start = o
  BY DEF ChunkAt
<1>2. ChunkAt(id, o).revision = frame.revision
  BY DEF ChunkAt
<1>3. \A i \in DOMAIN ChunkAt(id, o).cells :
          ChunkAt(id, o).cells[i] = <<frame.revision, o + i - 1>>
  BY DEF ChunkAt
<1>4. Contiguous(ChunkAt(id, o).cells, frame.revision, o)
  BY <1>3 DEF Contiguous
<1> QED
  BY <1>1, <1>2, <1>4

\* No step mixes frames, whichever answers are lost, repeated or late.
LEMMA UntornStep == Types /\ UntornInv /\ [Next]_vars => UntornInv'
<1> SUFFICES ASSUME Types, UntornInv, [Next]_vars PROVE UntornInv'
  OBVIOUS
<1> USE DEF loops, wire
<1>0. ASSUME UNCHANGED <<reply, assembly, offset, ptx, response>> PROVE UntornInv'
  BY <1>0 DEF UntornInv, PageIsUntorn, Contiguous
<1>1. CASE FrameChanges \/ LinkChanges \/ DeadlinePasses \/ AttemptTimesOut
  BY <1>0, <1>1 DEF FrameChanges, LinkChanges, DeadlinePasses, AttemptTimesOut
<1>2. CASE ProcessFrameRequest \/ WorkerTakesRequest
  BY <1>0, <1>2 DEF ProcessFrameRequest, WorkerTakesRequest
<1>3. ASSUME NEW node \in {0, 1}, NEW o \in Offsets, TakeRequest(node, o)
      PROVE  UntornInv'
  <2>1. /\ UNCHANGED <<ptx, response>> /\ assembly' = NewAssembly
        /\ reply' = reply \/ reply' = Failed
    BY <1>3 DEF TakeRequest, Reply
  <2>2. Contiguous(assembly'.cells, assembly'.revision, offset')
    BY <2>1 DEF Contiguous, NewAssembly
  <2>3. PageIsUntorn'
    BY <2>1 DEF UntornInv, PageIsUntorn
  <2> QED
    BY <2>1, <2>2, <2>3 DEF UntornInv
<1>4. CASE Attempt
  <2>1. UNCHANGED <<assembly, offset, ptx, response>> /\ (reply' = reply \/ reply' = Failed)
    BY <1>4 DEF Attempt, Reply
  <2>2. PageIsUntorn'
    BY <2>1 DEF UntornInv, PageIsUntorn
  <2> QED
    BY <2>1, <2>2 DEF UntornInv
<1>5. CASE AcceptChunk
  <2>1. UNCHANGED <<offset, ptx>> /\ response # None /\ response' = None
    BY <1>5 DEF AcceptChunk
  <2>2. Contiguous(assembly'.cells, assembly'.revision, offset')
    <3>1. CASE assembly' = assembly
      BY <2>1, <3>1 DEF UntornInv
    <3>2. CASE assembly' = NewAssembly
      BY <3>2 DEF NewAssembly, Contiguous
    <3>3. CASE /\ Decision(assembly, response) = "Accepted"
               /\ assembly' = Extended(assembly, response)
      BY <2>1, <3>3, ExtendedContiguous
    <3> QED
      BY <1>5, <3>1, <3>2, <3>3 DEF AcceptChunk
  <2>3. PageIsUntorn'
    <3>1. CASE reply' = reply \/ reply' = Failed
      BY <3>1 DEF UntornInv, PageIsUntorn
    <3>2. ASSUME Decision(assembly, response) = "Complete",
                 NEW page, page = Extended(assembly, response),
                 reply' = [start |-> offset, revision |-> page.revision,
                           total |-> page.total, cells |-> page.cells]
          PROVE  PageIsUntorn'
      <4>1. Contiguous(page.cells, page.revision, offset)
        BY <2>1, <3>2, ExtendedContiguous
      <4>2. /\ reply'.start = offset /\ reply'.revision = page.revision
            /\ reply'.cells = page.cells
        BY <3>2
      <4> QED
        BY <4>1, <4>2 DEF PageIsUntorn, Contiguous
    <3> QED
      BY <1>5, <3>1, <3>2 DEF AcceptChunk, Reply
  <2> QED
    BY <2>1, <2>2, <2>3 DEF UntornInv
<1>6. CASE WorkerReadsChunk
  <2>1. UNCHANGED <<reply, assembly, offset, response>> /\ reading # None
        /\ (ptx' = ptx \/ ptx' = <<ChunkAt(reading.request_id, reading.offset)>>)
    BY <1>6 DEF WorkerReadsChunk
  <2>2. \A i \in DOMAIN ptx' : Contiguous(ptx'[i].cells, ptx'[i].revision, ptx'[i].start)
    <3>1. CASE ptx' = ptx
      BY <3>1 DEF UntornInv
    <3>2. CASE ptx' = <<ChunkAt(reading.request_id, reading.offset)>>
      <4>1. reading.request_id \in 0 .. (RequestIds - 1) /\ reading.offset \in Nat
        BY <2>1 DEF Types, FrameRequests
      <4> DEFINE c == ChunkAt(reading.request_id, reading.offset)
      <4>2. Contiguous(c.cells, c.revision, c.start)
        BY <4>1, FrameType, ReadContiguous
      <4>3. ptx' = <<c>>
        BY <3>2
      <4> HIDE DEF c
      <4> QED
        BY <4>2, <4>3
    <3> QED
      BY <2>1, <3>1, <3>2
  <2>3. PageIsUntorn'
    BY <2>1 DEF UntornInv, PageIsUntorn
  <2> QED
    BY <2>1, <2>2, <2>3 DEF UntornInv
<1>7. CASE CentralForwardsChunk \/ Lose
  <2>1. UNCHANGED <<reply, assembly, offset>>
        /\ (ptx' = ptx \/ (ptx # <<>> /\ ptx' = Tail(ptx)))
        /\ (response' = response \/ (ptx # <<>> /\ response' = Head(ptx)))
    BY <1>7 DEF CentralForwardsChunk, Lose
  <2>2. \A i \in DOMAIN ptx' : Contiguous(ptx'[i].cells, ptx'[i].revision, ptx'[i].start)
    <3>1. ptx \in Seq(Chunks)
      BY DEF Types
    <3>2. \A i \in DOMAIN ptx' : \E j \in DOMAIN ptx : ptx'[i] = ptx[j]
      BY <2>1, <3>1
    <3> QED
      BY <3>2 DEF UntornInv
  <2>3. response' # None =>
            Contiguous(response'.cells, response'.revision, response'.start)
    <3>1. ptx # <<>> => Head(ptx) = ptx[1] /\ 1 \in DOMAIN ptx
      BY DEF Types
    <3> QED
      BY <2>1, <3>1 DEF UntornInv
  <2>4. PageIsUntorn'
    BY <2>1 DEF UntornInv, PageIsUntorn
  <2> QED
    BY <2>1, <2>2, <2>3, <2>4 DEF UntornInv
<1>8. CASE UNCHANGED vars
  BY <1>0, <1>8 DEF vars
<1> QED
  BY <1>1, <1>2, <1>3, <1>4, <1>5, <1>6, <1>7, <1>8 DEF Next, BridgeStep

\* A page that is returned is one contiguous part of one frame.
THEOREM FramePageUntorn == Spec => []PageIsUntorn
<1>1. Init => UntornInv
  BY DEF Init, UntornInv, PageIsUntorn, Contiguous, NewAssembly, None, Failed
<1>2. UntornInv => PageIsUntorn
  BY DEF UntornInv
<1> QED
  BY <1>1, <1>2, InitTypes, TypeStep, UntornStep, PTL DEF Spec

\* Only a decision Complete answers with a page.
LEMMA WholeStep == Types /\ PageIsWhole /\ [Next]_vars => PageIsWhole'
<1> SUFFICES ASSUME Types, PageIsWhole, [Next]_vars PROVE PageIsWhole'
  OBVIOUS
<1>1. CASE reply' = reply \/ reply' = Failed
  BY <1>1 DEF PageIsWhole
<1>2. CASE AcceptChunk /\ ~ (reply' = reply \/ reply' = Failed)
  <2> DEFINE page == Extended(assembly, response)
  <2>1. /\ response # None /\ Decision(assembly, response) = "Complete"
        /\ reply' = [start |-> offset, revision |-> page.revision,
                     total |-> page.total, cells |-> page.cells]
    BY <1>2 DEF AcceptChunk, Reply
  <2>2. response \in Chunks
    BY <2>1 DEF Types, TypeOK
  <2>3. /\ Len(page.cells) = Len(assembly.cells) + Len(response.cells)
        /\ page.cells = assembly.cells \o response.cells
        /\ page.total = response.total
        /\ response.start = offset + Len(assembly.cells)
    BY <2>1, <2>2, ExtendedType
  <2>4. /\ reply'.start = offset /\ reply'.total = page.total
        /\ reply'.cells = page.cells
    BY <2>1
  <2>5. \/ Len(assembly.cells \o response.cells) = FRAME_CHUNK_SIZE
        \/ response.start + Len(response.cells) >= response.total
    BY <2>1 DEF Decision
  <2>6. offset + Len(page.cells) = response.start + Len(response.cells)
    <3>1. Len(assembly.cells) \in Nat /\ Len(response.cells) \in Nat
      BY <2>2 DEF Types, Cells, Chunks
    <3>2. offset \in Offsets \cup {0}
      BY DEF Types, TypeOK
    <3>3. offset \in Nat
      BY <3>2
    <3>4. /\ Len(page.cells) = Len(assembly.cells) + Len(response.cells)
          /\ response.start = offset + Len(assembly.cells)
      BY <2>3
    <3> DEFINE m == Len(assembly.cells)
               n == Len(response.cells)
               l == Len(page.cells)
               s == response.start
    <3>5. m \in Nat /\ n \in Nat /\ l = m + n /\ s = offset + m
      BY <3>1, <3>4
    <3> HIDE DEF page, m, n, l, s
    <3>6. offset + l = s + n
      BY <3>3, <3>5
    <3> QED
      BY <3>6 DEF l, s, n
  <2> HIDE DEF page
  <2> QED
    BY <2>3, <2>4, <2>5, <2>6 DEF PageIsWhole
<1>3. CASE ~ AcceptChunk
  <2>1. reply' = reply \/ reply' = Failed
    BY <1>3 DEF Next, BridgeStep, FrameChanges, LinkChanges, TakeRequest, DeadlinePasses,
            AttemptTimesOut, Attempt, Reply, ProcessFrameRequest, WorkerTakesRequest,
            WorkerReadsChunk, CentralForwardsChunk, Lose, vars
  <2> QED
    BY <1>1, <2>1
<1> QED
  BY <1>1, <1>2, <1>3

\* An answer with the id that is waited for was read after the attempt was made,
\* hence after the request was taken.
LEMMA FreshStep == Types /\ FreshInv /\ FreshIds /\ [Next]_vars => FreshInv'
<1> SUFFICES ASSUME Types, FreshInv, FreshIds, [Next]_vars PROVE FreshInv'
  OBVIOUS
<1> USE DEF loops, wire
<1>0. frame.revision \in Nat /\ since \in Nat
  <2>1. frame.revision \in 1 .. MaxFrames
    BY FrameType
  <2> QED
    BY <2>1 DEF Types
<1>1. ASSUME UNCHANGED <<since, next_request_id, ptx, response, assembly, reply>>,
             frame'.revision >= frame.revision, frame'.revision \in Nat,
             pc' = pc \/ (pc # "idle" /\ pc' = "sending")
      PROVE  FreshInv'
  <2>1. since' <= frame'.revision
    BY <1>0, <1>1 DEF FreshInv
  <2> QED
    BY <1>1, <2>1 DEF FreshInv
<1>2. CASE FrameChanges
  <2>1. frame'.revision = frame.revision + 1
    BY <1>2 DEF FrameChanges
  <2>2. frame'.revision >= frame.revision /\ frame'.revision \in Nat
    BY <1>0, <2>1
  <2> QED
    BY <1>1, <1>2, <2>2 DEF FrameChanges
<1>3. frame' = frame => frame'.revision >= frame.revision /\ frame'.revision \in Nat
  BY <1>0
<1>4. CASE LinkChanges \/ DeadlinePasses \/ AttemptTimesOut
  BY <1>1, <1>3, <1>4 DEF LinkChanges, DeadlinePasses, AttemptTimesOut
<1>5. CASE ProcessFrameRequest \/ WorkerTakesRequest
  BY <1>1, <1>3, <1>5 DEF ProcessFrameRequest, WorkerTakesRequest
<1>6. ASSUME NEW node \in {0, 1}, NEW o \in Offsets, TakeRequest(node, o)
      PROVE  FreshInv'
  <2>1. /\ since' = frame.revision /\ frame' = frame /\ assembly' = NewAssembly
        /\ pc' = "sending" \/ (pc' = "idle" /\ reply' = Failed)
    BY <1>6 DEF TakeRequest, Reply
  <2>2. assembly'.cells = <<>> /\ since' <= frame'.revision
    BY <1>0, <2>1 DEF NewAssembly
  <2> QED
    BY <2>1, <2>2 DEF FreshInv
<1>7. CASE Attempt
  <2>1. /\ UNCHANGED <<frame, assembly, ptx, response, since>> /\ pc # "idle"
        /\ pc' # "idle" \/ reply' = Failed
    BY <1>7 DEF Attempt, Reply
  <2>2. pc' = "waiting" =>
            /\ \A i \in DOMAIN ptx' : ptx'[i].request_id # next_request_id'
            /\ response' # None => response'.request_id # next_request_id'
    BY <1>7, <2>1 DEF FreshIds
  <2> QED
    BY <2>1, <2>2 DEF FreshInv
<1>8. CASE AcceptChunk
  <2>1. /\ UNCHANGED <<frame, ptx, since, next_request_id>> /\ response' = None
        /\ response # None /\ pc = "waiting"
    BY <1>8 DEF AcceptChunk
  <2>2. CASE UNCHANGED <<pc, reply, assembly>>
    BY <2>1, <2>2 DEF FreshInv
  <2>3. CASE pc' = "sending" /\ assembly' = NewAssembly
    <3>1. assembly'.cells = <<>>
      BY <2>3 DEF NewAssembly
    <3> QED
      BY <2>1, <2>3, <3>1 DEF FreshInv
  <2>4. CASE pc' = "idle" /\ reply' = Failed
    BY <2>1, <2>4 DEF FreshInv
  <2> DEFINE page == Extended(assembly, response)
  <2>5. CASE /\ ResponseMatches /\ Decision(assembly, response) \in {"Accepted", "Complete"}
             /\ \/ pc' = "sending" /\ assembly' = page
                \/ /\ pc' = "idle"
                   /\ reply' = [start |-> offset, revision |-> page.revision,
                                total |-> page.total, cells |-> page.cells]
    <3>1. response \in Chunks
      BY <2>1 DEF Types, TypeOK
    <3>2. page.revision = response.revision
      BY <2>5, <3>1, ExtendedType
    <3>3. response.revision >= since
      BY <2>1, <2>5 DEF FreshInv, ResponseMatches
    <3> HIDE DEF page
    <3>4. CASE pc' = "sending" /\ assembly' = page
      BY <2>1, <3>2, <3>3, <3>4 DEF FreshInv
    <3>5. CASE /\ pc' = "idle"
               /\ reply' = [start |-> offset, revision |-> page.revision,
                            total |-> page.total, cells |-> page.cells]
      <4>1. reply'.revision = page.revision
        BY <3>5
      <4> QED
        BY <2>1, <3>2, <3>3, <3>5, <4>1 DEF FreshInv
    <3> QED
      BY <2>5, <3>4, <3>5
  <2> QED
    BY <1>8, <2>2, <2>3, <2>4, <2>5 DEF AcceptChunk, Reply
<1>9. CASE WorkerReadsChunk
  <2>1. /\ UNCHANGED <<frame, since, next_request_id, response, pc, assembly, reply>>
        /\ reading # None
        /\ (ptx' = ptx \/ ptx' = <<ChunkAt(reading.request_id, reading.offset)>>)
    BY <1>9 DEF WorkerReadsChunk
  <2>2. CASE ptx' = ptx
    BY <2>1, <2>2 DEF FreshInv
  <2>3. CASE ptx' = <<ChunkAt(reading.request_id, reading.offset)>>
    <3> DEFINE c == ChunkAt(reading.request_id, reading.offset)
    <3>1. c.revision = frame.revision
      BY DEF ChunkAt
    <3>2. ptx' = <<c>>
      BY <2>3
    <3> HIDE DEF c
    <3>3. \A i \in DOMAIN ptx' : ptx'[i].revision >= since
      BY <1>0, <3>1, <3>2 DEF FreshInv
    <3> QED
      BY <2>1, <3>3 DEF FreshInv
  <2> QED
    BY <2>1, <2>2, <2>3
<1>10. CASE CentralForwardsChunk \/ Lose
  <2>1. /\ UNCHANGED <<frame, since, next_request_id, pc, assembly, reply>>
        /\ (ptx' = ptx \/ (ptx # <<>> /\ ptx' = Tail(ptx)))
        /\ (response' = response \/ (ptx # <<>> /\ response' = Head(ptx)))
    BY <1>10 DEF CentralForwardsChunk, Lose
  <2>2. ptx \in Seq(Chunks)
    BY DEF Types
  <2>3. \A i \in DOMAIN ptx' : \E j \in DOMAIN ptx : ptx'[i] = ptx[j]
    BY <2>1, <2>2
  <2>4. ptx # <<>> => Head(ptx) = ptx[1] /\ 1 \in DOMAIN ptx
    BY <2>2
  <2>5. pc = "waiting" =>
            \A i \in DOMAIN ptx' :
                ptx'[i].request_id = next_request_id => ptx'[i].revision >= since
    BY <2>3 DEF FreshInv
  <2>6. pc = "waiting" =>
            (response' # None /\ response'.request_id = next_request_id =>
                 response'.revision >= since)
    BY <2>1, <2>4 DEF FreshInv
  <2> QED
    BY <2>1, <2>5, <2>6 DEF FreshInv
<1>11. CASE UNCHANGED vars
  BY <1>1, <1>3, <1>11 DEF vars
<1> QED
  BY <1>2, <1>4, <1>5, <1>6, <1>7, <1>8, <1>9, <1>10, <1>11 DEF Next, BridgeStep

\* A page that is returned is whole, whatever the ids do.
THEOREM FramePageWhole == Spec => []PageIsWhole
<1>1. Init => PageIsWhole
  BY DEF Init, PageIsWhole
<1> QED
  BY <1>1, InitTypes, TypeStep, WholeStep, PTL DEF Spec

\* And its frame was still presented after the request was taken, as long as the
\* id counter does not come round behind a delayed answer.
THEOREM FramePageWholeAndFresh ==
    Spec /\ [][FreshIds]_vars => []PageIsWholeAndFresh
<1>1. Init => PageIsWhole /\ FreshInv
  BY DEF Init, PageIsWhole, FreshInv, NewAssembly
<1>2. PageIsWhole /\ FreshInv => PageIsWholeAndFresh
  BY DEF PageIsWhole, FreshInv, PageIsWholeAndFresh
<1>3. Types /\ FreshInv /\ UNCHANGED vars => FreshInv'
  BY DEF vars, loops, wire, FreshInv
<1>4. Types /\ FreshInv /\ [Next]_vars /\ [FreshIds]_vars => FreshInv'
  BY <1>3, FreshStep
<1> QED
  BY <1>1, <1>2, <1>4, InitTypes, TypeStep, WholeStep, PTL DEF Spec

-----------------------------------------------------------------------------
(* Refusals.                                                               *)

\* The contents of the queues and of the two slots, in order of the way.
Quiet(ts, p, r, cs, answer) ==
    tx = ts /\ pending = p /\ reading = r /\ ptx = cs /\ response = answer

\* What the bridge asks for next, or waits for.
AwaitedRequest ==
    [request_id |-> next_request_id, offset |-> offset + Len(assembly.cells)]
AwaitedChunk == ChunkAt(next_request_id, offset + Len(assembly.cells))

\* The request that is waited for, or its answer, is in exactly one place.
InFlight(request, chunk) ==
    \/ Quiet(<<request>>, None, None, <<>>, None)
    \/ Quiet(<<>>, request, None, <<>>, None)
    \/ Quiet(<<>>, None, request, <<>>, None)
    \/ Quiet(<<>>, None, None, <<chunk>>, None)
    \/ Quiet(<<>>, None, None, <<>>, chunk)

\* The page that is being read is of the frame presented, and has room for
\* a packet.
PageBegun ==
    /\ Len(assembly.cells) < FRAME_CHUNK_SIZE
    /\ Len(assembly.cells) % FRAME_CHUNK_CELLS = 0
    /\ assembly.cells # <<>> => /\ assembly.revision = frame.revision
                                /\ assembly.total = frame.total

\* While nothing has gone wrong, every attempt is the first, its request or the
\* answer is on its way, and the answer fits the page.
QuietInv ==
    ~ disturbed =>
        /\ ~ expired
        /\ pc = "sending" => attempts = 0
        /\ pc = "waiting" => InFlight(AwaitedRequest, AwaitedChunk)
        /\ pc # "waiting" => Quiet(<<>>, None, None, <<>>, None)
        /\ pc = "idle" /\ requests > 0 => reply # Failed
        /\ pc # "idle" => PageBegun

\* Pages are filled packet by packet: there is room for a whole one, or none.
LEMMA Multiples ==
    ASSUME NEW c \in Nat \ {0}, NEW s \in Nat, NEW n \in Nat,
           s % c = 0, n % c = 0, n < s
    PROVE  n + c <= s /\ (n + c) % c = 0
<1>1. s = c * (s \div c) /\ s \div c \in Int
  OBVIOUS
<1>2. n = c * (n \div c) /\ n \div c \in Int
  OBVIOUS
<1>3. PICK p \in Int : s = c * p
  BY <1>1
<1>4. PICK q \in Int : n = c * q
  BY <1>2
<1>5. q < p
  <2>1. SUFFICES ASSUME q >= p PROVE FALSE
    OBVIOUS
  <2>2. c * q >= c * p
    BY <2>1
  <2> QED
    BY <1>3, <1>4, <2>2
<1>6. c * (q + 1) <= c * p
  BY <1>5
<1>7. c * (q + 1) = n + c
  BY <1>4
<1>8. (c * (q + 1)) % c = 0
  OBVIOUS
<1> QED
  BY <1>3, <1>6, <1>7, <1>8

\* What the awaited request and chunk say.
LEMMA AwaitedFields ==
    /\ AwaitedRequest.request_id = next_request_id
    /\ AwaitedRequest.offset = offset + Len(assembly.cells)
    /\ AwaitedChunk.request_id = next_request_id
    /\ AwaitedChunk.start = offset + Len(assembly.cells)
    /\ AwaitedChunk.revision = frame.revision /\ AwaitedChunk.total = frame.total
  BY DEF AwaitedRequest, AwaitedChunk, ChunkAt

\* The awaited chunk is well formed and as long as packet and frame allow.
LEMMA AwaitedLen ==
    ASSUME Types
    PROVE  /\ AwaitedChunk \in Chunks
           /\ Len(AwaitedChunk.cells)
                = Min({FRAME_CHUNK_CELLS,
                       Max({0, frame.total - (offset + Len(assembly.cells))})})
           /\ offset + Len(assembly.cells) \in Nat
<1>1. offset \in Nat /\ Len(assembly.cells) \in Nat
  <2>1. offset \in Offsets \cup {0}
    BY DEF Types, TypeOK
  <2> QED
    BY <2>1 DEF Types, Cells
<1>2. offset + Len(assembly.cells) \in Nat
  BY <1>1
<1>3. next_request_id \in 0 .. (RequestIds - 1)
  BY DEF Types, TypeOK
<1>4. AwaitedChunk \in Chunks
  BY <1>2, <1>3, FrameType, ChunkFields DEF AwaitedChunk
<1>5. Len(AwaitedChunk.cells)
        = Min({FRAME_CHUNK_CELLS,
               Max({0, frame.total - (offset + Len(assembly.cells))})})
  BY <1>2, <1>3, FrameType, ChunkFields DEF AwaitedChunk
<1> QED
  BY <1>2, <1>4, <1>5

\* Undisturbed, the answer is always taken; a page that still lacks cells has
\* grown by a whole packet.
LEMMA AwaitedDecision ==
    ASSUME Types, PageBegun
    PROVE  /\ Decision(assembly, AwaitedChunk) \in {"Accepted", "Complete"}
           /\ Decision(assembly, AwaitedChunk) = "Accepted" =>
                 /\ Len(AwaitedChunk.cells) = FRAME_CHUNK_CELLS
                 /\ Len(assembly.cells) + FRAME_CHUNK_CELLS < FRAME_CHUNK_SIZE
<1> DEFINE n == Len(assembly.cells)
           left == Max({0, frame.total - (offset + n)})
           k == Len(AwaitedChunk.cells)
<1>1. n \in Nat /\ n < FRAME_CHUNK_SIZE /\ n % FRAME_CHUNK_CELLS = 0
  BY DEF PageBegun, Types, Cells
<1>2. n + FRAME_CHUNK_CELLS <= FRAME_CHUNK_SIZE
  BY <1>1, Multiples
<1>3. offset + n \in Nat
  BY AwaitedLen
<1>4. frame.total \in Nat
  <2>1. frame.total \in Totals
    BY FrameType
  <2> QED
    BY <2>1
<1>5. /\ left \in Nat
      /\ frame.total - (offset + n) > 0 => left = frame.total - (offset + n)
      /\ frame.total - (offset + n) <= 0 => left = 0
  <2>1. frame.total - (offset + n) \in Int
    BY <1>3, <1>4
  <2> QED
    BY <2>1, MaxType
<1>6. k = Min({FRAME_CHUNK_CELLS, left})
  BY AwaitedLen
<1>7. Wanted(assembly, AwaitedChunk)
        = Min({left, FRAME_CHUNK_CELLS, FRAME_CHUNK_SIZE - n})
  BY AwaitedFields DEF Wanted
<1> HIDE DEF left
<1>8. k \in {FRAME_CHUNK_CELLS, left} /\ k <= FRAME_CHUNK_CELLS /\ k <= left /\ k \in Nat
  BY <1>5, <1>6, MinType
<1>9. Min({left, FRAME_CHUNK_CELLS, FRAME_CHUNK_SIZE - n}) = k
  <2>1. FRAME_CHUNK_SIZE - n \in Nat /\ FRAME_CHUNK_SIZE - n >= FRAME_CHUNK_CELLS
    BY <1>1, <1>2
  <2> DEFINE m == Min({left, FRAME_CHUNK_CELLS, FRAME_CHUNK_SIZE - n})
  <2>2. /\ m \in {left, FRAME_CHUNK_CELLS, FRAME_CHUNK_SIZE - n}
        /\ m <= left /\ m <= FRAME_CHUNK_CELLS
    BY <1>5, <2>1, MinType
  <2> HIDE DEF m, k
  <2>3. m = k
    BY <1>5, <1>8, <2>1, <2>2
  <2> QED
    BY <2>3 DEF m
<1>10. Len(assembly.cells \o AwaitedChunk.cells) = n + k
  <2>1. AwaitedChunk.cells \in Cells
    BY AwaitedLen DEF Chunks, Cells
  <2>2. assembly.cells \in Cells
    BY DEF Types
  <2> QED
    BY <2>1, <2>2 DEF Cells
<1>11. assembly.cells # <<>> => FrameKept(assembly, AwaitedChunk)
  BY AwaitedFields DEF PageBegun, FrameKept
<1>12. AwaitedChunk.start = offset + n /\ AwaitedChunk.total = frame.total
  BY AwaitedFields
<1>13. Decision(assembly, AwaitedChunk)
         = IF n + k = FRAME_CHUNK_SIZE \/ (offset + n) + k >= frame.total
           THEN "Complete" ELSE "Accepted"
  BY <1>7, <1>9, <1>10, <1>11, <1>12 DEF Decision
<1> HIDE DEF k, n
<1>14. ASSUME n + k # FRAME_CHUNK_SIZE, ~ ((offset + n) + k >= frame.total)
       PROVE  k = FRAME_CHUNK_CELLS /\ n + FRAME_CHUNK_CELLS < FRAME_CHUNK_SIZE
  <2>1. k = FRAME_CHUNK_CELLS
    BY <1>3, <1>4, <1>5, <1>8, <1>14
  <2> QED
    BY <1>1, <1>2, <1>14, <2>1
<1> QED
  BY <1>13, <1>14 DEF n, k

\* They change only with the frame, the page or the id.
LEMMA AwaitedKept ==
    ASSUME UNCHANGED <<frame, offset, next_request_id, assembly>>
    PROVE  AwaitedRequest' = AwaitedRequest /\ AwaitedChunk' = AwaitedChunk
  BY DEF AwaitedRequest, AwaitedChunk, ChunkAt

\* An undisturbed step moves the request or its answer one place on; the answer
\* is taken, and the next packet asked for.
LEMMA QuietStep == Types /\ QuietInv /\ [Next]_vars => QuietInv'
<1> SUFFICES ASSUME Types, QuietInv, [Next]_vars, ~ disturbed' PROVE QuietInv'
  BY DEF QuietInv
<1> USE DEF loops, wire
<1>1. CASE FrameChanges \/ LinkChanges \/ DeadlinePasses \/ AttemptTimesOut \/ Lose
  BY <1>1 DEF FrameChanges, LinkChanges, DeadlinePasses, AttemptTimesOut, Lose
<1>2. ASSUME NEW node \in {0, 1}, NEW o \in Offsets, TakeRequest(node, o)
      PROVE  QuietInv'
  <2>1. /\ UNCHANGED <<disturbed, tx, pending, reading, ptx, response>> /\ pc = "idle"
        /\ pc' = "sending" /\ expired' = FALSE /\ attempts' = 0
        /\ assembly' = NewAssembly
    BY <1>2 DEF TakeRequest, Reply
  <2>2. Quiet(<<>>, None, None, <<>>, None)'
    BY <2>1 DEF QuietInv, Quiet
  <2>3. assembly'.cells = <<>>
    BY <2>1 DEF NewAssembly
  <2>4. Len(assembly'.cells) = 0
    BY <2>3
  <2>5. 0 % FRAME_CHUNK_CELLS = 0
    OBVIOUS
  <2>6. PageBegun'
    BY <2>3, <2>4, <2>5 DEF PageBegun
  <2> QED
    BY <2>1, <2>2, <2>6 DEF QuietInv
<1>3. CASE Attempt
  <2>1. /\ pc = "sending" /\ ~ disturbed /\ UNCHANGED <<frame, offset, assembly, expired>>
        /\ UNCHANGED <<pending, reading, ptx, response>>
    BY <1>3 DEF Attempt, Types, TypeOK
  <2>2. /\ attempts = 0 /\ ~ expired /\ Quiet(<<>>, None, None, <<>>, None) /\ PageBegun
    BY <2>1 DEF QuietInv
  <2>3. Len(tx) < TxCapacity /\ tx = <<>>
    BY <2>2 DEF Quiet
  <2>4. /\ pc' = "waiting"
        /\ tx' = Append(tx, [request_id |-> next_request_id',
                             offset |-> offset + Len(assembly.cells)])
    BY <1>3, <2>2, <2>3 DEF Attempt, AttemptsSpent
  <2>5. tx' = <<AwaitedRequest'>>
    BY <2>1, <2>3, <2>4 DEF AwaitedRequest
  <2>6. Quiet(<<AwaitedRequest>>, None, None, <<>>, None)'
    BY <2>1, <2>2, <2>5 DEF Quiet
  <2>7. InFlight(AwaitedRequest, AwaitedChunk)'
    BY <2>6 DEF InFlight
  <2>8. PageBegun'
    BY <2>1, <2>2 DEF PageBegun
  <2> QED
    BY <2>1, <2>2, <2>4, <2>7, <2>8 DEF QuietInv
<1>4. CASE AcceptChunk
  <2>1. /\ pc = "waiting" /\ ~ disturbed /\ response # None
        /\ UNCHANGED <<frame, offset, expired, next_request_id, tx, pending, reading, ptx>>
        /\ response' = None
    BY <1>4 DEF AcceptChunk
  <2>2. InFlight(AwaitedRequest, AwaitedChunk) /\ PageBegun /\ ~ expired
    BY <2>1 DEF QuietInv
  <2>3. Quiet(<<>>, None, None, <<>>, AwaitedChunk)
    BY <2>1, <2>2 DEF InFlight, Quiet
  <2>4. response = AwaitedChunk /\ ResponseMatches
    BY <2>3, AwaitedFields DEF Quiet, ResponseMatches
  <2>5. Quiet(<<>>, None, None, <<>>, None)'
    BY <2>1, <2>3 DEF Quiet
  <2>6. Decision(assembly, response) \in {"Accepted", "Complete"}
    BY <2>2, <2>4, AwaitedDecision
  <2> DEFINE page == Extended(assembly, response)
  <2>7. response \in Chunks
    BY <2>1 DEF Types, TypeOK
  <2>8. /\ page.revision = response.revision /\ page.total = response.total
        /\ Len(page.cells) = Len(assembly.cells) + Len(response.cells)
    BY <2>6, <2>7, ExtendedType
  <2>9. CASE Decision(assembly, response) = "Accepted"
    <3>1. pc' = "sending" /\ attempts' = 0 /\ assembly' = page
      BY <1>4, <2>4, <2>9 DEF AcceptChunk
    <3>2. /\ Len(response.cells) = FRAME_CHUNK_CELLS
          /\ Len(assembly.cells) + FRAME_CHUNK_CELLS < FRAME_CHUNK_SIZE
      BY <2>2, <2>4, <2>9, AwaitedDecision
    <3>3. (Len(assembly.cells) + FRAME_CHUNK_CELLS) % FRAME_CHUNK_CELLS = 0
      <4>1. /\ Len(assembly.cells) \in Nat /\ Len(assembly.cells) < FRAME_CHUNK_SIZE
            /\ Len(assembly.cells) % FRAME_CHUNK_CELLS = 0
        BY <2>2 DEF PageBegun, Types, Cells
      <4> QED
        BY <4>1, Multiples
    <3>4. page.revision = frame.revision /\ page.total = frame.total
      BY <2>4, <2>8, AwaitedFields
    <3>5. Len(page.cells) = Len(assembly.cells) + FRAME_CHUNK_CELLS
      BY <2>8, <3>2
    <3> HIDE DEF page
    <3>6. PageBegun'
      BY <2>1, <3>1, <3>2, <3>3, <3>4, <3>5 DEF PageBegun
    <3> QED
      BY <2>1, <2>2, <2>5, <3>1, <3>6 DEF QuietInv
  <2>10. CASE Decision(assembly, response) = "Complete"
    <3>1. /\ pc' = "idle"
          /\ reply' = [start |-> offset, revision |-> page.revision,
                       total |-> page.total, cells |-> page.cells]
      BY <1>4, <2>4, <2>10 DEF AcceptChunk, Reply
    <3>2. page.revision \in Nat
      <4>1. response.revision \in 1 .. MaxFrames
        BY <2>7 DEF Chunks
      <4> QED
        BY <2>8, <4>1
    <3> HIDE DEF page
    <3>3. reply'.revision \in Nat
      BY <3>1, <3>2
    <3>4. reply' # Failed
      BY <3>3 DEF Failed
    <3> QED
      BY <2>1, <2>2, <2>5, <3>1, <3>4 DEF QuietInv
  <2> QED
    BY <2>6, <2>9, <2>10
<1>5. ASSUME UNCHANGED <<frame, pc, offset, expired, attempts, next_request_id, assembly,
                         reply, requests>>,
             ~ disturbed, pc = "waiting", InFlight(AwaitedRequest, AwaitedChunk)'
      PROVE  QuietInv'
  <2>1. PageBegun'
    BY <1>5 DEF QuietInv, PageBegun
  <2> QED
    BY <1>5, <2>1 DEF QuietInv
<1>6. CASE ProcessFrameRequest
  <2>1. /\ UNCHANGED <<frame, pc, offset, expired, attempts, next_request_id, assembly,
                       reply, requests, reading, ptx, response>>
        /\ ~ disturbed /\ tx # <<>> /\ tx' = Tail(tx) /\ pending' = Head(tx)
    BY <1>6 DEF ProcessFrameRequest
  <2>2. pc = "waiting" /\ InFlight(AwaitedRequest, AwaitedChunk)
    BY <2>1 DEF QuietInv, Quiet
  <2>3. Quiet(<<AwaitedRequest>>, None, None, <<>>, None)
    BY <2>1, <2>2 DEF InFlight, Quiet
  <2>4. AwaitedRequest' = AwaitedRequest
    BY <2>1, AwaitedKept
  <2>5. tx' = <<>> /\ pending' = AwaitedRequest'
    BY <2>1, <2>3, <2>4 DEF Quiet
  <2>6. Quiet(<<>>, AwaitedRequest, None, <<>>, None)'
    BY <2>1, <2>3, <2>5 DEF Quiet
  <2>7. InFlight(AwaitedRequest, AwaitedChunk)'
    BY <2>6 DEF InFlight
  <2> QED
    BY <1>5, <2>1, <2>2, <2>7
<1>7. CASE WorkerTakesRequest
  <2>1. /\ UNCHANGED <<frame, pc, offset, expired, attempts, next_request_id, assembly,
                       reply, requests, tx, ptx, response>>
        /\ ~ disturbed /\ pending # None /\ reading' = pending /\ pending' = None
    BY <1>7 DEF WorkerTakesRequest
  <2>2. pc = "waiting" /\ InFlight(AwaitedRequest, AwaitedChunk)
    BY <2>1 DEF QuietInv, Quiet
  <2>3. Quiet(<<>>, AwaitedRequest, None, <<>>, None)
    BY <2>1, <2>2 DEF InFlight, Quiet
  <2>4. AwaitedRequest' = AwaitedRequest
    BY <2>1, AwaitedKept
  <2>5. Quiet(<<>>, None, AwaitedRequest, <<>>, None)'
    BY <2>1, <2>3, <2>4 DEF Quiet
  <2>6. InFlight(AwaitedRequest, AwaitedChunk)'
    BY <2>5 DEF InFlight
  <2> QED
    BY <1>5, <2>1, <2>2, <2>6
<1>8. CASE WorkerReadsChunk
  <2>1. /\ UNCHANGED <<frame, pc, offset, expired, attempts, next_request_id, assembly,
                       reply, requests, tx, pending, response>>
        /\ ~ disturbed /\ reading # None /\ reading' = None
        /\ ptx' = <<ChunkAt(reading.request_id, reading.offset)>>
    BY <1>8 DEF WorkerReadsChunk
  <2>2. pc = "waiting" /\ InFlight(AwaitedRequest, AwaitedChunk)
    BY <2>1 DEF QuietInv, Quiet
  <2>3. Quiet(<<>>, None, AwaitedRequest, <<>>, None)
    BY <2>1, <2>2 DEF InFlight, Quiet
  <2>4. reading = AwaitedRequest
    BY <2>3 DEF Quiet
  <2>5. reading.request_id = next_request_id /\ reading.offset = offset + Len(assembly.cells)
    BY <2>4, AwaitedFields
  <2>6. ChunkAt(reading.request_id, reading.offset) = AwaitedChunk
    BY <2>5 DEF AwaitedChunk
  <2>7. AwaitedChunk' = AwaitedChunk
    BY <2>1, AwaitedKept
  <2>8. ptx' = <<AwaitedChunk'>>
    BY <2>1, <2>6, <2>7
  <2>9. Quiet(<<>>, None, None, <<AwaitedChunk>>, None)'
    BY <2>1, <2>3, <2>8 DEF Quiet
  <2>10. InFlight(AwaitedRequest, AwaitedChunk)'
    BY <2>9 DEF InFlight
  <2> QED
    BY <1>5, <2>1, <2>2, <2>10
<1>9. CASE CentralForwardsChunk
  <2>1. /\ UNCHANGED <<frame, pc, offset, expired, attempts, next_request_id, assembly,
                       reply, requests, tx, pending, reading>>
        /\ ~ disturbed /\ ptx # <<>> /\ ptx' = Tail(ptx) /\ response' = Head(ptx)
    BY <1>9 DEF CentralForwardsChunk
  <2>2. pc = "waiting" /\ InFlight(AwaitedRequest, AwaitedChunk)
    BY <2>1 DEF QuietInv, Quiet
  <2>3. Quiet(<<>>, None, None, <<AwaitedChunk>>, None)
    BY <2>1, <2>2 DEF InFlight, Quiet
  <2>4. AwaitedChunk' = AwaitedChunk
    BY <2>1, AwaitedKept
  <2>5. ptx' = <<>> /\ response' = AwaitedChunk'
    BY <2>1, <2>3, <2>4 DEF Quiet
  <2>6. Quiet(<<>>, None, None, <<>>, AwaitedChunk)'
    BY <2>1, <2>3, <2>5 DEF Quiet
  <2>7. InFlight(AwaitedRequest, AwaitedChunk)'
    BY <2>6 DEF InFlight
  <2> QED
    BY <1>5, <2>1, <2>2, <2>7
<1>10. CASE UNCHANGED vars
  <2>1. /\ UNCHANGED <<frame, pc, offset, expired, attempts, next_request_id, assembly,
                       reply, requests, tx, pending, reading, ptx, response>>
        /\ ~ disturbed
    BY <1>10 DEF vars
  <2>2. AwaitedRequest' = AwaitedRequest /\ AwaitedChunk' = AwaitedChunk
    BY <2>1, AwaitedKept
  <2>3. InFlight(AwaitedRequest, AwaitedChunk) => InFlight(AwaitedRequest, AwaitedChunk)'
    BY <2>1, <2>2 DEF InFlight, Quiet
  <2>4. PageBegun => PageBegun'
    BY <2>1 DEF PageBegun
  <2>5. Quiet(<<>>, None, None, <<>>, None) => Quiet(<<>>, None, None, <<>>, None)'
    BY <2>1 DEF Quiet
  <2> QED
    BY <2>1, <2>3, <2>4, <2>5 DEF QuietInv
<1> QED
  BY <1>1, <1>2, <1>3, <1>4, <1>6, <1>7, <1>8, <1>9, <1>10 DEF Next, BridgeStep

\* A page is refused only if the link, a queue, a timer or the frame got in the
\* way: offsets behind the frame and its end always fit the packets.
THEOREM FrameRefusedOnlyIfDisturbed == Spec => []RefusedOnlyIfDisturbed
<1>1. Init => QuietInv
  BY DEF Init, QuietInv, Quiet
<1>2. QuietInv => RefusedOnlyIfDisturbed
  BY DEF QuietInv, RefusedOnlyIfDisturbed
<1> QED
  BY <1>1, <1>2, InitTypes, TypeStep, QuietStep, PTL DEF Spec

=============================================================================
