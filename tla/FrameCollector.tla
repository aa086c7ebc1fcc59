--------------------------- MODULE FrameCollector ---------------------------
(* The collector of animated Lock QR frames (src/qr/frames.go) and the two  *)
(* ways it is fed: a camera scanning a looping animation, and               *)
(* DecodeAnimatedQRGIF, which feeds it the frames of a GIF.                 *)
(*                                                                          *)
(* A Lock is cut into chunks of DefaultFrameChunkSize bytes, one per frame, *)
(* and each frame names the Lock it belongs to (bid), its place and how many*)
(* there are.  The collector takes frames in any order, restarts when a     *)
(* frame of another Lock arrives, and hands the Lock over when it holds     *)
(* every chunk and the bytes hash back to bid.  Each call takes the         *)
(* collector's mutex, but Add, Complete and Bundle are three calls: with    *)
(* several decoders the collection may change between them, and a decoder   *)
(* may hold a frame it photographed before the user turned to another       *)
(* animation.                                                               *)
(*                                                                          *)
(* A chunk is the range of bytes it was cut from, or Garbled (a frame that  *)
(* was read wrongly).  The 32-bit bid is taken to identify its Lock.        *)
EXTENDS Integers, FiniteSets

CONSTANTS Bundle,                 \* the Locks that are shown
          Size,                   \* Size[b]: bytes of b's JSON
          DefaultFrameChunkSize,
          Decoder,                \* the threads that feed the collector
          None,                   \* no Lock: the empty bid, no result yet
          Garbled,                \* bytes that are not those of any Lock
          Failed,                 \* Bundle returned an error
          MaxTurns,               \* bound on turns to another animation
          MaxMisreads,            \* bound on frames read wrongly
          MaxResets               \* bound on resets by the user

ASSUME ChunkAssumption == DefaultFrameChunkSize \in Nat \ {0}

ASSUME SizeAssumption == Size \in [Bundle -> Nat \ {0}]

ASSUME NoneAssumption == None \notin Bundle /\ Garbled \notin Bundle /\ Failed \notin Bundle

ASSUME BoundAssumption == MaxTurns \in Nat /\ MaxMisreads \in Nat /\ MaxResets \in Nat

VARIABLES aim,      \* the animation in front of the camera
          bid,      \* FrameCollector.bid
          total,    \* FrameCollector.total
          chunks,   \* FrameCollector.chunks: the held indices to their data
          pc,       \* pc[d]: the call decoder d makes next
          hand,     \* hand[d]: the frame d has read and not added yet
          result,   \* result[d]: what Bundle last returned to d
          turns, misreads, resets

collector == <<bid, total, chunks>>

bounds == <<turns, misreads, resets>>

scanVars == <<aim, bid, total, chunks, pc, hand, result, turns, misreads, resets>>

-----------------------------------------------------------------------------
(* The frames of a Lock.                                                    *)

Smaller(m, n) == IF m < n THEN m ELSE n

\* Mutant: the chunk that is not full is forgotten.
TotalRoundsDown(b) == Size[b] \div DefaultFrameChunkSize

\* How many frames the animation of b has.
Total(b) == (Size[b] + DefaultFrameChunkSize - 1) \div DefaultFrameChunkSize

\* The bytes of b that its i-th frame carries.
Chunk(b, i) ==
    [of |-> b, from |-> (i - 1) * DefaultFrameChunkSize,
     to |-> Smaller(i * DefaultFrameChunkSize, Size[b])]

\* MarshalAnimatedQR: every frame of b's animation.
MarshalAnimatedQR(b) ==
    {[bid |-> b, p |-> i, n |-> Total(b), d |-> Chunk(b, i)] : i \in 1..Total(b)}

ChunkData == [of : Bundle, from : Nat, to : Nat] \cup {Garbled}

Frame == [bid : Bundle, p : Int, n : Int, d : ChunkData]

\* The checks Add makes before it takes the mutex.
Valid(f) == f.n >= 1 /\ f.p \in 1..f.n

\* The held chunks in order are all the bytes of b.  Only then does parsing
\* them and hashing the result give b's id.
IsWhole(b) ==
    /\ \A i \in 1..total : chunks[i] # Garbled
    /\ chunks[1].from = 0
    /\ \A i \in 1..total : chunks[i].of = b
    /\ \A i \in 2..total : chunks[i].from = chunks[i - 1].to
    /\ chunks[total].to = Size[b]

\* Complete: as many chunks are held as the animation has.
Complete == total > 0 /\ Cardinality(DOMAIN chunks) = total

-----------------------------------------------------------------------------
NoChunks == [i \in {} |-> Garbled]

ScanInit ==
    /\ aim \in Bundle
    /\ bid = None /\ total = 0 /\ chunks = NoChunks
    /\ pc = [d \in Decoder |-> "read"]
    /\ hand = [d \in Decoder |-> None]
    /\ result = [d \in Decoder |-> None]
    /\ turns = 0 /\ misreads = 0 /\ resets = 0

\* The user turns the camera to another animation.
Turn(b) ==
    /\ b # aim /\ turns < MaxTurns
    /\ aim' = b /\ turns' = turns + 1
    /\ UNCHANGED <<collector, pc, hand, result, misreads, resets>>

\* Decoder d reads the frame that is on the screen.
Read(d, f) ==
    /\ pc[d] = "read"
    /\ hand' = [hand EXCEPT ![d] = f]
    /\ pc' = [pc EXCEPT ![d] = "add"]
    /\ UNCHANGED <<aim, collector, result, turns, resets>>

\* The i-th frame is on the screen and is read.
Scan(d, i) ==
    /\ \E f \in MarshalAnimatedQR(aim) : f.p = i /\ Read(d, f)
    /\ UNCHANGED misreads

\* The decoder reads something else than what is on the screen.
Misread(d, i, n) ==
    /\ misreads < MaxMisreads
    /\ misreads' = misreads + 1
    /\ Read(d, [bid |-> aim, p |-> i, n |-> n, d |-> Garbled])

\* What the collection is once frame f has been looked at: a frame of another
\* Lock empties it, and the first frame decides bid and total.
Restarted(f) == bid # f.bid

heldTotal(f) == IF Restarted(f) THEN f.n ELSE total

\* Mutant: a frame of another Lock changes bid and total and drops no chunk.
heldChunksKept(f) == chunks

heldChunks(f) == IF Restarted(f) THEN NoChunks ELSE chunks

\* f fits what is held: the same total, and no other data at its place.
Fits(f) ==
    /\ f.n = heldTotal(f)
    /\ f.p \in DOMAIN heldChunks(f) => heldChunks(f)[f.p] = f.d

\* Add, to the frame in hand.  A frame that does not fit is an error and is not
\* stored; the restart it may have caused stays.
Ingest(f) ==
    /\ bid' = f.bid
    /\ total' = heldTotal(f)
    /\ chunks' = IF Fits(f)
                 THEN [i \in DOMAIN heldChunks(f) \cup {f.p} |->
                          IF i = f.p THEN f.d ELSE heldChunks(f)[i]]
                 ELSE heldChunks(f)

Add(d) ==
    /\ pc[d] = "add"
    /\ IF Valid(hand[d]) THEN Ingest(hand[d]) ELSE UNCHANGED collector
    /\ hand' = [hand EXCEPT ![d] = None]
    /\ pc' = [pc EXCEPT ![d] = "ask"]
    /\ UNCHANGED <<aim, result, bounds>>

\* The decoder asks Complete, and goes on reading unless it is.
Ask(d) ==
    /\ pc[d] = "ask"
    /\ pc' = [pc EXCEPT ![d] = IF Complete THEN "take" ELSE "read"]
    /\ UNCHANGED <<aim, collector, hand, result, bounds>>

\* Mutant: the reassembled bytes are not checked against bid.
BundleOfUnchecked == IF Complete THEN bid ELSE Failed

\* What Bundle returns.
BundleOf ==
    IF Complete /\ IsWhole(bid) THEN bid ELSE Failed

\* The decoder asks for the Lock.  When that fails it goes on reading: what is
\* held stays held until the user resets or turns away.
Take(d) ==
    /\ pc[d] = "take"
    /\ result' = [result EXCEPT ![d] = BundleOf]
    /\ pc' = [pc EXCEPT ![d] = IF BundleOf = Failed THEN "read" ELSE "done"]
    /\ UNCHANGED <<aim, collector, hand, bounds>>

resetLocked ==
    /\ bid' = None /\ total' = 0 /\ chunks' = NoChunks

\* The user starts the scan again.
Reset ==
    /\ resets < MaxResets
    /\ resetLocked
    /\ resets' = resets + 1
    /\ UNCHANGED <<aim, pc, hand, result, turns, misreads>>

ScanNext ==
    \/ \E b \in Bundle : Turn(b)
    \/ \E d \in Decoder :
          \/ \E i \in 1..Total(aim) : Scan(d, i)
          \/ \E i, n \in 0..Total(aim) + 1 : Misread(d, i, n)
          \/ Add(d) \/ Ask(d) \/ Take(d)
    \/ Reset

ScanSpec == ScanInit /\ [][ScanNext]_scanVars

\* Decoders make their next call, and the animation loops: whoever keeps looking
\* at an animation reads each of its frames sooner or later.
ScanFairness ==
    \A d \in Decoder :
        /\ WF_scanVars(Add(d)) /\ WF_scanVars(Ask(d)) /\ WF_scanVars(Take(d))
        /\ \A b \in Bundle : \A i \in 1..Total(b) : SF_scanVars(aim = b /\ Scan(d, i))

FairScanSpec == ScanSpec /\ ScanFairness

-----------------------------------------------------------------------------
(* Properties.                                                              *)

\* The values of the variables: among them, that what is held lies within the
\* animation (an index above total would be counted by Complete and never read
\* by Bundle).
ScanTypeOK ==
    /\ aim \in Bundle
    /\ bid \in Bundle \cup {None}
    /\ total \in Nat
    /\ DOMAIN chunks \subseteq 1..total
    /\ chunks \in [DOMAIN chunks -> ChunkData]
    /\ pc \in [Decoder -> {"read", "add", "ask", "take", "done"}]
    /\ hand \in [Decoder -> Frame \cup {None}]
    /\ result \in [Decoder -> Bundle \cup {None, Failed}]
    /\ turns \in 0..MaxTurns /\ misreads \in 0..MaxMisreads /\ resets \in 0..MaxResets

\* The collector never holds chunks of two Locks, however the camera wanders
\* and however late a decoder delivers a frame it read before the turn: every
\* chunk is one of the Lock named by bid, at its own place, or was misread
\* (FrameCollector.Add, resetLocked).
OneLock ==
    \A i \in DOMAIN chunks : chunks[i] \in {Garbled, Chunk(bid, i)}

\* A Lock that Bundle hands over is all of a Lock that was shown, misread
\* frames and restarts between Complete and Bundle notwithstanding: the
\* collection it is made of has each of the chunks MarshalAnimatedQR cut, and
\* nothing else (FrameCollector.Bundle).
HandedOverWhole ==
    [][\A d \in Decoder :
          result'[d] # result[d] /\ result'[d] # Failed =>
              /\ result'[d] = bid
              /\ total = Total(bid)
              /\ chunks = [i \in 1..Total(bid) |-> Chunk(bid, i)]]_scanVars

\* The collection cannot be finished: a misread frame decided its total, or one
\* holds a place, and every correct frame is refused as a conflict.
Wedged ==
    /\ bid = aim
    /\ total # Total(aim) \/ \E i \in DOMAIN chunks : chunks[i] = Garbled

\* A decoder that stays on one animation gets its Lock, whatever was held before
\* and whichever late frames arrive, unless a misread frame has wedged the
\* collection (FrameCollector.Add, Complete, Bundle).
ScanFinishes ==
    \A d \in Decoder :
        <>[](~Wedged) => <>(pc[d] = "done")

=============================================================================
