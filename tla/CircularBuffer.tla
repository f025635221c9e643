--------------------------- MODULE CircularBuffer ---------------------------
(***************************************************************************)
(* The buffer behind the moving windows of the fault detection and the     *)
(* alert rate of the subgraph builder, with the test detectFaults makes on *)
(* a full window: does the newest value lie more than three standard       *)
(* deviations from the mean?  Values are integers and the test is made in  *)
(* exact arithmetic.                                                       *)
(*                                                                         *)
(* An iterator is the block of memory it points into and an offset: it can *)
(* be used while the vector's values are in that block.  Using another one *)
(* is undefined, and here no step.                                         *)
(***************************************************************************)
EXTENDS Integers, Sequences, SequencesExt

CONSTANTS
    Value,      \* values pushed
    mMaxSize,   \* nominal size
    Block,      \* blocks of memory the values can be in
    NoBlock,    \* what an empty vector has
    MaxPushes   \* bound on the number of pushes

ASSUME ValueAssumption == Value \subseteq Int
ASSUME SizeAssumption == mMaxSize \in Nat /\ mMaxSize >= 2
ASSUME BlockAssumption == Block # {} /\ NoBlock \notin Block
ASSUME PushesAssumption == MaxPushes \in Nat

VARIABLES
    mBuffer,    \* contents, in memory order
    storage,    \* the block mBuffer's values are in
    mCurrent,   \* the iterator mCurrent
    object,     \* "rawAttributes", or the "window" it was moved into
    pushed,     \* history: the values pushed, in order
    sum,        \* history: their sum
    squares     \* history: the sum of their squares

bufferVars == <<mBuffer, storage, mCurrent, object, pushed, sum, squares>>

Iterator == [block : Block \cup {NoBlock}, offset : Nat]
begin(s) == [block |-> s, offset |-> 0]

BufferInit ==
    /\ mBuffer = <<>>
    /\ storage = NoBlock
    /\ mCurrent = begin(storage)
    /\ object = "rawAttributes"
    /\ pushed = <<>>
    /\ sum = 0
    /\ squares = 0

-----------------------------------------------------------------------------
(* Slips: what a bug would make of definitions below.                      *)
PushedEvicting(v) ==
    LET b == InsertAt(mBuffer, mCurrent.offset + 1, v)
    IN  IF Len(b) > mMaxSize THEN SubSeq(b, 1, mMaxSize) ELSE b
CurrentAtEnd(b, s) == [block |-> s, offset |-> Len(b)]
CurrentKept(b, s) == mCurrent
BeyondTwoSigma(n, x, s, q) == (n * x - s) * (n * x - s) > 4 * (n * q - s * s)

-----------------------------------------------------------------------------
(* What insert before mCurrent makes of the contents                       *)
Inserted(v) == InsertAt(mBuffer, mCurrent.offset + 1, v)

(* insert returns an iterator to the new value, in the block s the values  *)
(* are in now; it becomes mCurrent unless it is end() of a buffer b of the *)
(* nominal size.                                                           *)
NextCurrent(b, s) ==
    LET it == [block |-> s, offset |-> mCurrent.offset]
    IN  IF it.offset = Len(b) /\ Len(b) = mMaxSize THEN begin(s) ELSE it

(* The values move to another block when the capacity is used up.          *)
push(v) ==
    /\ Len(pushed) < MaxPushes
    /\ mCurrent.block = storage
    /\ mBuffer' = Inserted(v)
    /\ storage' \in Block
    /\ mCurrent' = NextCurrent(mBuffer', storage')
    /\ pushed' = Append(pushed, v)
    /\ sum' = sum + v
    /\ squares' = squares + v * v
    /\ UNCHANGED object

(* createAttrWindow moves each buffer into the window after one push: the  *)
(* vector keeps its block, and mCurrent is copied.                         *)
MoveIntoWindow ==
    /\ object = "rawAttributes"
    /\ Len(pushed) = 1
    /\ object' = "window"
    /\ UNCHANGED <<mBuffer, storage, mCurrent, pushed, sum, squares>>

BufferNext == MoveIntoWindow \/ \E v \in Value : push(v)

BufferSpec == BufferInit /\ [][BufferNext]_bufferVars

-----------------------------------------------------------------------------
full == Len(mBuffer) = mMaxSize
current == mBuffer[mCurrent.offset + 1]

(* std::accumulate, from zero                                              *)
Accumulate(values) ==
    LET total[i \in 0 .. Len(values)] == IF i = 0 THEN 0 ELSE total[i - 1] + values[i]
    IN  total[Len(values)]

(* |x - mean| > 3 * stdDev for n values with sum s and sum of squares q,   *)
(* both sides squared and multiplied by n^2.                               *)
BeyondThreeSigma(n, x, s, q) == (n * x - s) * (n * x - s) > 9 * (n * q - s * s)

(* The verdict of detectFaults on the attribute this buffer belongs to,    *)
(* made only when the buffer is full.                                      *)
Detects == full /\ BeyondThreeSigma(Len(mBuffer), current, sum, squares)

-----------------------------------------------------------------------------
(* mCurrent stays within the values once there is one.                     *)
BufferTypeOK ==
    /\ mBuffer \in Seq(Value)
    /\ pushed \in Seq(Value)
    /\ storage \in Block \cup {NoBlock}
    /\ mCurrent \in Iterator
    /\ object \in {"rawAttributes", "window"}
    /\ mCurrent.offset <= Len(mBuffer)
    /\ mBuffer # <<>> => mCurrent.offset < Len(mBuffer)

(* No reallocation by push and no move leaves mCurrent behind: it points   *)
(* into the block the values are in, at the value pushed last, which       *)
(* detectFaults reads as *current() and the next push inserts before.      *)
CurrentIsNewest ==
    /\ mCurrent.block = storage
    /\ pushed # <<>> => current = Last(pushed)

(* getMean and getStdDev run over every value ever pushed, not over the    *)
(* last mMaxSize.                                                          *)
SumsAgree ==
    /\ sum = Accumulate(mBuffer)
    /\ squares = Accumulate([i \in DOMAIN mBuffer |-> mBuffer[i] * mBuffer[i]])

(* A window of at most ten values cannot hold a value beyond three         *)
(* standard deviations: for these sizes detectFaults reports no attribute. *)
OutlierNeedsEleven == Detects => mMaxSize > 10
=============================================================================
