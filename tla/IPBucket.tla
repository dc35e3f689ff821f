------------------------------ MODULE IPBucket ------------------------------
(***************************************************************************)
(* The size-class index of free blocks, src/utils/ipbucket.h.             *)
(*                                                                         *)
(* Sizes are quantised to the classes 512, 1024, 1536, 2048, then four    *)
(* equidistant classes in every (2^n, 2^(n+1)].  The index is an array of *)
(* IPB_BUCKETS queues of free-block ids; a queue is a sequence whose head *)
(* is the list's first node.  A block of size s sits in the bucket        *)
(* Index(s, FALSE) (rounded down); a request for n bytes searches from    *)
(* Index(n, TRUE) (rounded up) upwards.                                    *)
(*                                                                         *)
(* Everything here is a pure operator over integers and over a bucket     *)
(* function B \in [Buckets -> Seq(ids)].  Sizes are bytes, as in the code. *)
(***************************************************************************)
EXTENDS Integers, Sequences, SequencesExt

CONSTANTS
  IPB_BEGIN,   \* log2 of the smallest class (9 in the code)
  IPB_END      \* log2 of the largest indexed class (32 in the code;
               \* the model uses a smaller value so sizes fit TLC's integers)

ASSUME IPB_BEGIN \in Nat /\ IPB_END \in Nat /\ IPB_END >= IPB_BEGIN + 3

IPB_BUCKETS == (IPB_END - IPB_BEGIN) * 4 - 4 + 1
IPB_1ST == 2^IPB_BEGIN
IPB_2ND == IPB_1ST * 2
IPB_3RD == IPB_1ST * 3
IPB_4TH == IPB_1ST * 4

Buckets == 0 .. (IPB_BUCKETS - 1)

\* The null free-block id (a NULL list_head pointer).
NoBlock == 0

(* bit_highest(n): index of the highest set bit, 0 for n = 0 or 1.       *)
RECURSIVE BitHighest(_)
BitHighest(n) == IF n <= 1 THEN 0 ELSE 1 + BitHighest(n \div 2)

\* bit_mask(num) == (1 << num) - 1
BitMask(k) == 2^k - 1

\* (size + mask) & ~mask, for a mask of the form 2^k - 1
RoundUpMask(size, mask) == ((size + mask) \div (mask + 1)) * (mask + 1)

-----------------------------------------------------------------------------
(* Mutation variants, used to show that the laws below detect a plausible *)
(* slip in the quantisation code.                                          *)

\* mask computed from bit_highest(size) - 1: classes twice too coarse
BlockSizeCoarse(size) ==
  LET mask == IF size <= IPB_4TH THEN BitMask(IPB_BEGIN)
                                 ELSE BitMask(BitHighest(size) - 1)
  IN RoundUpMask(size, mask)

\* round-up search that forgets the partial-class "tail" bump
IndexNoTail(size, up) ==
  IF size > 2^IPB_END THEN (IF up THEN -1 ELSE IPB_BUCKETS - 1)
  ELSE IF size <= IPB_4TH
  THEN LET q == (IF up THEN size + IPB_1ST - 1 ELSE size) \div IPB_1ST
       IN IF q - 1 < 0 THEN 0 ELSE q - 1
  ELSE LET first == BitHighest(size)
       IN (first - IPB_BEGIN) * 4 - 5 + ((size \div 2^(first - 2)) % 4)

\* round-up search whose small-size ladder rounds down
IndexSmallFloor(size, up) ==
  IF size > 2^IPB_END THEN (IF up THEN -1 ELSE IPB_BUCKETS - 1)
  ELSE IF size <= IPB_4TH
  THEN LET q == size \div IPB_1ST
       IN IF q - 1 < 0 THEN 0 ELSE q - 1
  ELSE LET first == BitHighest(size)
           subidx == (size \div 2^(first - 2)) % 4
           tail == IF up /\ size % 2^(first - 2) # 0 THEN 1 ELSE 0
       IN (first - IPB_BEGIN) * 4 - 5 + subidx + tail

\* the rounded-down ladder computed as size / 512 - 1, without the clamp
IndexNoClamp(size, up) ==
  IF size > 2^IPB_END THEN (IF up THEN -1 ELSE IPB_BUCKETS - 1)
  ELSE IF size <= IPB_4TH
  THEN (IF up THEN size + IPB_1ST - 1 ELSE size) \div IPB_1ST - 1
  ELSE LET first == BitHighest(size)
           subidx == (size \div 2^(first - 2)) % 4
           tail == IF up /\ size % 2^(first - 2) # 0 THEN 1 ELSE 0
       IN (first - IPB_BEGIN) * 4 - 5 + subidx + tail

-----------------------------------------------------------------------------

(* ipbucket_block_size: the quantised size of a request of size bytes.   *)
BlockSize(size) ==
  LET mask == IF size <= IPB_4TH THEN BitMask(IPB_BEGIN)
                                 ELSE BitMask(BitHighest(size) - 2)
  IN RoundUpMask(size, mask)

(* ipbucket_index: the bucket of size, rounded up (up) or down.  For      *)
(* sizes up to IPB_4TH the code's comparison ladder is ceil/floor of       *)
(* size / 512, minus one, clamped to 0..3.  -1 means "too big to serve".   *)
Index(size, up) ==
  IF size > 2^IPB_END THEN (IF up THEN -1 ELSE IPB_BUCKETS - 1)
  ELSE IF size <= IPB_4TH
  THEN LET q == (IF up THEN size + IPB_1ST - 1 ELSE size) \div IPB_1ST
       IN IF q - 1 < 0 THEN 0 ELSE q - 1
  ELSE LET first == BitHighest(size)
           subidx == (size \div 2^(first - 2)) % 4
           tail == IF up /\ size % 2^(first - 2) # 0 THEN 1 ELSE 0
       IN (first - IPB_BEGIN) * 4 - 5 + subidx + tail

-----------------------------------------------------------------------------
(* The bucket queues.                                                      *)

IpbInit == [i \in Buckets |-> <<>>]

(* ipbucket_add: exact-size blocks go to the head, others to the tail.    *)
IpbAdd(B, f, size) ==
  LET i == Index(size, FALSE)
  IN [B EXCEPT ![i] = IF size = BlockSize(size) THEN <<f>> \o @ ELSE Append(@, f)]

(* ipbucket_del: unlink f from whichever queue holds it (no-op if none).  *)
IpbDel(B, f) == [i \in Buckets |-> Remove(B[i], f)]

(* ipbucket_update: re-index f under its new size.                         *)
IpbUpdate(B, f, size) == IpbAdd(IpbDel(B, f), f, size)

(* ipbucket_get: the head of the first non-empty queue at or above the    *)
(* rounded-up index of size, or NoBlock.  The caller unlinks it.           *)
IpbGet(B, size) ==
  LET lo == Index(size, TRUE)
      nonEmpty == {i \in Buckets : i >= lo /\ B[i] # <<>>}
  IN IF lo = -1 \/ nonEmpty = {} THEN NoBlock ELSE Head(B[Min(nonEmpty)])

(* ipbucket_biggest: the tail of the last non-empty queue, not unlinked.  *)
IpbBiggest(B) ==
  LET nonEmpty == {i \in Buckets : B[i] # <<>>}
  IN IF nonEmpty = {} THEN NoBlock ELSE Last(B[Max(nonEmpty)])

=============================================================================
