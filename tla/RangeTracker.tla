----------------------------- MODULE RangeTracker -----------------------------
(***************************************************************************)
(* ingestor/ranges/tracker.go: a Tracker records sub-ranges of [start,      *)
(* end] in any order and says from three watermarks whether, and up to     *)
(* where, the range is complete.                                           *)
(***************************************************************************)
EXTENDS Integers, Sequences, SequencesExt

CONSTANT MaxIndex     \* bound: the largest index a range may end with

ASSUME TrackerAssumption == MaxIndex \in Nat

VARIABLES start, end, \* the tracked range, both inclusive
          subRanges,  \* recorded sub-ranges, sorted by first
          wm          \* the low, mid and high water marks

trackerVars == <<start, end, subRanges, wm>>

TrackerTypeOK ==
  /\ start \in 0 .. MaxIndex
  /\ end \in start .. MaxIndex
  /\ \A i \in DOMAIN subRanges : subRanges[i] \in [first : start .. end, last : start .. end]
  /\ wm \in [lo : -1 .. MaxIndex, mid : -1 .. MaxIndex, hi : -1 .. MaxIndex]

NoMarks == [lo |-> -1, mid |-> -1, hi |-> -1]

\* NewTracker, for a range it accepts.
TrackerInit ==
  /\ start \in 0 .. MaxIndex
  /\ end \in start .. MaxIndex
  /\ subRanges = <<>>
  /\ wm = NoMarks

\* The last index reached from next on by sub-ranges that continue each other.
Reach(acc, sr) ==
  IF sr.first = acc.next THEN [mid |-> sr.last, next |-> sr.last + 1] ELSE acc

\* The second loop of watermarks.update, after i sub-ranges.
Reached(srs, lo) ==
  LET after[i \in 0 .. Len(srs)] ==
        IF i = 0 THEN [mid |-> -1, next |-> lo] ELSE Reach(after[i - 1], srs[i])
  IN  after

\* watermarks.update, for at least one sub-range.
Update(srs) ==
  LET lo == Min({srs[i].first : i \in DOMAIN srs})
      hi == Max({srs[i].last : i \in DOMAIN srs})
  IN  [lo |-> lo, hi |-> hi, mid |-> IF lo = start THEN Reached(srs, lo)[Len(srs)].mid ELSE -1]

IsComplete == wm.mid >= 0 /\ wm.mid = wm.hi /\ wm.hi = end

\* The test for a collision with one recorded sub-range.
Collides(sr, first, last) ==
  \/ sr.first <= first /\ first <= sr.last
  \/ sr.first <= last /\ last <= sr.last

\* A slip: the sub-ranges are not sorted.
AddSubRangeUnsorted(first, last) ==
  /\ first <= last
  /\ start <= first /\ last <= end
  /\ \A i \in DOMAIN subRanges : ~Collides(subRanges[i], first, last)
  /\ subRanges' = Append(subRanges, [first |-> first, last |-> last])
  /\ wm' = Update(subRanges')
  /\ UNCHANGED <<start, end>>

\* append and sort.Sort: all but the new sub-range are sorted, and no other has
\* its first index, so that it comes between the smaller and the larger ones.
Place(first) ==
  CHOOSE p \in 1 .. Len(subRanges) + 1 :
    /\ \A i \in 1 .. p - 1 : subRanges[i].first < first
    /\ \A i \in p .. Len(subRanges) : first < subRanges[i].first

\* AddSubRange, accepted; a call that returns an error changes nothing.
AddSubRange(first, last) ==
  /\ first <= last
  /\ start <= first /\ last <= end
  /\ \A i \in DOMAIN subRanges : ~Collides(subRanges[i], first, last)
  /\ subRanges' = InsertAt(subRanges, Place(first), [first |-> first, last |-> last])
  /\ wm' = Update(subRanges')
  /\ UNCHANGED <<start, end>>

TrackerNext == \E first, last \in 0 .. MaxIndex : AddSubRange(first, last)

TrackerSpec == TrackerInit /\ [][TrackerNext]_trackerVars

-----------------------------------------------------------------------------
Covered == UNION {subRanges[i].first .. subRanges[i].last : i \in DOMAIN subRanges}

\* IsComplete holds exactly when the recorded sub-ranges cover the range,
\* whatever their order and even if one was added around another.
CompleteExact == IsComplete <=> Covered = start .. end

\* PartiallyCompleteUpto is the last index before the first gap, -1 when the
\* range's first index is not covered.
UptoExact ==
  wm.mid = IF start \in Covered
           THEN Max({m \in start .. end : start .. m \subseteq Covered}) ELSE -1

\* Tracker, whatever the order of AddSubRange: IsComplete holds exactly when
\* the sub-ranges cover the range, and PartiallyCompleteUpto is the last index
\* before the first gap.
TrackerExact == TrackerTypeOK /\ CompleteExact /\ UptoExact

\* Why: two sub-ranges have no index in common, or one has the other inside,
\* clear of both its ends, and comes first.
Inside(a, b) == a.first < b.first /\ b.last < a.last
Sorted == \A i, j \in DOMAIN subRanges : i < j => subRanges[i].first < subRanges[j].first
Nested == \A i, j \in DOMAIN subRanges :
            i < j => subRanges[i].last < subRanges[j].first \/ Inside(subRanges[i], subRanges[j])

TrackerInv ==
  /\ start \in 0 .. MaxIndex
  /\ end \in start .. MaxIndex
  /\ subRanges \in Seq([first : start .. end, last : start .. end])
  /\ \A i \in DOMAIN subRanges : subRanges[i].first <= subRanges[i].last
  /\ Sorted /\ Nested
  /\ wm = IF subRanges = <<>> THEN NoMarks ELSE Update(subRanges)

\* What the source's comments say and the code does not do: Tracker holds "a
\* set of non-overlapping sub-ranges"; AddSubRange: "Check that [first, last]
\* doesn't overlap any already-added subranges."
NonOverlapping ==
  \A i, j \in DOMAIN subRanges : i # j =>
    (subRanges[i].first .. subRanges[i].last)
      \cap (subRanges[j].first .. subRanges[j].last) = {}
=============================================================================
