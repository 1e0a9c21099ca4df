------------------------ MODULE RewindTransport_proofs -----------------------
(***************************************************************************)
(* Proofs about the rewind transport (RewindTransport) and the runs it     *)
(* does not hold (BoundedRun), for any rings, any bounded runs, any number *)
(* of clients and of their requests.                                       *)
(***************************************************************************)
EXTENDS RunControl, SequenceTheorems, TLAPS

Moments == (-MaxFrames .. MaxFrames) \ {0}

(* A path as its moments, which is how the proofs compare two of them.     *)
LEMMA PrefixByMoment ==
    ASSUME NEW s \in Path, NEW t \in Path
    PROVE  IsPrefix(s, t) <=> Len(s) <= Len(t) /\ \A k \in 1 .. Len(s) : s[k] = t[k]
<1>1. s \in Seq(Moments) /\ t \in Seq(Moments)
  BY DEF Path, Moments
<1>2. Len(s) \in Nat /\ Len(t) \in Nat
  BY <1>1
<1>3. CASE Len(s) <= Len(t)
  <2>1. /\ Len(SubSeq(s, 1, Len(s))) = Len(s) /\ Len(SubSeq(t, 1, Len(s))) = Len(s)
        /\ \A k \in 1 .. Len(s) : /\ SubSeq(s, 1, Len(s))[k] = s[k]
                                  /\ SubSeq(t, 1, Len(s))[k] = t[k]
        /\ SubSeq(s, 1, Len(s)) \in Seq(Moments) /\ SubSeq(t, 1, Len(s)) \in Seq(Moments)
    BY <1>1, <1>2, <1>3
  <2>2. SubSeq(s, 1, Len(s)) = SubSeq(t, 1, Len(s)) <=> \A k \in 1 .. Len(s) : s[k] = t[k]
    BY <2>1, <1>2, SeqEqual
  <2> QED
    BY <2>2, <1>3 DEF IsPrefix
<1> QED
  BY <1>3 DEF IsPrefix

LEMMA PrefixOfItself == ASSUME NEW s \in Path PROVE IsPrefix(s, s)
BY PrefixByMoment DEF Path

LEMMA PrefixThrough ==
    ASSUME NEW s \in Path, NEW t \in Path, NEW u \in Path, IsPrefix(s, t), IsPrefix(t, u)
    PROVE  IsPrefix(s, u)
<1>1. Len(s) \in Nat /\ Len(t) \in Nat /\ Len(u) \in Nat
  BY DEF Path
<1>2. /\ Len(s) <= Len(t) /\ Len(t) <= Len(u)
      /\ \A k \in 1 .. Len(s) : s[k] = t[k]
      /\ \A k \in 1 .. Len(t) : t[k] = u[k]
  BY PrefixByMoment
<1>3. \A k \in 1 .. Len(s) : s[k] = u[k]
  BY <1>1, <1>2
<1> QED
  BY <1>1, <1>2, <1>3, PrefixByMoment

(* Time goes on: the way to a moment is on the way to the next.            *)
LEMMA PrefixOfNext ==
    ASSUME NEW s \in Path, NEW m \in Moments
    PROVE  Append(s, m) \in Path /\ IsPrefix(s, Append(s, m))
<1>1. Append(s, m) \in Path
  BY DEF Path, Moments
<1>2. Len(Append(s, m)) = Len(s) + 1 /\ \A k \in 1 .. Len(s) : Append(s, m)[k] = s[k]
  BY DEF Path
<1>3. Len(s) \in Nat
  BY DEF Path
<1>4. IsPrefix(s, Append(s, m))
         <=> Len(s) <= Len(Append(s, m)) /\ \A k \in 1 .. Len(s) : s[k] = Append(s, m)[k]
  BY <1>1, PrefixByMoment
<1> QED
  BY <1>1, <1>2, <1>3, <1>4

-----------------------------------------------------------------------------
(* A ring and its parts.                                                   *)

Ascending(s) == \A i, j \in DOMAIN s : i < j => s[i].id < s[j].id
OneWay(s) == \A i, j \in DOMAIN s : i < j => IsPrefix(s[i].at, s[j].at)

(* What the code keeps of a ring: some of it in a row.                     *)
Segment(t, s, off) ==
    /\ off \in Nat /\ t \in Seq(Anchor)
    /\ \A k \in 1 .. Len(t) : k + off \in 1 .. Len(s) /\ t[k] = s[k + off]

LEMMA AnchorOf ==
    ASSUME NEW s \in Seq(Anchor), NEW i \in DOMAIN s
    PROVE  /\ s[i] \in Anchor /\ s[i].id \in 1 .. MaxAnchors /\ s[i].at \in Path
           /\ s[i].id \in Nat /\ s[i].id # None
<1>1. s[i] \in Anchor
  BY ElementOfSeq
<1>2. s[i].id \in 1 .. MaxAnchors /\ s[i].at \in Path
  BY <1>1 DEF Anchor
<1> QED
  BY <1>1, <1>2, BoundAssumption

LEMMA SegmentInOrder ==
    ASSUME NEW s \in Seq(Anchor), NEW t, NEW off, Segment(t, s, off), Ascending(s)
    PROVE  /\ Ascending(t)
           /\ OneWay(s) => OneWay(t)
           /\ \A c : (\A i \in DOMAIN s : s[i].id <= c) => (\A i \in DOMAIN t : t[i].id <= c)
<1>1. Len(s) \in Nat /\ Len(t) \in Nat /\ DOMAIN s = 1 .. Len(s) /\ DOMAIN t = 1 .. Len(t)
  BY DEF Segment
<1>2. \A k \in DOMAIN t : k + off \in DOMAIN s /\ t[k] = s[k + off]
  BY <1>1 DEF Segment
<1>3. \A i, j \in DOMAIN t : i < j => i + off < j + off
  BY <1>1 DEF Segment
<1>4. Ascending(t)
  BY <1>2, <1>3 DEF Ascending
<1>5. OneWay(s) => OneWay(t)
  BY <1>2, <1>3 DEF OneWay
<1> QED
  BY <1>2, <1>4, <1>5

LEMMA TrimmedIsSegment ==
    ASSUME NEW s \in Seq(Anchor), NEW n \in Nat \ {0}
    PROVE  /\ Segment(Trimmed(s, n), s, Len(s) - Len(Trimmed(s, n)))
           /\ s # << >> => Trimmed(s, n) # << >>
           /\ s = << >> => Trimmed(s, n) = << >>
           /\ Trimmed(s, n) # << >> =>
                 Trimmed(s, n)[Len(Trimmed(s, n))] = s[Len(s)]
<1>1. Len(s) \in Nat
  OBVIOUS
<1>2. CASE Len(s) > n
  <2>1. Trimmed(s, n) = SubSeq(s, Len(s) - n + 1, Len(s))
    BY <1>2 DEF Trimmed, Newest
  <2>2. /\ SubSeq(s, Len(s) - n + 1, Len(s)) \in Seq(Anchor)
        /\ Len(SubSeq(s, Len(s) - n + 1, Len(s))) = n
        /\ \A k \in 1 .. n : SubSeq(s, Len(s) - n + 1, Len(s))[k] = s[k + (Len(s) - n)]
    <3>1. Len(s) - n + 1 \in 1 .. Len(s) + 1
      BY <1>1, <1>2
    <3> QED
      BY <1>1, <1>2, <3>1, SubSeqProperties
  <2>3. /\ Trimmed(s, n) \in Seq(Anchor) /\ Len(Trimmed(s, n)) = n
        /\ \A k \in 1 .. n : Trimmed(s, n)[k] = s[k + (Len(s) - n)]
    BY <2>1, <2>2
  <2>4. Trimmed(s, n)[n] = s[Len(s)]
    BY <2>3, <1>1, <1>2
  <2>5. Trimmed(s, n) # << >> /\ s # << >>
    BY <2>3, <1>1, <1>2
  <2> QED
    BY <2>3, <2>4, <2>5, <1>1, <1>2 DEF Segment
<1>3. CASE ~(Len(s) > n)
  BY <1>1, <1>3 DEF Trimmed, Segment
<1> QED
  BY <1>2, <1>3

(* The anchor a machine that nothing holds came by last.                   *)
HeadBehind(s, p) == s # << >> => IsPrefix(s[Len(s)].at, p)

RingOK == /\ anchors \in Seq(Anchor) /\ captured \in 0 .. MaxAnchors
          /\ max_entries \in Windows /\ IdsAscend

LEMMA CaptureKeepsRing ==
    ASSUME RingOK, NEW p \in Path, Captured(p)
    PROVE  /\ RingOK'
           /\ anchors' # << >> /\ anchors'[Len(anchors')].at = p
           /\ OneWay(anchors) /\ HeadBehind(anchors, p) => OneWay(anchors')
<1> DEFINE a == [id |-> captured + 1, at |-> p]
           s == Append(anchors, a)
<1>1. /\ anchors \in Seq(Anchor) /\ Len(anchors) \in Nat
      /\ DOMAIN anchors = 1 .. Len(anchors)
  BY DEF RingOK
<1>2. a \in Anchor
  BY BoundAssumption DEF RingOK, Captured, Anchor
<1>3. /\ s \in Seq(Anchor) /\ Len(s) = Len(anchors) + 1 /\ DOMAIN s = 1 .. Len(anchors) + 1
      /\ s[Len(s)] = a /\ \A k \in DOMAIN anchors : s[k] = anchors[k]
  BY <1>1, <1>2
<1> HIDE DEF a, s
<1>4. a.id = captured + 1 /\ a.at = p
  BY DEF a
<1>5. \A k \in DOMAIN anchors : anchors[k].id <= captured /\ anchors[k].id \in Nat
  BY <1>1, AnchorOf DEF RingOK, IdsAscend
<1>6. captured \in Nat /\ captured' = captured + 1 /\ captured' \in 0 .. MaxAnchors
  BY BoundAssumption DEF RingOK, Captured
<1>7. \A i, j \in DOMAIN s : i < j =>
          i \in DOMAIN anchors /\ (j \in DOMAIN anchors \/ j = Len(s))
  BY <1>1, <1>3
<1>8. Ascending(s)
  BY <1>3, <1>4, <1>5, <1>6, <1>7 DEF Ascending, RingOK, IdsAscend
<1>9. \A k \in DOMAIN s : s[k].id <= captured + 1
  <2>1. \A k \in DOMAIN s : k \in DOMAIN anchors \/ k = Len(s)
    BY <1>1, <1>3
  <2> QED
    BY <2>1, <1>3, <1>4, <1>5, <1>6
<1>10. OneWay(anchors) /\ HeadBehind(anchors, p) => OneWay(s)
  <2> SUFFICES ASSUME OneWay(anchors), HeadBehind(anchors, p),
                      NEW i \in DOMAIN s, NEW j \in DOMAIN s, i < j
               PROVE  IsPrefix(s[i].at, s[j].at)
    BY DEF OneWay
  <2>1. i \in DOMAIN anchors /\ s[i] = anchors[i] /\ anchors[i].at \in Path
    BY <1>1, <1>3, <1>7, AnchorOf
  <2>2. CASE j \in DOMAIN anchors
    BY <1>3, <2>1, <2>2 DEF OneWay
  <2>3. CASE j = Len(s)
    <3>1. s[j].at = p /\ anchors # << >> /\ Len(anchors) \in DOMAIN anchors
      BY <1>1, <1>3, <1>4, <2>1, <2>3
    <3>2. anchors[Len(anchors)].at \in Path /\ IsPrefix(anchors[Len(anchors)].at, p)
      BY <1>1, <3>1, AnchorOf DEF HeadBehind
    <3>3. IsPrefix(anchors[i].at, anchors[Len(anchors)].at)
      <4>1. CASE i = Len(anchors)
        BY <4>1, <3>2, PrefixOfItself
      <4>2. CASE i < Len(anchors)
        BY <4>2, <2>1, <3>1 DEF OneWay
      <4> QED
        BY <4>1, <4>2, <1>1, <2>1
    <3> QED
      BY <2>1, <3>1, <3>2, <3>3, PrefixThrough
  <2> QED
    BY <1>7, <2>2, <2>3
<1>11. anchors' = Trimmed(s, max_entries) /\ max_entries' = max_entries
  BY DEF Captured, s, a
<1>12. max_entries \in Nat \ {0} /\ max_entries' \in Windows
  BY <1>11, BoundAssumption DEF RingOK
<1>13. s # << >>
  BY <1>1, <1>3
<1>14. /\ Segment(anchors', s, Len(s) - Len(anchors'))
       /\ anchors' # << >> /\ anchors'[Len(anchors')] = s[Len(s)]
  BY <1>3, <1>11, <1>12, <1>13, TrimmedIsSegment
<1>15. Ascending(anchors') /\ (OneWay(s) => OneWay(anchors'))
       /\ \A k \in DOMAIN anchors' : anchors'[k].id <= captured + 1
  BY <1>3, <1>8, <1>9, <1>14, SegmentInOrder
<1>16. RingOK'
  BY <1>6, <1>12, <1>14, <1>15 DEF RingOK, IdsAscend, Ascending, Segment
<1> QED
  BY <1>3, <1>4, <1>10, <1>14, <1>15, <1>16

(* What the proofs of the steps use of the invariant, and have to show of  *)
(* the next state.                                                         *)
Ordered == strayed = {} =>
               /\ OneWay(anchors)
               /\ Holds => \E i \in DOMAIN anchors : anchors[i].id = cursor
               /\ ~Holds => HeadBehind(anchors, at)
               /\ \A i \in DOMAIN anchors :
                      anchors[i].id = cursor => IsPrefix(anchors[i].at, at)

Rest == /\ at \in Path /\ frames \in 0 .. MaxFrames
        /\ cursor \in 1 .. MaxAnchors \cup {None}
        /\ playing \in {"back", "fwd", None}
        /\ mode \in {"live", "replay", "cut", "step"}

LEMMA InvariantParts == IInv <=> RingOK /\ Rest /\ TransportTells /\ Ordered
<1>1. TransportTypes /\ IdsAscend <=> RingOK /\ Rest
  BY DEF TransportTypes, RingOK, Rest
<1>2. ASSUME RingOK
      PROVE  TransportKeepsOneTimeline <=> Ordered
  <2>1. /\ Len(anchors) \in Nat /\ DOMAIN anchors = 1 .. Len(anchors)
        /\ anchors # << >> <=> Len(anchors) \in DOMAIN anchors
        /\ \A i \in DOMAIN anchors : anchors[i].id # None
    BY <1>2, AnchorOf DEF RingOK
  <2>2. InOrder <=> OneWay(anchors)
    BY DEF InOrder, OneWay
  <2>3. CASE Holds
    BY <2>1, <2>2, <2>3 DEF TransportKeepsOneTimeline, Ordered, Located
  <2>4. CASE ~Holds
    <3>1. \A i \in Located : i = Len(anchors) /\ i \in DOMAIN anchors
      BY <2>4 DEF Located
    <3>2. anchors # << >> => Len(anchors) \in Located
      BY <2>1, <2>4 DEF Located
    <3>3. (\A i \in Located : IsPrefix(anchors[i].at, at)) <=> HeadBehind(anchors, at)
      BY <2>1, <3>1, <3>2 DEF HeadBehind
    <3>4. \A i \in DOMAIN anchors : anchors[i].id # cursor
      BY <2>1, <2>4 DEF Holds
    <3> QED
      BY <2>2, <2>4, <3>3, <3>4 DEF TransportKeepsOneTimeline, Ordered
  <2> QED
    BY <2>3, <2>4
<1> QED
  BY <1>1, <1>2 DEF IInv

-----------------------------------------------------------------------------
(* What several actions do.                                                *)

(* A frame emulated, whatever stops it, keeps ring and machine on one way. *)
LEMMA EmulateKeeps ==
    ASSUME IInv, ~Holds, Emulate
    PROVE  /\ RingOK' /\ at' \in Path /\ frames' \in 0 .. MaxFrames
           /\ strayed = {} => OneWay(anchors') /\ HeadBehind(anchors', at')
<1>1. /\ RingOK /\ at \in Path /\ frames \in 0 .. MaxFrames
      /\ strayed = {} => OneWay(anchors) /\ HeadBehind(anchors, at)
  BY InvariantParts DEF Rest, Ordered
<1>2. CASE UNCHANGED <<at, ring, frames>>
  BY <1>1, <1>2 DEF RingOK, IdsAscend, ring
<1>3. CASE /\ frames < MaxFrames /\ frames' = frames + 1
           /\ at' = Append(at, frames + 1)
           /\ Captured(at') \/ UNCHANGED ring
  <2>1. frames' \in 0 .. MaxFrames /\ frames + 1 \in Moments
    BY <1>1, <1>3, BoundAssumption DEF Moments
  <2>2. at' \in Path /\ IsPrefix(at, at')
    BY <1>1, <1>3, <2>1, PrefixOfNext
  <2>3. strayed = {} => OneWay(anchors) /\ HeadBehind(anchors, at')
    <3>1. anchors # << >> => Len(anchors) \in DOMAIN anchors
      BY <1>1 DEF RingOK
    <3>2. anchors # << >> => anchors[Len(anchors)].at \in Path
      BY <1>1, <3>1, AnchorOf DEF RingOK
    <3> QED
      BY <1>1, <2>2, <3>2, PrefixThrough DEF HeadBehind
  <2>4. CASE Captured(at')
    <3>1. /\ RingOK' /\ anchors' # << >> /\ anchors'[Len(anchors')].at = at'
          /\ strayed = {} => OneWay(anchors')
      BY <1>1, <2>2, <2>3, <2>4, CaptureKeepsRing
    <3> QED
      BY <2>1, <2>2, <3>1, PrefixOfItself DEF HeadBehind
  <2>5. CASE UNCHANGED ring
    BY <1>1, <2>1, <2>2, <2>3, <2>5 DEF RingOK, IdsAscend, ring
  <2> QED
    BY <1>3, <2>4, <2>5
<1> QED
  BY <1>2, <1>3 DEF Emulate

(* A move puts the machine on an anchor of the ring, and says so.          *)
LEMMA MoveKeeps ==
    ASSUME IInv, NEW i \in DOMAIN anchors, NEW playOn, MoveTo(i, playOn), UNCHANGED strayed
    PROVE  IInv'
<1>1. RingOK /\ Rest /\ TransportTells /\ Ordered
  BY InvariantParts
<1>2. /\ anchors \in Seq(Anchor) /\ Len(anchors) \in Nat /\ DOMAIN anchors = 1 .. Len(anchors)
      /\ anchors[i].at \in Path /\ anchors[i].id \in 1 .. MaxAnchors /\ anchors[i].id # None
  BY <1>1, AnchorOf DEF RingOK
<1>3. RingOK' /\ anchors' = anchors
  BY <1>1 DEF RingOK, IdsAscend, MoveTo, ring
<1>4. Rest'
  BY <1>1, <1>2 DEF Rest, MoveTo
<1>5. TransportTells'
  BY <1>1, <1>2 DEF TransportTells, PlayingHolds, ModeTells, Holds, MoveTo
<1>6. Ordered'
  <2>1. SUFFICES ASSUME strayed = {} PROVE Ordered'
    BY DEF Ordered
  <2>2. \A j \in DOMAIN anchors : anchors[j].id = anchors[i].id => j = i
    <3>1. \A j \in DOMAIN anchors : anchors[j].id \in Nat
      BY <1>2, AnchorOf
    <3>2. \A j \in DOMAIN anchors : j < i \/ j = i \/ i < j
      BY <1>2
    <3> QED
      BY <1>1, <3>1, <3>2 DEF RingOK, IdsAscend
  <2>3. IsPrefix(anchors[i].at, anchors[i].at) /\ at' = anchors[i].at
    BY <1>2, PrefixOfItself DEF MoveTo
  <2>4. OneWay(anchors)
    BY <1>1, <2>1 DEF Ordered
  <2>5. CASE i = Len(anchors)
    <3>1. cursor' = None
      BY <2>5 DEF MoveTo
    <3>2. \A j \in DOMAIN anchors : anchors[j].id # None
      BY <1>2, AnchorOf
    <3> QED
      BY <1>3, <2>3, <2>4, <2>5, <3>1, <3>2 DEF Ordered, Holds, HeadBehind
  <2>6. CASE i # Len(anchors)
    <3>1. cursor' = anchors[i].id
      BY <2>6 DEF MoveTo
    <3> QED
      BY <1>2, <1>3, <2>2, <2>3, <2>4, <3>1 DEF Ordered, Holds
  <2> QED
    BY <2>5, <2>6
<1> QED
  BY <1>3, <1>4, <1>5, <1>6, InvariantParts, PTL

(* Cutting the future leaves the anchors on the machine's own way.         *)
LEMMA CutKeeps ==
    ASSUME IInv, CutTheFuture, at' \in Path, IsPrefix(at, at'),
           frames' \in 0 .. MaxFrames, UNCHANGED strayed
    PROVE  IInv'
<1>1. RingOK /\ Rest /\ TransportTells /\ Ordered
  BY InvariantParts
<1>2. /\ anchors \in Seq(Anchor) /\ Len(anchors) \in Nat /\ DOMAIN anchors = 1 .. Len(anchors)
      /\ \A j \in DOMAIN anchors : anchors[j].at \in Path /\ anchors[j].id # None
      /\ at \in Path
  BY <1>1, AnchorOf DEF RingOK, Rest
<1>3. \A j \in DOMAIN anchors : IsPrefix(anchors[j].at, at) => IsPrefix(anchors[j].at, at')
  BY <1>2, PrefixThrough
<1>4. CASE Holds /\ Located # {}
  <2> DEFINE n == IndexOf(cursor)
             t == SubSeq(anchors, 1, n)
  <2>1. \E j \in DOMAIN anchors : anchors[j].id = cursor
    BY <1>4 DEF Located
  <2>2. n \in DOMAIN anchors /\ anchors[n].id = cursor
    BY <2>1 DEF IndexOf
  <2> HIDE DEF n
  <2>3. /\ t \in Seq(Anchor) /\ Len(t) = n /\ DOMAIN t = 1 .. n
        /\ \A k \in 1 .. n : t[k] = anchors[k]
    BY <1>2, <2>2
  <2> HIDE DEF t
  <2>4. Segment(t, anchors, 0)
    BY <1>2, <2>2, <2>3 DEF Segment
  <2>5. anchors' = t /\ UNCHANGED <<max_entries, captured>>
        /\ cursor' = None /\ playing' = None /\ mode' = "cut"
    BY <1>4 DEF CutTheFuture, Truncated, t, n
  <2>6. /\ Ascending(t) /\ (OneWay(anchors) => OneWay(t))
        /\ \A k \in DOMAIN t : t[k].id <= captured
    BY <1>1, <1>2, <2>4, SegmentInOrder DEF RingOK, IdsAscend, Ascending
  <2>7. RingOK'
    BY <1>1, <2>3, <2>5, <2>6 DEF RingOK, IdsAscend, Ascending
  <2>8. Rest' /\ TransportTells'
    BY <2>5 DEF Rest, TransportTells, PlayingHolds, ModeTells, Holds
  <2>9. Ordered'
    <3>1. \A k \in DOMAIN t : t[k].id # None
      BY <1>2, <2>2, <2>3
    <3>2. strayed = {} => OneWay(t) /\ IsPrefix(anchors[n].at, at')
      BY <1>1, <1>3, <2>2, <2>6 DEF Ordered
    <3>3. t[Len(t)] = anchors[n]
      BY <1>2, <2>2, <2>3
    <3> QED
      BY <2>5, <3>1, <3>2, <3>3 DEF Ordered, Holds, HeadBehind
  <2> QED
    BY <2>7, <2>8, <2>9, InvariantParts, PTL
<1>5. CASE Holds /\ Located = {}
  <2>1. anchors' = anchors /\ UNCHANGED <<max_entries, captured>>
        /\ cursor' = None /\ playing' = None /\ mode' = "cut"
    BY <1>5 DEF CutTheFuture, Truncated
  <2>2. RingOK' /\ Rest' /\ TransportTells'
    BY <1>1, <2>1 DEF RingOK, IdsAscend, Rest, TransportTells, PlayingHolds, ModeTells, Holds
  <2>3. strayed # {}
    BY <1>1, <1>5 DEF Ordered, Located
  <2>4. Ordered'
    BY <2>3 DEF Ordered
  <2> QED
    BY <2>2, <2>4, InvariantParts, PTL
<1>6. CASE ~Holds
  <2>1. UNCHANGED <<anchors, max_entries, captured, cursor, playing, mode>>
    BY <1>6 DEF CutTheFuture, Truncated, transport
  <2>2. RingOK' /\ Rest' /\ TransportTells'
    BY <1>1, <2>1 DEF RingOK, IdsAscend, Rest, TransportTells, PlayingHolds, ModeTells, Holds
  <2>3. \A j \in DOMAIN anchors : anchors[j].id # cursor
    BY <1>2, <1>6 DEF Holds
  <2>4. strayed = {} => OneWay(anchors) /\ HeadBehind(anchors, at')
    <3>1. anchors # << >> => Len(anchors) \in DOMAIN anchors
      BY <1>2
    <3> QED
      BY <1>1, <1>3, <1>6, <3>1 DEF Ordered, HeadBehind
  <2>5. Ordered'
    BY <1>6, <2>1, <2>3, <2>4 DEF Ordered, Holds
  <2> QED
    BY <2>2, <2>5, InvariantParts, PTL
<1> QED
  BY <1>4, <1>5, <1>6

(* A step that moves neither the machine nor the ring nor the hold.        *)
LEMMA StillKeeps ==
    ASSUME IInv, UNCHANGED <<at, frames, anchors, max_entries, captured, cursor, mode, strayed>>,
           playing' \in {playing, None}
    PROVE  IInv'
<1>1. RingOK /\ Rest /\ TransportTells /\ Ordered
  BY InvariantParts
<1>2. RingOK' /\ Rest'
  BY <1>1 DEF RingOK, IdsAscend, Rest
<1>3. TransportTells'
  BY <1>1 DEF TransportTells, PlayingHolds, ModeTells, Holds
<1>4. Ordered'
  BY <1>1 DEF Ordered, Holds, HeadBehind
<1> QED
  BY <1>2, <1>3, <1>4, InvariantParts, PTL

(* The same, with a machine that goes its own way once it is not held.     *)
LEMMA FreeKeeps ==
    ASSUME IInv, ~Holds, UNCHANGED <<cursor, playing>>, mode' \in {mode, "step"},
           RingOK', at' \in Path, frames' \in 0 .. MaxFrames,
           strayed' = {} => OneWay(anchors') /\ HeadBehind(anchors', at')
    PROVE  IInv'
<1>1. RingOK /\ Rest /\ TransportTells
  BY InvariantParts
<1>2. Rest'
  BY <1>1 DEF Rest
<1>3. TransportTells' /\ ~Holds'
  BY <1>1 DEF TransportTells, PlayingHolds, ModeTells, Holds
<1>4. \A i \in DOMAIN anchors' : anchors'[i].id # cursor'
  BY <1>3, AnchorOf DEF RingOK, Holds
<1>5. Ordered'
  BY <1>3, <1>4 DEF Ordered
<1> QED
  BY <1>2, <1>3, <1>5, InvariantParts, PTL

LEMMA StepFromAnchorKeeps ==
    ASSUME IInv, NEW d \in {-1, 1}, StepFromAnchor(d), UNCHANGED strayed
    PROVE  IInv'
<1>1. PICK i \in Located : MoveTo(StepIndex(i, d), i + d \in DOMAIN anchors)
  BY DEF StepFromAnchor
<1>2. StepIndex(i, d) \in DOMAIN anchors
  BY <1>1 DEF StepIndex, Located
<1> QED
  BY <1>1, <1>2, MoveKeeps

-----------------------------------------------------------------------------
(* The requests that move or change the ring on their own.                 *)

LEMMA PlayKeeps ==
    ASSUME IInv, NEW dir \in {"back", "fwd"}, Play(dir)
    PROVE  IInv'
<1>1. /\ RingOK /\ Rest /\ TransportTells /\ Ordered
      /\ anchors # << >> /\ UNCHANGED <<at, frames, anchors, max_entries, captured, strayed>>
  BY InvariantParts DEF Play, machine, ring
<1>2. /\ anchors \in Seq(Anchor) /\ Len(anchors) \in DOMAIN anchors
      /\ Last(anchors) = anchors[Len(anchors)]
      /\ Last(anchors).id \in 1 .. MaxAnchors /\ Last(anchors).id # None
      /\ \A i \in DOMAIN anchors : anchors[i].id # None
  BY <1>1, AnchorOf DEF RingOK, Last
<1>3. RingOK'
  BY <1>1 DEF RingOK, IdsAscend
<1>4. CASE dir = "fwd" /\ (Located = {} \/ Len(anchors) \in Located)
  <2>1. cursor' = None /\ playing' = None /\ mode' = "live"
    BY <1>4 DEF Play
  <2>2. Rest' /\ TransportTells'
    BY <1>1, <2>1 DEF Rest, TransportTells, PlayingHolds, ModeTells, Holds
  <2>3. strayed = {} => OneWay(anchors) /\ IsPrefix(anchors[Len(anchors)].at, at)
    <3>1. strayed = {} => Len(anchors) \in Located
      BY <1>1, <1>2, <1>4 DEF Ordered, Located
    <3>2. Holds /\ Len(anchors) \in Located => anchors[Len(anchors)].id = cursor
      BY DEF Located
    <3> QED
      BY <1>1, <1>2, <3>1, <3>2 DEF Ordered, HeadBehind
  <2>4. Ordered'
    BY <1>1, <1>2, <2>1, <2>3 DEF Ordered, Holds, HeadBehind
  <2> QED
    BY <1>3, <2>2, <2>4, InvariantParts, PTL
<1>5. CASE ~(dir = "fwd" /\ (Located = {} \/ Len(anchors) \in Located))
  <2>1. /\ cursor' = IF Holds THEN cursor ELSE Last(anchors).id
        /\ playing' = dir /\ mode' = "replay"
    BY <1>5 DEF Play
  <2>2. Rest' /\ TransportTells'
    BY <1>1, <1>2, <2>1 DEF Rest, TransportTells, PlayingHolds, ModeTells, Holds
  <2>3. CASE Holds
    <3>1. cursor' = cursor
      BY <2>1, <2>3
    <3>2. Ordered'
      BY <1>1, <2>3, <3>1 DEF Ordered, Holds
    <3> QED
      BY <1>3, <2>2, <3>2, InvariantParts, PTL
  <2>4. CASE ~Holds
    <3>1. cursor' = anchors[Len(anchors)].id
      BY <1>2, <2>1, <2>4
    <3>2. \A j \in DOMAIN anchors : anchors[j].id = anchors[Len(anchors)].id => j = Len(anchors)
      <4>1. \A j \in DOMAIN anchors : anchors[j].id \in Nat /\ (j < Len(anchors) \/ j = Len(anchors))
        BY <1>2, AnchorOf
      <4> QED
        BY <1>1, <1>2, <4>1 DEF RingOK, IdsAscend
    <3>3. Ordered'
      BY <1>1, <1>2, <2>4, <3>1, <3>2 DEF Ordered, Holds, HeadBehind
    <3> QED
      BY <1>3, <2>2, <3>3, InvariantParts, PTL
  <2> QED
    BY <2>3, <2>4
<1> QED
  BY <1>4, <1>5

LEMMA SetWindowKeeps ==
    ASSUME IInv, NEW n \in Windows, SetWindow(n)
    PROVE  IInv'
<1>1. /\ RingOK /\ Rest /\ TransportTells /\ Ordered
      /\ UNCHANGED <<at, frames, captured, cursor, playing, mode>>
      /\ anchors' = Trimmed(anchors, n) /\ max_entries' = n
  BY InvariantParts DEF SetWindow, machine, transport
<1>2. /\ Segment(anchors', anchors, Len(anchors) - Len(anchors'))
      /\ anchors' # << >> => anchors # << >>
                             /\ anchors'[Len(anchors')] = anchors[Len(anchors)]
  BY <1>1, BoundAssumption, TrimmedIsSegment DEF RingOK
<1>3. /\ Ascending(anchors') /\ (OneWay(anchors) => OneWay(anchors'))
      /\ \A k \in DOMAIN anchors' : anchors'[k].id <= captured
  BY <1>1, <1>2, SegmentInOrder DEF RingOK, IdsAscend, Ascending
<1>4. RingOK'
  BY <1>1, <1>2, <1>3 DEF RingOK, IdsAscend, Ascending, Segment
<1>5. Rest' /\ TransportTells'
  BY <1>1 DEF Rest, TransportTells, PlayingHolds, ModeTells, Holds
<1>6. Ordered'
  <2> SUFFICES ASSUME strayed' = {} PROVE Ordered'
    BY DEF Ordered
  <2>1. strayed = {} /\ (Holds => cursor \in Ids(anchors'))
    BY DEF SetWindow
  <2>2. Holds => \E k \in DOMAIN anchors' : anchors'[k].id = cursor
    BY <2>1 DEF Ids
  <2>3. \A k \in DOMAIN anchors' : \E j \in DOMAIN anchors : anchors'[k] = anchors[j]
    BY <1>1, <1>2, SMTT(30) DEF Segment, RingOK
  <2>4. \A k \in DOMAIN anchors' : anchors'[k].id = cursor => IsPrefix(anchors'[k].at, at)
    BY <1>1, <2>1, <2>3 DEF Ordered
  <2>5. ~Holds => HeadBehind(anchors', at)
    BY <1>1, <1>2, <2>1 DEF Ordered, HeadBehind
  <2> QED
    BY <1>1, <1>3, <2>1, <2>2, <2>4, <2>5 DEF Ordered, Holds
<1> QED
  BY <1>4, <1>5, <1>6, InvariantParts, PTL

LEMMA CheckpointCaptureKeeps ==
    ASSUME IInv, CheckpointCapture
    PROVE  IInv'
<1>1. /\ RingOK /\ Rest /\ TransportTells /\ Ordered /\ Captured(at)
      /\ UNCHANGED <<at, frames, cursor, playing, mode>>
  BY InvariantParts DEF CheckpointCapture, machine, transport
<1>2. /\ RingOK' /\ anchors' # << >> /\ anchors'[Len(anchors')].at = at
      /\ OneWay(anchors) /\ HeadBehind(anchors, at) => OneWay(anchors')
  BY <1>1, CaptureKeepsRing DEF Rest
<1>3. Rest' /\ TransportTells'
  BY <1>1 DEF Rest, TransportTells, PlayingHolds, ModeTells, Holds
<1>4. Ordered'
  <2> SUFFICES ASSUME strayed' = {} PROVE Ordered'
    BY DEF Ordered
  <2>1. strayed = {} /\ ~Holds /\ ~Holds'
    BY <1>1 DEF CheckpointCapture, Placed, Holds
  <2>2. \A i \in DOMAIN anchors' : anchors'[i].id # cursor'
    BY <1>2, <2>1, AnchorOf DEF RingOK, Holds
  <2>3. HeadBehind(anchors', at) /\ OneWay(anchors')
    BY <1>1, <1>2, <2>1, PrefixOfItself DEF Ordered, HeadBehind, Rest
  <2> QED
    BY <1>1, <2>1, <2>2, <2>3 DEF Ordered
<1> QED
  BY <1>2, <1>3, <1>4, InvariantParts, PTL

LEMMA CheckpointRestoreKeeps ==
    ASSUME IInv, NEW i \in DOMAIN anchors, NEW then, CheckpointRestore(i, then)
    PROVE  IInv'
<1>1. /\ RingOK /\ Rest /\ TransportTells
      /\ UNCHANGED <<anchors, max_entries, captured, frames, cursor, playing, mode>>
      /\ at' = anchors[i].at /\ strayed' # {}
  BY InvariantParts DEF CheckpointRestore, ring, transport
<1>2. at' \in Path
  BY <1>1, AnchorOf DEF RingOK
<1>3. RingOK' /\ Rest' /\ TransportTells'
  BY <1>1, <1>2 DEF RingOK, IdsAscend, Rest, TransportTells, PlayingHolds, ModeTells, Holds
<1>4. Ordered'
  BY <1>1 DEF Ordered
<1> QED
  BY <1>3, <1>4, InvariantParts, PTL

(* An empty ring is in order.                                              *)
LEMMA EmptyKeeps ==
    ASSUME IInv, anchors' = << >>, UNCHANGED <<max_entries, captured>>,
           Rest', TransportTells', strayed' = {} => ~Holds'
    PROVE  IInv'
<1>1. RingOK'
  BY InvariantParts DEF RingOK, IdsAscend
<1>2. Ordered'
  BY DEF Ordered, OneWay, HeadBehind
<1> QED
  BY <1>1, <1>2, InvariantParts, PTL

-----------------------------------------------------------------------------
(* The invariant holds of every behaviour.                                 *)

LEMMA InitIsSound == Init => IInv
<1> SUFFICES ASSUME Init PROVE IInv
  OBVIOUS
<1>1. anchors = << >> /\ at = << >> /\ captured = 0 /\ frames = 0 /\ max_entries \in Windows
      /\ cursor = None /\ playing = None /\ mode = "live"
  BY DEF Init
<1>2. RingOK
  BY <1>1, BoundAssumption DEF RingOK, IdsAscend
<1>3. at \in Path
  BY <1>1 DEF Path
<1>4. Rest /\ TransportTells
  BY <1>1, <1>3, BoundAssumption DEF Rest, TransportTells, PlayingHolds, ModeTells, Holds
<1>5. Ordered
  BY <1>1 DEF Ordered, OneWay, HeadBehind, Holds
<1> QED
  BY <1>2, <1>4, <1>5, InvariantParts

LEMMA StepKeepsIInv == IInv /\ [Next]_vars => IInv'
<1> SUFFICES ASSUME IInv, [Next]_vars PROVE IInv'
  OBVIOUS
<1> USE DEF machine, transport, ring
<1>0. /\ RingOK /\ Rest /\ TransportTells /\ Ordered
      /\ at \in Path /\ frames \in 0 .. MaxFrames /\ IsPrefix(at, at)
  BY InvariantParts, PrefixOfItself DEF Rest
<1>1. CASE LoopTick
  <2>1. CASE StepFromAnchor(IF playing = "back" THEN -1 ELSE 1)
    BY <1>1, <2>1, StepFromAnchorKeeps DEF LoopTick
  <2>2. CASE /\ Located = {} /\ playing' = None
             /\ UNCHANGED <<machine, ring, cursor, mode, frames>>
    BY <1>1, <2>2, StillKeeps DEF LoopTick
  <2> QED
    BY <1>1, <2>1, <2>2 DEF LoopTick
<1>2. CASE LoopAdvance
  BY <1>2, EmulateKeeps, FreeKeeps DEF LoopAdvance
<1>3. CASE ParkedReturn
  BY <1>3, StillKeeps DEF ParkedReturn
<1>4. CASE SessionPlay
  BY <1>0, <1>4, CutKeeps DEF SessionPlay
<1>5. CASE SessionPause \/ TogglePause \/ DebugPause \/ DebugContinue \/ TransportPause
  BY <1>5, StillKeeps DEF SessionPause, TogglePause, DebugPause, DebugContinue, TransportPause
<1>6. CASE \E n \in RunLengths, wait \in BOOLEAN : DebugRun(n, wait)
  BY <1>6, StillKeeps DEF DebugRun
<1>7. CASE DebugStep
  <2>1. /\ frames < MaxFrames /\ frames' = frames + 1 /\ at' = Append(at, frames + 1)
        /\ UNCHANGED <<anchors, max_entries, captured, cursor, playing, mode>>
        /\ strayed' = strayed \cup Placed(Holds)
    BY <1>7 DEF DebugStep
  <2>2. frames' \in 0 .. MaxFrames /\ frames + 1 \in Moments
    BY <1>0, <2>1, BoundAssumption DEF Moments
  <2>3. at' \in Path /\ IsPrefix(at, at')
    BY <1>0, <2>1, <2>2, PrefixOfNext
  <2>4. RingOK' /\ Rest' /\ TransportTells'
    BY <1>0, <2>1, <2>2, <2>3
       DEF RingOK, IdsAscend, Rest, TransportTells, PlayingHolds, ModeTells, Holds
  <2>5. Ordered'
    <3> SUFFICES ASSUME strayed' = {} PROVE Ordered'
      BY DEF Ordered
    <3>1. ~Holds /\ strayed = {}
      BY <2>1 DEF Placed
    <3>2. \A i \in DOMAIN anchors : anchors[i].id # cursor
      BY <1>0, <3>1, AnchorOf DEF RingOK, Holds
    <3>3. HeadBehind(anchors, at')
      <4>1. anchors # << >> => anchors[Len(anchors)].at \in Path
        BY <1>0, AnchorOf DEF RingOK
      <4> QED
        BY <1>0, <2>3, <3>1, <4>1, PrefixThrough DEF Ordered, HeadBehind
    <3> QED
      BY <1>0, <2>1, <3>1, <3>2, <3>3 DEF Ordered, Holds
  <2> QED
    BY <2>4, <2>5, InvariantParts, PTL
<1>8. CASE Intervene
  <2>1. /\ frames < MaxFrames /\ frames' = frames + 1 /\ at' = Append(at, -(frames + 1))
        /\ CutTheFuture /\ UNCHANGED strayed
    BY <1>8 DEF Intervene
  <2>2. frames' \in 0 .. MaxFrames /\ -(frames + 1) \in Moments
    BY <1>0, <2>1, BoundAssumption DEF Moments
  <2>3. at' \in Path /\ IsPrefix(at, at')
    BY <1>0, <2>1, <2>2, PrefixOfNext
  <2> QED
    BY <2>1, <2>2, <2>3, CutKeeps
<1>9. CASE \E dir \in {"back", "fwd"} : Play(dir)
  BY <1>9, PlayKeeps
<1>10. CASE \E d \in {-1, 1} : Frame(d)
  <2>1. PICK d \in {-1, 1} : Frame(d)
    BY <1>10
  <2>2. CASE d > 0 /\ ~Holds
    BY <2>1, <2>2, EmulateKeeps, FreeKeeps DEF Frame
  <2>3. CASE ~(d > 0 /\ ~Holds)
    BY <2>1, <2>3, StepFromAnchorKeeps DEF Frame
  <2> QED
    BY <2>2, <2>3
<1>11. CASE \E i \in DOMAIN anchors : Goto(i)
  BY <1>11, MoveKeeps DEF Goto
<1>12. CASE \E i \in DOMAIN anchors, then \in {"pause", "keep"} : CheckpointRestore(i, then)
  BY <1>12, CheckpointRestoreKeeps
<1>13. CASE CheckpointCapture
  BY <1>13, CheckpointCaptureKeeps
<1>14. CASE CheckpointClear
  <2>1. /\ anchors' = << >> /\ UNCHANGED <<at, frames, max_entries, captured, cursor, playing, mode>>
        /\ strayed' = {} => ~Holds
    BY <1>14 DEF CheckpointClear
  <2>2. Rest' /\ TransportTells' /\ (strayed' = {} => ~Holds')
    BY <1>0, <2>1 DEF Rest, TransportTells, PlayingHolds, ModeTells, Holds
  <2> QED
    BY <2>1, <2>2, EmptyKeeps
<1>15. CASE \E n \in Windows : SetWindow(n)
  BY <1>15, SetWindowKeeps
<1>16. CASE PowerOn
  <2>1. /\ anchors' = << >> /\ UNCHANGED <<frames, max_entries, captured>>
        /\ at' = << >> /\ cursor' = None /\ playing' = None /\ mode' = "live"
    BY <1>16 DEF PowerOn
  <2>2. at' \in Path
    BY <2>1 DEF Path
  <2>3. Rest' /\ TransportTells' /\ ~Holds'
    BY <1>0, <2>1, <2>2 DEF Rest, TransportTells, PlayingHolds, ModeTells, Holds
  <2> QED
    BY <2>1, <2>3, EmptyKeeps
<1>17. CASE UNCHANGED vars
  BY <1>17, StillKeeps DEF vars
<1> QED
  BY <1>1, <1>2, <1>3, <1>4, <1>5, <1>6, <1>7, <1>8, <1>9, <1>10, <1>11, <1>12,
     <1>13, <1>14, <1>15, <1>16, <1>17 DEF Next

LEMMA TransportIsSound == Spec => []IInv
BY InitIsSound, StepKeepsIInv, PTL DEF Spec

(* transport/state never says "playing" of a machine nothing holds, nor    *)
(* "live" of one that is held, whichever clients interleave.               *)
THEOREM TransportAlwaysTells == Spec => []TransportTells
<1>1. IInv => TransportTells
  BY DEF IInv
<1> QED
  BY <1>1, TransportIsSound, PTL

(* The ring never mixes two timelines and the machine is always on the     *)
(* ring's (transport_move_to, timeline_truncate, ring capture).            *)
THEOREM OneTimelineIsKept == Spec => []TransportKeepsOneTimeline
<1>1. IInv => TransportKeepsOneTimeline
  BY DEF IInv
<1> QED
  BY <1>1, TransportIsSound, PTL

-----------------------------------------------------------------------------
(* Bounded runs, and who drives the machine (BoundedRun): of a machine the *)
(* transport above does not hold, so with variables of its own.            *)

(* The pace the session is to be left at, and a machine whose bounded run  *)
(* owes it no more than that.                                              *)
SessionPace(m) == IF m.prev = None THEN m.pace ELSE m.prev
SoundMachine(m) ==
    m \in Bounded!Machine /\ m.over <= Overrun /\ (m.prev # None => m.left # None)

(* The larger and the smaller of two, which is how the cap is computed.    *)
LEMMA CapArithmetic ==
    ASSUME NEW a \in Int, NEW b \in Int
    PROVE  /\ Bounded!Min({a, b}) = IF a <= b THEN a ELSE b
           /\ Bounded!Max({a, b}) = IF a >= b THEN a ELSE b
<1>1. \A m \in {a, b} : (\A y \in {a, b} : m <= y) <=> m = IF a <= b THEN a ELSE b
  OBVIOUS
<1>2. \A m \in {a, b} : (\A y \in {a, b} : m >= y) <=> m = IF a >= b THEN a ELSE b
  OBVIOUS
<1> QED
  BY <1>1, <1>2 DEF Bounded!Min, Bounded!Max

(* Ending a bounded run gives the session's pace back.                     *)
LEMMA EndSound ==
    ASSUME Bounded!RunAssumption, NEW m, SoundMachine(m)
    PROVE  /\ SoundMachine(Bounded!EndBoundedRun(m))
           /\ SessionPace(Bounded!EndBoundedRun(m)) = SessionPace(m)
           /\ Bounded!EndBoundedRun(m).left = None
           /\ Bounded!EndBoundedRun(m).running = m.running
           /\ Bounded!EndBoundedRun(m).stop = m.stop
BY DEF Bounded!RunAssumption, SoundMachine, SessionPace, Bounded!EndBoundedRun,
       Bounded!Machine, Bounded!Paces

(* Stopping and going touch neither the cap nor the pace.                  *)
LEMMA StopGoSound ==
    ASSUME NEW m, SoundMachine(m), NEW reason \in Bounded!Stops
    PROVE  /\ SoundMachine(Bounded!Going(m)) /\ SoundMachine(Bounded!Stopped(m, reason))
           /\ SessionPace(Bounded!Going(m)) = SessionPace(m)
           /\ SessionPace(Bounded!Stopped(m, reason)) = SessionPace(m)
           /\ Bounded!Going(m).left = m.left /\ Bounded!Stopped(m, reason).left = m.left
           /\ Bounded!Going(m).running /\ ~Bounded!Stopped(m, reason).running
           /\ Bounded!Stopped(m, reason).stop = reason
BY DEF SoundMachine, SessionPace, Bounded!Going, Bounded!Stopped,
       Bounded!Machine, Bounded!Stops

(* A run takes over the session's pace from the run before it.             *)
LEMMA StartSound ==
    ASSUME Bounded!RunAssumption, NEW m, SoundMachine(m),
           NEW length \in Lengths \union {None}, NEW pace \in Bounded!Paces \union {None}
    PROVE  LET n == Bounded!StartRun(m, length, pace)
           IN  SoundMachine(n) /\ SessionPace(n) = SessionPace(m) /\ n.running
<1> DEFINE e == Bounded!EndBoundedRun(m)
           r == Bounded!Going(e)
<1>1. SoundMachine(r) /\ SessionPace(r) = SessionPace(m) /\ r.left = None /\ r.running
  BY EndSound, StopGoSound DEF Bounded!Stops
<1>2. r.prev = None /\ r.pace \in Bounded!Paces /\ r.pace # None
  BY <1>1 DEF SoundMachine, Bounded!Machine, Bounded!Paces, Bounded!RunAssumption
<1>3. length # None => length \in Int
  BY DEF Bounded!RunAssumption
<1> HIDE DEF r
<1>4. CASE length = None
  BY <1>1, <1>4 DEF Bounded!StartRun, r
<1>5. CASE length # None /\ pace \in {None, r.pace}
  <2>1. Bounded!StartRun(m, length, pace) = [r EXCEPT !.left = length]
    BY <1>5 DEF Bounded!StartRun, r
  <2> QED
    BY <1>1, <1>2, <1>3, <1>5, <2>1 DEF SoundMachine, SessionPace, Bounded!Machine
<1>6. CASE length # None /\ pace \notin {None, r.pace}
  <2>1. Bounded!StartRun(m, length, pace)
            = [r EXCEPT !.left = length, !.prev = r.pace, !.pace = pace]
    BY <1>6 DEF Bounded!StartRun, r
  <2> QED
    BY <1>1, <1>2, <1>3, <1>6, <2>1 DEF SoundMachine, SessionPace, Bounded!Machine
<1> QED
  BY <1>4, <1>5, <1>6

(* Whatever an advance does, it is no further past the cap than one        *)
(* instruction takes, and ends the bounded run there.                      *)
LEMMA AdvanceSound ==
    ASSUME Bounded!RunAssumption, NEW m, SoundMachine(m), NEW budget \in Nat,
           NEW n \in Bounded!Advances(m, budget)
    PROVE  /\ SoundMachine(n) /\ SessionPace(n) = SessionPace(m)
           /\ n.left # None => m.left # None
           /\ n.running => m.running
           /\ m.left = None => n.stop \in {m.stop, "breakpoint"}
<1> DEFINE t == Bounded!Target(m, budget)
           allowed == IF m.left >= 0 THEN m.left ELSE 0
<1>1. /\ m.left # None => m.left \in Int /\ Bounded!Max({0, m.left}) = allowed
      /\ Overrun \in Nat
  <2>1. Overrun \in Nat /\ (m.left # None => m.left \in Int)
    BY DEF SoundMachine, Bounded!Machine, Bounded!RunAssumption
  <2>2. \A left \in Int : Bounded!Max({0, left}) = IF 0 >= left THEN 0 ELSE left
    BY CapArithmetic
  <2> QED
    BY <2>1, <2>2
<1>2. t \in Nat /\ (m.left # None => t <= allowed)
  <2>1. CASE m.left = None
    BY <2>1 DEF Bounded!Target
  <2>2. CASE m.left # None
    <3>1. allowed \in Nat
      BY <1>1, <2>2
    <3>2. t = IF budget <= allowed THEN budget ELSE allowed
      BY <1>1, <2>2, <3>1, CapArithmetic DEF Bounded!Target
    <3> QED
      BY <3>1, <3>2
  <2> QED
    BY <2>1, <2>2
<1>3. PICK k \in Nat, hit \in BOOLEAN :
          /\ n = Bounded!Advanced(m, k, hit)
          /\ k <= t + Overrun
  <2> DEFINE past == IF t = 0 THEN 0 ELSE Overrun
  <2>1. past \in Nat /\ past <= Overrun
    BY <1>1
  <2>2. \/ \E k \in t .. (t + past) : n = Bounded!Advanced(m, k, FALSE)
        \/ \E k \in 0 .. t : n = Bounded!Advanced(m, k, TRUE)
    BY DEF Bounded!Advances
  <2> HIDE DEF past, t
  <2>3. \A k \in t .. (t + past) : k \in Nat /\ k <= t + Overrun
    BY <1>1, <1>2, <2>1
  <2>4. \A k \in 0 .. t : k \in Nat /\ k <= t + Overrun
    BY <1>1, <1>2
  <2> QED
    BY <2>2, <2>3, <2>4
<1>4. CASE Bounded!CapReached(m, k)
  <2> DEFINE e == Bounded!EndBoundedRun(Bounded!Stopped(m, "budget"))
  <2>1. /\ SoundMachine(e) /\ SessionPace(e) = SessionPace(m)
        /\ e.left = None /\ ~e.running
    BY EndSound, StopGoSound DEF Bounded!Stops
  <2>2. m.left # None
    BY <1>4 DEF Bounded!CapReached
  <2> HIDE DEF e
  <2>3. n = [e EXCEPT !.over = k - allowed]
    BY <1>1, <1>3, <1>4, <2>2 DEF Bounded!Advanced, e
  <2> QED
    BY <1>1, <1>2, <1>3, <2>1, <2>2, <2>3 DEF SoundMachine, SessionPace, Bounded!Machine
<1>5. CASE ~Bounded!CapReached(m, k) /\ hit
  <2>1. n = Bounded!EndBoundedRun(Bounded!Stopped(m, "breakpoint"))
    BY <1>3, <1>5 DEF Bounded!Advanced
  <2> QED
    BY <2>1, EndSound, StopGoSound DEF Bounded!Stops
<1>6. CASE ~Bounded!CapReached(m, k) /\ ~hit
  <2>1. n = IF m.left = None THEN m ELSE [m EXCEPT !.left = @ - k]
    BY <1>3, <1>6 DEF Bounded!Advanced
  <2>2. m.left # None => m.left - k \in Int /\ m.left - k # None
    BY <1>1, <1>3 DEF Bounded!RunAssumption
  <2> QED
    BY <2>1, <2>2 DEF SoundMachine, SessionPace, Bounded!Machine
<1> QED
  BY <1>4, <1>5, <1>6

(* IInv of a machine and a session's pace.                                 *)
LEMMA MachineParts ==
    Bounded!TypeOK /\ Bounded!PaceIsOwed /\ Bounded!StopsOnItsCap
        <=> /\ Bounded!TypeOK /\ SoundMachine(c64)
            /\ kept = SessionPace(c64)
BY DEF Bounded!TypeOK, Bounded!PaceIsOwed, Bounded!StopsOnItsCap, SoundMachine, SessionPace

(* What Remember adds to a step of the machine.                            *)
LEMMA RememberKnows ==
    ASSUME Bounded!TypeOK, Bounded!StopsAreKnown, Bounded!Remember,
           held /\ ~carried /\ ~c64'.running => c64'.stop # "budget"
    PROVE  /\ Bounded!StopsAreKnown'
           /\ held' \in BOOLEAN /\ carried' \in BOOLEAN /\ mine' \subseteq Clients
           /\ c64'.left # None /\ ~carried' => ~carried /\ c64'.running
<1>1. held \in BOOLEAN /\ carried \in BOOLEAN
  BY DEF Bounded!TypeOK
<1>2. /\ held' = (~c64'.running /\ (held \/ c64'.stop \in {"pause", "step"}))
      /\ carried' = /\ c64'.left # None \/ held'
                    /\ carried \/ (c64'.left # None /\ ~c64'.running)
      /\ mine' \subseteq Clients
  BY DEF Bounded!Remember
<1>3. held' => ~c64'.running /\ (carried' \/ c64'.stop # "budget")
  BY <1>1, <1>2
<1>4. c64'.left # None /\ ~carried' => ~carried /\ c64'.running
  BY <1>1, <1>2
<1>5. held' \in BOOLEAN /\ carried' \in BOOLEAN
  BY <1>2
<1> QED
  BY <1>2, <1>3, <1>4, <1>5 DEF Bounded!StopsAreKnown

(* A step that keeps the machine sound and the pace owed, remembers what   *)
(* it did, and keeps the agent's claim, keeps the invariant.               *)
LEMMA Keeps ==
    ASSUME Bounded!IInv, Bounded!Remember,
           SoundMachine(c64'), chosen' \in Bounded!Paces, kept' \in Bounded!Paces,
           kept' = SessionPace(c64'),
           held /\ ~carried /\ ~c64'.running => c64'.stop # "budget",
           owner' \in {"human", "llm"}, idle' \in (0 .. IdleWindow) \union {None},
           client' \in [Clients -> Bounded!Operating \union Bounded!Others
                                       \union {"none", "parked"}],
           watching' \in BOOLEAN, iterated' \in BOOLEAN, asked' \in 0 .. MaxAsked,
           ~Stalls => Bounded!AgentIsThere'
    PROVE  Bounded!IInv'
<1>1. Bounded!TypeOK /\ Bounded!StopsAreKnown
  BY DEF Bounded!IInv
<1>2. Bounded!StopsAreKnown' /\ held' \in BOOLEAN /\ carried' \in BOOLEAN /\ mine' \subseteq Clients
  BY <1>1, RememberKnows
<1>3. Bounded!TypeOK'
  BY <1>2 DEF Bounded!TypeOK, SoundMachine
<1>4. Bounded!PaceIsOwed' /\ Bounded!StopsOnItsCap'
  BY DEF Bounded!PaceIsOwed, Bounded!StopsOnItsCap, SoundMachine, SessionPace
<1> QED
  BY <1>2, <1>3, <1>4 DEF Bounded!IInv

-----------------------------------------------------------------------------
(* The loop, the clock and the viewers.                                    *)

LEMMA IterateKeeps ==
    ASSUME Bounded!RunAssumption, Bounded!IInv, Bounded!Iterate
    PROVE  Bounded!IInv'
<1> DEFINE m == IF Bounded!ReleaseDue /\ Bounded!LetsGo THEN Bounded!Going(c64) ELSE c64
           o == IF Bounded!ReleaseDue THEN "human" ELSE owner
           i == IF Bounded!ReleaseDue THEN None ELSE idle
           budget == IF m.pace = "warp" THEN FrameCycles * WarpFrames
                                          ELSE FrameCycles
<1>1. /\ Bounded!TypeOK /\ SoundMachine(c64) /\ Bounded!StopsAreKnown
      /\ kept = SessionPace(c64)
  BY MachineParts DEF Bounded!IInv
<1>2. /\ SoundMachine(m) /\ SessionPace(m) = SessionPace(c64) /\ m.left = c64.left
      /\ ~m.running => m = c64
  BY <1>1, StopGoSound DEF Bounded!Stops
<1>3. /\ owner' = o /\ iterated' = TRUE
      /\ m.running => c64' \in Bounded!Advances(m, budget) /\ idle' = Bounded!Refreshed(m, o, i)
      /\ ~m.running => c64' = m /\ idle' = i
      /\ UNCHANGED <<watching, client, asked, chosen, kept>> /\ Bounded!Remember
  BY DEF Bounded!Iterate
<1>4. budget \in Nat
  BY DEF Bounded!RunAssumption
<1>5. /\ SoundMachine(c64') /\ SessionPace(c64') = SessionPace(c64)
      /\ c64'.left # None => c64.left # None
      /\ c64'.running => m.running
  BY <1>2, <1>3, <1>4, AdvanceSound
<1>6. held /\ ~carried /\ ~c64'.running => c64'.stop # "budget"
  <2>1. held => ~c64.running /\ (carried \/ c64.stop # "budget")
    BY <1>1 DEF Bounded!StopsAreKnown
  <2>2. held /\ ~carried => m = c64
    BY <2>1 DEF Bounded!LetsGo
  <2> QED
    BY <2>1, <2>2, <1>3
<1>7. 0 \in 0 .. IdleWindow
  BY DEF Bounded!RunAssumption
<1>8. owner' \in {"human", "llm"} /\ idle' \in (0 .. IdleWindow) \union {None}
  BY <1>1, <1>3, <1>7 DEF Bounded!TypeOK, Bounded!Refreshed
<1>9. ASSUME ~Stalls PROVE Bounded!AgentIsThere'
  <2>1. Bounded!AgentIsThere
    BY <1>9 DEF Bounded!IInv
  <2>2. ASSUME NEW c \in Clients, client[c] \in Bounded!Operating,
               c \in Agents \/ owner' = "llm"
        PROVE  idle' = 0
    <3>1. owner' = "llm" => owner = "llm"
      BY <1>3
    <3>2. idle = 0
      BY <2>1, <2>2, <3>1 DEF Bounded!AgentIsThere
    <3>3. ~Bounded!ReleaseDue
      BY <3>2 DEF Bounded!ReleaseDue, Bounded!RunAssumption
    <3> QED
      BY <1>3, <3>2, <3>3 DEF Bounded!Refreshed
  <2>3. ASSUME owner' = "llm", c64'.running, c64'.left # None
        PROVE  idle' = 0
    <3>1. m.running /\ m.left # None /\ o = "llm"
      BY <1>2, <1>3, <1>5, <2>3
    <3> QED
      BY <1>3, <3>1 DEF Bounded!Refreshed
  <2> QED
    BY <1>3, <2>2, <2>3 DEF Bounded!AgentIsThere
<1> HIDE DEF m, o, i, budget
<1> QED
  BY <1>1, <1>3, <1>5, <1>6, <1>8, <1>9, Keeps DEF Bounded!TypeOK

LEMMA TickKeeps ==
    ASSUME Bounded!RunAssumption, Bounded!IInv, Bounded!Tick
    PROVE  Bounded!IInv'
<1>1. /\ Bounded!TypeOK /\ SoundMachine(c64) /\ Bounded!StopsAreKnown
      /\ kept = SessionPace(c64)
  BY MachineParts DEF Bounded!IInv
<1>2. /\ UNCHANGED <<c64, owner, watching, client, asked, chosen, kept>>
      /\ iterated' = FALSE /\ Bounded!Remember
  BY DEF Bounded!Tick
<1>3. idle # None => idle \in 0 .. IdleWindow /\ idle + 1 \in Int /\ IdleWindow \in Int
  BY <1>1 DEF Bounded!TypeOK, Bounded!RunAssumption
<1>4. idle' = IF idle = None THEN None
              ELSE IF IdleWindow <= idle + 1 THEN IdleWindow ELSE idle + 1
  BY <1>3, CapArithmetic DEF Bounded!Tick
<1>5. idle' \in (0 .. IdleWindow) \union {None}
  BY <1>3, <1>4 DEF Bounded!RunAssumption
<1>6. ASSUME ~Stalls PROVE Bounded!AgentIsThere'
  <2>1. /\ Bounded!AgentIsThere
        /\ iterated /\ \A c \in Clients : client[c] \in {"none", "parked"}
    BY <1>6 DEF Bounded!IInv, Bounded!Tick
  <2>2. \A c \in Clients : client'[c] \notin Bounded!Operating
    BY <1>2, <2>1 DEF Bounded!Operating
  <2>3. ASSUME owner' = "llm", c64'.running, c64'.left # None, ~carried'
        PROVE  idle' = 1
    <3>1. ~carried
      BY <1>1, <1>2, <2>3, RememberKnows DEF Bounded!StopsAreKnown
    <3>2. idle = 0
      BY <1>2, <2>1, <2>3, <3>1 DEF Bounded!AgentIsThere
    <3> QED
      BY <1>4, <3>2 DEF Bounded!RunAssumption
  <2> QED
    BY <1>2, <2>2, <2>3 DEF Bounded!AgentIsThere
<1>7. held /\ ~carried /\ ~c64'.running => c64'.stop # "budget"
  BY <1>1, <1>2 DEF Bounded!StopsAreKnown
<1> QED
  BY <1>1, <1>2, <1>5, <1>6, <1>7, Keeps DEF Bounded!TypeOK

LEMMA WatchKeeps ==
    ASSUME Bounded!RunAssumption, Bounded!IInv,
           \/ Bounded!Watch
           \/ UNCHANGED Bounded!vars
    PROVE  Bounded!IInv'
<1>1. /\ Bounded!TypeOK /\ SoundMachine(c64) /\ Bounded!StopsAreKnown
      /\ kept = SessionPace(c64)
  BY MachineParts DEF Bounded!IInv
<1>2. CASE Bounded!Watch
  <2>1. /\ UNCHANGED <<c64, owner, idle, client, iterated, asked, chosen, kept>>
        /\ watching' = ~watching /\ Bounded!Remember
    BY <1>2 DEF Bounded!Watch
  <2>2. held /\ ~carried /\ ~c64'.running => c64'.stop # "budget"
    BY <1>1, <2>1 DEF Bounded!StopsAreKnown
  <2>3. ASSUME ~Stalls PROVE Bounded!AgentIsThere'
    <3>1. Bounded!AgentIsThere
      BY <2>3 DEF Bounded!IInv
    <3>2. c64'.left # None /\ ~carried' => ~carried
      BY <1>1, <2>1, <2>2, RememberKnows
    <3> QED
      BY <2>1, <3>1, <3>2 DEF Bounded!AgentIsThere
  <2> QED
    BY <1>1, <2>1, <2>2, <2>3, Keeps DEF Bounded!TypeOK
<1>3. CASE UNCHANGED Bounded!vars
  <2>1. UNCHANGED <<c64, owner, idle, watching, client, iterated, asked,
                    chosen, kept, held, carried, mine>>
    BY <1>3 DEF Bounded!vars, Bounded!history
  <2> QED
    BY <2>1 DEF Bounded!IInv, Bounded!TypeOK, Bounded!PaceIsOwed, Bounded!StopsOnItsCap,
                Bounded!StopsAreKnown, Bounded!AgentIsThere
<1> QED
  BY <1>2, <1>3

-----------------------------------------------------------------------------
(* Requests.                                                               *)

(* An agent that asks is there, and a human who asks is who drives.        *)
LEMMA RequestKeeps ==
    ASSUME Bounded!RunAssumption, Bounded!IInv, NEW c \in Clients, Bounded!Request(c)
    PROVE  Bounded!IInv'
<1>1. /\ Bounded!TypeOK /\ SoundMachine(c64) /\ Bounded!StopsAreKnown
      /\ kept = SessionPace(c64)
  BY MachineParts DEF Bounded!IInv
<1>2. PICK method \in Bounded!Operating \union Bounded!Others :
         /\ client' = [client EXCEPT ![c] = method]
         /\ IF method \in Bounded!Operating
            THEN /\ owner' = Bounded!Source(c)
                 /\ idle' = IF c \in Agents THEN 0 ELSE idle
            ELSE UNCHANGED <<owner, idle>>
  BY DEF Bounded!Request
<1>3. /\ UNCHANGED <<c64, watching, iterated, chosen, kept>> /\ Bounded!Remember
      /\ asked < MaxAsked /\ asked' = asked + 1
  BY DEF Bounded!Request
<1>4. /\ owner' \in {"human", "llm"} /\ idle' \in (0 .. IdleWindow) \union {None}
      /\ asked' \in 0 .. MaxAsked
  BY <1>1, <1>2, <1>3 DEF Bounded!TypeOK, Bounded!Source, Bounded!RunAssumption
<1>5. client' \in [Clients -> Bounded!Operating \union Bounded!Others \union {"none", "parked"}]
  BY <1>1, <1>2 DEF Bounded!TypeOK
<1>6. held /\ ~carried /\ ~c64'.running => c64'.stop # "budget"
  BY <1>1, <1>3 DEF Bounded!StopsAreKnown
<1>7. ASSUME ~Stalls PROVE Bounded!AgentIsThere'
  <2>1. Bounded!AgentIsThere
    BY <1>7 DEF Bounded!IInv
  <2>2. c64'.left # None /\ ~carried' => ~carried
    BY <1>1, <1>3, <1>6, RememberKnows
  <2>3. /\ idle' = 0 \/ idle' = idle
        /\ owner' = "llm" /\ owner # "llm" => idle' = 0
    BY <1>2 DEF Bounded!Source
  <2>4. ASSUME NEW d \in Clients, client'[d] \in Bounded!Operating,
               d \in Agents \/ owner' = "llm"
        PROVE  idle' = 0
    <3>1. CASE d = c
      BY <1>1, <1>2, <2>4, <3>1 DEF Bounded!TypeOK, Bounded!Source
    <3>2. CASE d # c
      <4>1. client[d] \in Bounded!Operating
        BY <1>1, <1>2, <2>4, <3>2 DEF Bounded!TypeOK
      <4> QED
        BY <2>1, <2>3, <2>4, <4>1 DEF Bounded!AgentIsThere
    <3> QED
      BY <3>1, <3>2
  <2> QED
    BY <1>3, <2>1, <2>2, <2>3, <2>4 DEF Bounded!AgentIsThere
<1> QED
  BY <1>1, <1>3, <1>4, <1>5, <1>6, <1>7, Keeps DEF Bounded!TypeOK

(* What the handlers have in common: who handled is no longer asking, and  *)
(* a bounded run that goes on was going on, or is an agent's who is there. *)
LEMMA HandlerKeeps ==
    ASSUME Bounded!RunAssumption, Bounded!IInv, NEW c \in Clients,
           Bounded!Park(c) \/ Bounded!Reply(c), Bounded!HandlerFrame,
           SoundMachine(c64'), chosen' \in Bounded!Paces, kept' \in Bounded!Paces,
           kept' = SessionPace(c64'),
           held /\ ~carried /\ ~c64'.running => c64'.stop # "budget",
           \/ UNCHANGED owner
           \/ owner' = Bounded!Source(c) /\ client[c] \in Bounded!Operating,
           idle' = idle \/ idle' = 0,
           c64'.running /\ c64'.left # None /\ ~carried
               => \/ c64.running /\ c64.left # None
                  \/ client[c] \in Bounded!Operating
    PROVE  Bounded!IInv'
<1>1. Bounded!TypeOK /\ Bounded!StopsAreKnown
  BY DEF Bounded!IInv
<1>2. UNCHANGED <<watching, iterated, asked>> /\ Bounded!Remember
  BY DEF Bounded!HandlerFrame
<1>3. /\ client' = [client EXCEPT ![c] = "parked"] \/ client' = [client EXCEPT ![c] = "none"]
      /\ client' \in [Clients -> Bounded!Operating \union Bounded!Others \union {"none", "parked"}]
  BY <1>1 DEF Bounded!Park, Bounded!Reply, Bounded!TypeOK
<1>4. owner' \in {"human", "llm"} /\ idle' \in (0 .. IdleWindow) \union {None}
  BY <1>1 DEF Bounded!TypeOK, Bounded!Source, Bounded!RunAssumption
<1>5. ASSUME ~Stalls PROVE Bounded!AgentIsThere'
  <2>1. Bounded!AgentIsThere
    BY <1>5 DEF Bounded!IInv
  <2>2. c64'.left # None /\ ~carried' => ~carried
    BY <1>1, <1>2, RememberKnows
  <2>3. owner' = "llm" => owner = "llm" \/ (c \in Agents /\ client[c] \in Bounded!Operating)
    BY DEF Bounded!Source
  <2>4. ASSUME NEW d \in Clients, client'[d] \in Bounded!Operating,
               d \in Agents \/ owner' = "llm"
        PROVE  idle' = 0
    <3>1. client[d] \in Bounded!Operating
      BY <1>1, <1>3, <2>4 DEF Bounded!TypeOK, Bounded!Operating
    <3> QED
      BY <2>1, <2>3, <2>4, <3>1 DEF Bounded!AgentIsThere
  <2>5. owner' = "llm" /\ client[c] \in Bounded!Operating => idle' = 0
    BY <2>1, <2>3 DEF Bounded!AgentIsThere
  <2>6. ASSUME owner' = "llm", c64'.running, c64'.left # None, ~carried'
        PROVE  idle' \in {0, 1} /\ (iterated' => idle' = 0)
    <3>1. CASE client[c] \in Bounded!Operating
      BY <2>5, <2>6, <3>1
    <3>2. CASE client[c] \notin Bounded!Operating
      BY <1>2, <2>1, <2>2, <2>6, <3>2 DEF Bounded!AgentIsThere
    <3> QED
      BY <3>1, <3>2
  <2> QED
    BY <2>4, <2>6 DEF Bounded!AgentIsThere
<1> QED
  BY <1>1, <1>2, <1>3, <1>4, <1>5, Keeps DEF Bounded!TypeOK

LEMMA RunHandlersKeep ==
    ASSUME Bounded!RunAssumption, Bounded!IInv, NEW c \in Clients,
           Bounded!SessionRun(c) \/ Bounded!DebugRun(c)
    PROVE  Bounded!IInv'
<1>1. /\ Bounded!TypeOK /\ SoundMachine(c64)
      /\ kept = SessionPace(c64)
  BY MachineParts DEF Bounded!IInv
<1>2. SoundMachine(c64') /\ SessionPace(c64') = SessionPace(c64) /\ c64'.running
  BY <1>1, StartSound DEF Bounded!SessionRun, Bounded!DebugRun
<1>3. /\ client[c] \in Bounded!Operating
      /\ Bounded!Park(c) \/ Bounded!Reply(c)
      /\ Bounded!HandlerFrame /\ UNCHANGED <<idle, chosen, kept>>
      /\ owner' = owner \/ owner' = Bounded!Source(c)
  BY DEF Bounded!SessionRun, Bounded!DebugRun, Bounded!Drives, Bounded!Operating
<1> QED
  BY <1>1, <1>2, <1>3, HandlerKeeps DEF Bounded!TypeOK

LEMMA StopHandlersKeep ==
    ASSUME Bounded!RunAssumption, Bounded!IInv, NEW c \in Clients,
           \/ Bounded!DebugPause(c) \/ Bounded!DebugStep(c)
           \/ Bounded!SessionPause(c) \/ Bounded!Pause(c)
    PROVE  Bounded!IInv'
<1>1. /\ Bounded!TypeOK /\ SoundMachine(c64)
      /\ kept = SessionPace(c64)
  BY MachineParts DEF Bounded!IInv
<1>2. /\ SoundMachine(c64') /\ SessionPace(c64') = SessionPace(c64)
      /\ ~c64'.running /\ c64'.stop # "budget"
  <2>1. CASE c64' = Bounded!Stopped(c64, "pause")
    BY <1>1, <2>1, StopGoSound DEF Bounded!Stops
  <2>2. CASE c64' = Bounded!EndBoundedRun(Bounded!Stopped(c64, "pause"))
    BY <1>1, <2>2, StopGoSound, EndSound DEF Bounded!Stops
  <2>3. CASE Bounded!DebugStep(c)
    <3> DEFINE s == Bounded!Stopped(c64, "step")
    <3>1. /\ SoundMachine(s) /\ SessionPace(s) = SessionPace(c64)
          /\ ~s.running /\ s.stop = "step"
      BY <1>1, StopGoSound DEF Bounded!Stops
    <3>2. PICK k \in 1 .. (Overrun + 1) :
              c64' = [s EXCEPT !.left = IF @ = None THEN None ELSE @ - k]
      BY <2>3 DEF Bounded!DebugStep
    <3> HIDE DEF s
    <3>3. s.left # None => s.left - k \in Int /\ s.left - k # None
      BY <3>1 DEF SoundMachine, Bounded!Machine, Bounded!RunAssumption
    <3> QED
      BY <3>1, <3>2, <3>3 DEF SoundMachine, SessionPace, Bounded!Machine
  <2> QED
    BY <2>1, <2>2, <2>3 DEF Bounded!DebugPause, Bounded!SessionPause, Bounded!Pause
<1>3. /\ Bounded!Reply(c) /\ Bounded!HandlerFrame /\ UNCHANGED <<idle, chosen, kept>>
      /\ \/ UNCHANGED owner
         \/ owner' = Bounded!Source(c) /\ client[c] \in Bounded!Operating
  BY DEF Bounded!DebugPause, Bounded!DebugStep, Bounded!SessionPause, Bounded!Pause,
         Bounded!Drives, Bounded!Operating
<1> QED
  BY <1>1, <1>2, <1>3, HandlerKeeps DEF Bounded!TypeOK

LEMMA GoHandlersKeep ==
    ASSUME Bounded!RunAssumption, Bounded!IInv, NEW c \in Clients,
           Bounded!DebugContinue(c) \/ Bounded!Play(c) \/ Bounded!Reset(c)
    PROVE  Bounded!IInv'
<1>1. /\ Bounded!TypeOK /\ SoundMachine(c64) /\ Bounded!StopsAreKnown
      /\ kept = SessionPace(c64)
  BY MachineParts DEF Bounded!IInv
<1>2. /\ SoundMachine(c64') /\ SessionPace(c64') = SessionPace(c64) /\ c64'.running
      /\ c64'.left # None => c64'.left = c64.left
  <2>1. CASE c64' = Bounded!Going(c64)
    BY <1>1, <2>1, StopGoSound DEF Bounded!Stops
  <2>2. CASE c64' = Bounded!Going(Bounded!EndBoundedRun(c64))
    BY <1>1, <2>2, StopGoSound, EndSound DEF Bounded!Stops
  <2> QED
    BY <2>1, <2>2 DEF Bounded!DebugContinue, Bounded!Play, Bounded!Reset
<1>3. c64'.left # None /\ ~carried => c64.running /\ c64.left # None
  BY <1>1, <1>2 DEF Bounded!StopsAreKnown
<1>4. /\ Bounded!Reply(c) /\ Bounded!HandlerFrame /\ UNCHANGED <<idle, chosen, kept>>
      /\ \/ UNCHANGED owner
         \/ owner' = Bounded!Source(c) /\ client[c] \in Bounded!Operating
  BY DEF Bounded!DebugContinue, Bounded!Play, Bounded!Reset, Bounded!Drives, Bounded!Operating
<1> QED
  BY <1>1, <1>2, <1>3, <1>4, HandlerKeeps DEF Bounded!TypeOK

LEMMA OtherHandlersKeep ==
    ASSUME Bounded!RunAssumption, Bounded!IInv, NEW c \in Clients,
           Bounded!SetPacing(c) \/ Bounded!RunInline(c) \/ Bounded!Return(c)
    PROVE  Bounded!IInv'
<1>1. /\ Bounded!TypeOK /\ SoundMachine(c64) /\ Bounded!StopsAreKnown
      /\ kept = SessionPace(c64)
  BY MachineParts DEF Bounded!IInv
<1>2. /\ Bounded!Reply(c) /\ Bounded!HandlerFrame /\ UNCHANGED owner
      /\ idle' = idle \/ idle' = 0
  BY DEF Bounded!SetPacing, Bounded!RunInline, Bounded!Return, Bounded!Refreshed
<1>3. held => ~c64.running /\ (carried \/ (c64.stop # "budget" /\ c64.left = None))
  BY <1>1 DEF Bounded!StopsAreKnown
<1>4. CASE Bounded!SetPacing(c)
  <2>1. PICK pace \in Bounded!Paces :
            /\ c64' = [c64 EXCEPT !.pace = pace]
            /\ chosen' = pace
            /\ kept' = IF c64.prev = None THEN pace ELSE kept
    BY <1>4 DEF Bounded!SetPacing
  <2>2. /\ SoundMachine(c64') /\ c64'.running = c64.running
        /\ c64'.left = c64.left /\ c64'.stop = c64.stop
        /\ chosen' \in Bounded!Paces /\ kept' \in Bounded!Paces
        /\ kept' = SessionPace(c64')
    BY <1>1, <2>1 DEF Bounded!TypeOK, SoundMachine, SessionPace, Bounded!Machine
  <2> QED
    BY <1>2, <1>3, <2>2, HandlerKeeps
<1>5. CASE Bounded!RunInline(c)
  <2>1. PICK n \in Lengths : c64' \in Bounded!Advances(c64, n)
    BY <1>5 DEF Bounded!RunInline
  <2>2. /\ SoundMachine(c64') /\ SessionPace(c64') = SessionPace(c64)
        /\ c64'.left # None => c64.left # None
        /\ c64'.running => c64.running
        /\ c64.left = None => c64'.stop \in {c64.stop, "breakpoint"}
    BY <1>1, <2>1, AdvanceSound DEF Bounded!RunAssumption
  <2>3. UNCHANGED <<chosen, kept>>
    BY <1>5 DEF Bounded!RunInline
  <2> QED
    BY <1>1, <1>2, <1>3, <2>2, <2>3, HandlerKeeps DEF Bounded!TypeOK
<1>6. CASE Bounded!Return(c)
  <2>1. UNCHANGED <<c64, chosen, kept>>
    BY <1>6 DEF Bounded!Return
  <2> QED
    BY <1>1, <1>2, <1>3, <2>1, HandlerKeeps DEF Bounded!TypeOK
<1> QED
  BY <1>4, <1>5, <1>6

-----------------------------------------------------------------------------
LEMMA BoundedInit ==
    ASSUME Bounded!RunAssumption, Bounded!Init
    PROVE  Bounded!IInv
<1>1. c64 \in Bounded!Machine
  BY DEF Bounded!Init, Bounded!Machine, Bounded!Paces, Bounded!Stops
<1>2. client \in [Clients -> Bounded!Operating \union Bounded!Others \union {"none", "parked"}]
  BY DEF Bounded!Init
<1>3. /\ owner \in {"human", "llm"} /\ idle \in (0 .. IdleWindow) \union {None}
      /\ asked \in 0 .. MaxAsked /\ mine \subseteq Clients
  BY DEF Bounded!RunAssumption, Bounded!Init
<1>4. watching \in BOOLEAN /\ iterated \in BOOLEAN /\ held \in BOOLEAN /\ carried \in BOOLEAN
  BY DEF Bounded!Init
<1>5. chosen \in Bounded!Paces /\ kept \in Bounded!Paces
  BY DEF Bounded!Init, Bounded!Paces
<1>6. Bounded!TypeOK
  BY <1>1, <1>2, <1>3, <1>4, <1>5 DEF Bounded!TypeOK
<1> QED
  BY <1>6 DEF Bounded!RunAssumption, Bounded!Init, Bounded!IInv, Bounded!PaceIsOwed,
              Bounded!StopsOnItsCap, Bounded!StopsAreKnown, Bounded!AgentIsThere,
              Bounded!Operating

LEMMA BoundedStep ==
    ASSUME Bounded!RunAssumption, Bounded!IInv, [Bounded!Next]_(Bounded!vars)
    PROVE  Bounded!IInv'
<1>1. CASE \E c \in Clients : Bounded!Request(c)
  BY <1>1, RequestKeeps
<1>2. CASE \E c \in Clients : Bounded!Handle(c)
  BY <1>2, RunHandlersKeep, StopHandlersKeep, GoHandlersKeep, OtherHandlersKeep
  DEF Bounded!Handle
<1>3. CASE \E c \in Clients : Bounded!Return(c)
  BY <1>3, OtherHandlersKeep
<1>4. CASE Bounded!Iterate
  BY <1>4, IterateKeeps
<1>5. CASE Bounded!Tick
  BY <1>5, TickKeeps
<1>6. CASE Bounded!Watch \/ UNCHANGED Bounded!vars
  BY <1>6, WatchKeeps
<1> QED
  BY <1>1, <1>2, <1>3, <1>4, <1>5, <1>6 DEF Bounded!Next

LEMMA BoundedIsSound ==
    ASSUME Bounded!RunAssumption
    PROVE  Bounded!Spec => []Bounded!IInv
<1>1. Bounded!Init => Bounded!IInv
  BY BoundedInit
<1>2. Bounded!IInv /\ [Bounded!Next]_(Bounded!vars) => Bounded!IInv'
  BY BoundedStep
<1> QED
  BY <1>1, <1>2, PTL DEF Bounded!Spec

(* However an advance is cut up by iterations, warp and runs inside        *)
(* handlers, a bounded run stops at its cap or within one instruction of   *)
(* it, and whichever way it ends the session is back at the pace it was in *)
(* before the run asked for another.                                       *)
THEOREM RunsEndAsAsked == Bounded!Spec => []EndsAsAsked
<1>1. Bounded!IInv => EndsAsAsked
  BY DEF EndsAsAsked, Bounded!IInv, Bounded!EndsAsAsked, Bounded!PaceGivenBack, Bounded!PaceIsOwed
<1> QED
  BY <1>1, BoundedIsSound, RunsAssumption, PTL

(* While nothing stalls the loop for longer than a tick, no agent loses    *)
(* the machine while its bounded run advances, and a machine a client has  *)
(* stopped stays stopped when its agent has gone.                          *)
THEOREM ReleaseIsAlwaysJust ==
    ASSUME ~Stalls
    PROVE  Bounded!Spec => ReleaseIsJust
<1>1. ASSUME Bounded!IInv, [Bounded!Next]_(Bounded!vars), client' = client
      PROVE  \/ Bounded!Iterate \/ Bounded!Watch \/ Bounded!Tick
             \/ UNCHANGED Bounded!vars
  <2>1. client \in [Clients -> Bounded!Operating \union Bounded!Others
                                   \union {"none", "parked"}]
    BY <1>1 DEF Bounded!IInv, Bounded!TypeOK
  <2>2. ASSUME NEW c \in Clients, Bounded!Request(c) PROVE FALSE
    <3>1. client[c] = "none" /\ \E method \in Bounded!Operating \union Bounded!Others :
                                   client' = [client EXCEPT ![c] = method]
      BY <2>2 DEF Bounded!Request
    <3> QED
      BY <1>1, <2>1, <3>1 DEF Bounded!Operating, Bounded!Others
  <2>3. ASSUME NEW c \in Clients, Bounded!Handle(c) \/ Bounded!Return(c) PROVE FALSE
    <3>1. \/ client[c] \notin {"none", "parked"}
          \/ Bounded!Return(c) /\ client[c] = "parked"
      <4>1. CASE Bounded!SessionRun(c) \/ Bounded!DebugRun(c) \/ Bounded!DebugPause(c)
        BY <4>1 DEF Bounded!SessionRun, Bounded!DebugRun, Bounded!DebugPause
      <4>2. CASE Bounded!DebugContinue(c) \/ Bounded!DebugStep(c) \/ Bounded!SessionPause(c)
        BY <4>2 DEF Bounded!DebugContinue, Bounded!DebugStep, Bounded!SessionPause
      <4>3. CASE Bounded!Pause(c) \/ Bounded!Play(c) \/ Bounded!Reset(c)
        BY <4>3 DEF Bounded!Pause, Bounded!Play, Bounded!Reset
      <4>4. CASE Bounded!SetPacing(c) \/ Bounded!RunInline(c) \/ Bounded!Return(c)
        BY <4>4 DEF Bounded!SetPacing, Bounded!RunInline, Bounded!Return, Bounded!Due
      <4> QED
        BY <2>3, <4>1, <4>2, <4>3, <4>4 DEF Bounded!Handle
    <3>2. Bounded!Park(c) \/ Bounded!Reply(c)
      BY <2>3
      DEF Bounded!Handle, Bounded!SessionRun, Bounded!DebugRun, Bounded!DebugPause,
          Bounded!DebugContinue, Bounded!DebugStep, Bounded!SessionPause, Bounded!Pause,
          Bounded!Play, Bounded!Reset, Bounded!SetPacing, Bounded!RunInline, Bounded!Return
    <3>3. Bounded!Return(c) => Bounded!Reply(c)
      BY DEF Bounded!Return
    <3> QED
      BY <1>1, <2>1, <3>1, <3>2, <3>3 DEF Bounded!Park, Bounded!Reply
  <2> QED
    BY <1>1, <2>2, <2>3 DEF Bounded!Next
<1>2. ASSUME Bounded!IInv, [Bounded!Next]_(Bounded!vars) PROVE ~Bounded!ReleasedMidRun
  <2> SUFFICES ASSUME Bounded!ReleasedMidRun PROVE FALSE
    OBVIOUS
  <2>1. owner = "llm" /\ owner' = "human" /\ client' = client
        /\ c64.running /\ c64.left # None /\ ~carried
    BY DEF Bounded!ReleasedMidRun
  <2>2. Bounded!Iterate
    BY <1>1, <1>2, <2>1 DEF Bounded!Watch, Bounded!Tick, Bounded!vars
  <2>3. idle \in {0, 1}
    BY <1>2, <2>1 DEF Bounded!IInv, Bounded!AgentIsThere
  <2> QED
    BY <2>1, <2>2, <2>3, RunsAssumption
    DEF Bounded!Iterate, Bounded!ReleaseDue, Bounded!RunAssumption
<1>3. ASSUME Bounded!IInv, [Bounded!Next]_(Bounded!vars), held, ~carried, client' = client
      PROVE  ~c64'.running
  <2>1. ~c64.running /\ c64.stop # "budget"
    BY <1>3 DEF Bounded!IInv, Bounded!StopsAreKnown
  <2>2. CASE Bounded!Iterate
    BY <2>1, <2>2 DEF Bounded!Iterate, Bounded!LetsGo
  <2>3. CASE UNCHANGED c64
    BY <2>1, <2>3
  <2> QED
    BY <1>1, <1>3, <2>2, <2>3 DEF Bounded!Watch, Bounded!Tick, Bounded!vars
<1>4. Bounded!IInv /\ [Bounded!Next]_(Bounded!vars) => [~Bounded!ReleasedMidRun]_(Bounded!vars)
  BY <1>2
<1>5. Bounded!IInv /\ [Bounded!Next]_(Bounded!vars)
         => [held /\ ~carried /\ client' = client => ~c64'.running]_(Bounded!vars)
  BY <1>3
<1> QED
  BY <1>4, <1>5, BoundedIsSound, RunsAssumption, PTL
  DEF ReleaseIsJust, Bounded!Spec, Bounded!ReleaseIsJust, Bounded!NoReleaseMidRun, Bounded!ReleaseKeepsPause
=============================================================================
