------------------------- MODULE FunctionTableProofs -------------------------
(***************************************************************************)
(* Proofs about validate_function_regions, select_v98_large_header_layout  *)
(* and what parse drops, for every set of bundles: the bodies first, then  *)
(* the layout.                                                             *)
(***************************************************************************)
EXTENDS FunctionTableProps, FiniteSetTheorems, Induction

-----------------------------------------------------------------------------
(* Lists of marks.                                                         *)

MarkRec == [fn : Nat, reason : Reasons]
Ids(s) == {s[n].fn : n \in DOMAIN s}
Asc(s) == \A m, n \in DOMAIN s : m < n => s[m].fn < s[n].fn

LEMMA EmptyMarks == << >> \in Seq(MarkRec) /\ Ids(<< >>) = {} /\ Asc(<< >>)
<1>1. << >> \in Seq(MarkRec) /\ DOMAIN << >> = {}
  OBVIOUS
<1> QED BY <1>1 DEF Ids, Asc

LEMMA AppendMark ==
  ASSUME NEW s \in Seq(MarkRec), NEW x \in MarkRec
  PROVE  /\ Append(s, x) \in Seq(MarkRec)
         /\ Ids(Append(s, x)) = Ids(s) \cup {x.fn}
         /\ Asc(s) /\ (\A v \in Ids(s) : v < x.fn) => Asc(Append(s, x))
<1> DEFINE t == Append(s, x)
<1>1. /\ t \in Seq(MarkRec) /\ Len(s) \in Nat
      /\ DOMAIN s = 1..Len(s) /\ DOMAIN t = 1..(Len(s) + 1)
      /\ \A n \in 1..Len(s) : t[n] = s[n]
      /\ t[Len(s) + 1] = x
  OBVIOUS
<1> HIDE DEF t
<1>2. Ids(t) = Ids(s) \cup {x.fn}
  <2>1. \A n \in DOMAIN t : n \in DOMAIN s \/ n = Len(s) + 1
    BY <1>1
  <2>2. DOMAIN s \subseteq DOMAIN t /\ Len(s) + 1 \in DOMAIN t
    BY <1>1
  <2> QED BY <1>1, <2>1, <2>2 DEF Ids
<1>3. ASSUME Asc(s), \A v \in Ids(s) : v < x.fn PROVE Asc(t)
  <2> SUFFICES ASSUME NEW m \in DOMAIN t, NEW n \in DOMAIN t, m < n
               PROVE  t[m].fn < t[n].fn
    BY DEF Asc
  <2>1. m \in 1..Len(s) /\ s[m].fn \in Ids(s)
    BY <1>1 DEF Ids
  <2>2. CASE n = Len(s) + 1
    BY <1>1, <1>3, <2>1, <2>2
  <2>3. CASE n \in 1..Len(s)
    BY <1>1, <1>3, <2>1, <2>3 DEF Asc
  <2> QED BY <1>1, <2>2, <2>3
<1> QED BY <1>1, <1>2, <1>3 DEF t

LEMMA TailMarks ==
  ASSUME NEW s \in Seq(MarkRec), s # << >>
  PROVE  /\ Tail(s) \in Seq(MarkRec) /\ Head(s) \in MarkRec
         /\ Ids(s) = {Head(s).fn} \cup Ids(Tail(s))
         /\ Asc(s) => Asc(Tail(s)) /\ \A v \in Ids(Tail(s)) : Head(s).fn < v
<1> DEFINE t == Tail(s)
<1>1. /\ t \in Seq(MarkRec) /\ Len(s) \in Nat /\ Len(s) # 0
      /\ DOMAIN s = 1..Len(s) /\ DOMAIN t = 1..(Len(s) - 1)
      /\ \A n \in 1..(Len(s) - 1) : t[n] = s[n + 1]
      /\ Head(s) = s[1] /\ s[1] \in MarkRec
  OBVIOUS
<1> HIDE DEF t
<1>2. \A n \in DOMAIN s : n = 1 \/ (n - 1 \in DOMAIN t /\ t[n - 1] = s[n])
  BY <1>1
<1>3. \A n \in DOMAIN t : n + 1 \in DOMAIN s /\ 1 \in DOMAIN s /\ 1 < n + 1
  BY <1>1
<1>4. Ids(s) = {Head(s).fn} \cup Ids(t)
  <2>1. 1 \in DOMAIN s
    BY <1>1
  <2>2. Ids(s) \subseteq {Head(s).fn} \cup Ids(t)
    BY <1>1, <1>2 DEF Ids
  <2>3. Ids(t) \subseteq Ids(s) /\ Head(s).fn \in Ids(s)
    BY <1>1, <1>3, <2>1 DEF Ids
  <2> QED BY <2>2, <2>3
<1>5. ASSUME Asc(s) PROVE Asc(t) /\ \A v \in Ids(t) : Head(s).fn < v
  <2>1. \A n \in DOMAIN t : Head(s).fn < t[n].fn
    BY <1>1, <1>3, <1>5 DEF Asc
  <2>2. ASSUME NEW m \in DOMAIN t, NEW n \in DOMAIN t, m < n PROVE t[m].fn < t[n].fn
    <3>1. m + 1 < n + 1 /\ m + 1 \in DOMAIN s /\ n + 1 \in DOMAIN s
      BY <1>1, <2>2
    <3> QED BY <1>1, <1>5, <3>1, <2>2 DEF Asc
  <2> QED BY <2>1, <2>2 DEF Ids, Asc
<1> QED BY <1>1, <1>4, <1>5 DEF t

LEMMA ConcatMarks ==
  ASSUME NEW s \in Seq(MarkRec), NEW t \in Seq(MarkRec)
  PROVE  /\ s \o t \in Seq(MarkRec)
         /\ Ids(s \o t) = Ids(s) \cup Ids(t)
         /\ Asc(s) /\ Asc(t) /\ (\A v \in Ids(s) : \A w \in Ids(t) : v < w) => Asc(s \o t)
<1> DEFINE u == s \o t
<1>1. /\ u \in Seq(MarkRec) /\ Len(s) \in Nat /\ Len(t) \in Nat
      /\ DOMAIN s = 1..Len(s) /\ DOMAIN t = 1..Len(t) /\ DOMAIN u = 1..(Len(s) + Len(t))
      /\ \A n \in 1..Len(s) : u[n] = s[n]
      /\ \A n \in 1..Len(t) : u[Len(s) + n] = t[n]
  OBVIOUS
<1> HIDE DEF u
<1>2. \A n \in DOMAIN u :
        \/ n \in DOMAIN s /\ u[n] = s[n]
        \/ /\ n - Len(s) \in DOMAIN t /\ u[n] = t[n - Len(s)]
           /\ n > Len(s)
  <2> SUFFICES ASSUME NEW n \in DOMAIN u, n \notin DOMAIN s
               PROVE  n - Len(s) \in DOMAIN t /\ u[n] = t[n - Len(s)] /\ n > Len(s)
    BY <1>1
  <2>1. n - Len(s) \in 1..Len(t) /\ n = Len(s) + (n - Len(s)) /\ n > Len(s)
    BY <1>1
  <2> QED BY <1>1, <2>1
<1>3. Ids(u) = Ids(s) \cup Ids(t)
  <2>1. Ids(u) \subseteq Ids(s) \cup Ids(t)
    BY <1>2 DEF Ids
  <2>2. Ids(s) \subseteq Ids(u)
    <3>1. DOMAIN s \subseteq DOMAIN u
      BY <1>1
    <3> QED BY <1>1, <3>1 DEF Ids
  <2>3. Ids(t) \subseteq Ids(u)
    <3>1. \A n \in DOMAIN t : Len(s) + n \in DOMAIN u
      BY <1>1
    <3> QED BY <1>1, <3>1 DEF Ids
  <2> QED BY <2>1, <2>2, <2>3
<1>4. ASSUME Asc(s), Asc(t), \A v \in Ids(s) : \A w \in Ids(t) : v < w
      PROVE  Asc(u)
  <2> SUFFICES ASSUME NEW m \in DOMAIN u, NEW n \in DOMAIN u, m < n
               PROVE  u[m].fn < u[n].fn
    BY DEF Asc
  <2>1. CASE m \in DOMAIN s /\ n \in DOMAIN s
    BY <1>1, <1>4, <2>1 DEF Asc
  <2>2. CASE m \in DOMAIN s /\ n \notin DOMAIN s
    BY <1>1, <1>2, <1>4, <2>2 DEF Ids
  <2>3. CASE m \notin DOMAIN s
    <3>1. n \notin DOMAIN s
      BY <1>1, <2>3
    <3>2. /\ m - Len(s) \in DOMAIN t /\ n - Len(s) \in DOMAIN t
          /\ u[m] = t[m - Len(s)] /\ u[n] = t[n - Len(s)]
      BY <1>2, <2>3, <3>1
    <3>3. m - Len(s) < n - Len(s)
      BY <1>1
    <3> QED BY <1>4, <3>2, <3>3 DEF Asc
  <2> QED BY <2>1, <2>2, <2>3
<1> QED BY <1>1, <1>3, <1>4 DEF u

-----------------------------------------------------------------------------
(* The unrecognized list.  Each pass pushes idx, which it has not pushed   *)
(* yet; pass 3 skips what pass 1 marked, so the merge never meets an id    *)
(* twice and always takes the smallest left.                               *)

Before(s, t) == \A v \in Ids(s) : \A w \in Ids(t) : v < w

SortInv ==
  /\ idx \in Nat
  /\ marks1 \in Seq(MarkRec) /\ marks3 \in Seq(MarkRec) /\ unrecognized \in Seq(MarkRec)
  /\ Asc(marks1) /\ Asc(marks3) /\ Asc(unrecognized)
  /\ Before(unrecognized, marks1) /\ Before(unrecognized, marks3)
  /\ Ids(marks1) \cap Ids(marks3) = {}
  /\ pc = "select" => marks1 = << >>
  /\ pc \in {"select", "pass1", "pass2"} => marks3 = << >>
  /\ pc \in {"select", "pass1", "pass2", "pass3"} => unrecognized = << >>
  /\ pc = "pass1" => \A v \in Ids(marks1) : v < idx
  /\ pc = "pass3" => \A v \in Ids(marks3) : v < idx

LEMMA IdsNat ==
  ASSUME NEW s \in Seq(MarkRec)
  PROVE  Ids(s) \subseteq Nat
<1>1. \A n \in DOMAIN s : s[n] \in MarkRec
  OBVIOUS
<1> QED BY <1>1 DEF Ids, MarkRec

LEMMA MarkTyped ==
  ASSUME idx \in Nat
  PROVE  /\ Pass1Fault(idx) # NoFault => Mark(idx, Pass1Fault(idx)) \in MarkRec
         /\ Mark(idx, HandlerReason) \in MarkRec
         /\ Mark(idx, Pass1Fault(idx)).fn = idx /\ Mark(idx, HandlerReason).fn = idx
<1>1. Pass1Fault(idx) # NoFault => Pass1Fault(idx) \in Reasons
  BY DEF Pass1Fault, CheckedError, Reasons
<1>2. HandlerReason \in Reasons
  BY DEF Reasons
<1> QED BY <1>1, <1>2 DEF Mark, MarkRec

LEMMA SortInit == Init => SortInv
BY EmptyMarks DEF Init, SortInv, Before

LEMMA SortStep == SortInv /\ [Next]_vars => SortInv'
<1> SUFFICES ASSUME SortInv, [Next]_vars PROVE SortInv'
  OBVIOUS
<1> USE DEF SortInv, mark_vars, pass_vars, select_vars, Enter
<1>1. CASE KeepDefaultLayout
  BY <1>1, EmptyMarks DEF KeepDefaultLayout, Before
<1>2. CASE SkipHeader
  BY <1>2 DEF SkipHeader, Selecting, Before
<1>3. CASE ScoreShape
  BY <1>3 DEF ScoreShape, Selecting, Before
<1>4. CASE CompareDecodes
  BY <1>4 DEF CompareDecodes, Selecting, Before
<1>5. CASE TallyScore
  BY <1>5 DEF TallyScore, Selecting, Before
<1>6. CASE DecideLayout
  BY <1>6, EmptyMarks DEF DecideLayout, Before
<1>7. CASE MarkUnrecognized
  <2> DEFINE x == Mark(idx, Pass1Fault(idx))
  <2>1. x \in MarkRec /\ x.fn = idx
    BY <1>7, MarkTyped DEF MarkUnrecognized
  <2>2. /\ pc = "pass1" /\ pc' = pc /\ marks1' = Append(marks1, x) /\ idx' = idx + 1
        /\ UNCHANGED <<marks3, unrecognized>>
    BY <1>7 DEF MarkUnrecognized
  <2> HIDE DEF x
  <2>3. /\ marks1' \in Seq(MarkRec) /\ Ids(marks1') = Ids(marks1) \cup {idx} /\ Asc(marks1')
    BY <2>1, <2>2, AppendMark
  <2>4. \A v \in Ids(marks1') : v < idx'
    <3>1. \A v \in Ids(marks1) : v < idx /\ v \in Nat
      BY <2>2, IdsNat
    <3> QED BY <2>2, <2>3, <3>1
  <2>5. Ids(marks3) = {} /\ Ids(unrecognized) = {}
    BY <2>2, EmptyMarks
  <2> QED BY <2>2, <2>3, <2>4, <2>5 DEF Before
<1>8. CASE SkipEmptyBody
  <2>1. \A v \in Ids(marks1) : v \in Nat
    BY IdsNat
  <2> QED BY <1>8, <2>1 DEF SkipEmptyBody, Before
<1>9. CASE CollectSpan
  <2>1. \A v \in Ids(marks1) : v \in Nat
    BY IdsNat
  <2> QED BY <1>9, <2>1 DEF CollectSpan, Fail, Before
<1>10. CASE SortSpans
  BY <1>10 DEF SortSpans, Before
<1>11. CASE ComparePair
  BY <1>11 DEF ComparePair, Fail, Before
<1>12. CASE BodiesCompared
  BY <1>12, EmptyMarks DEF BodiesCompared, Fail, Before
<1>13. CASE ScreenHandlers
  <2> DEFINE x == Mark(idx, HandlerReason)
  <2>1. x \in MarkRec /\ x.fn = idx
    BY MarkTyped
  <2>2. /\ pc = "pass3" /\ pc' = pc /\ idx' = idx + 1
        /\ UNCHANGED <<marks1, unrecognized>>
        /\ \/ marks3' = marks3
           \/ marks3' = Append(marks3, x) /\ ~MarkedInPass1(idx)
    BY <1>13 DEF ScreenHandlers
  <2> HIDE DEF x
  <2>3. \A v \in Ids(marks3) : v < idx /\ v \in Nat
    BY <2>2, IdsNat
  <2>4. Ids(unrecognized) = {}
    BY <2>2, EmptyMarks
  <2>5. CASE marks3' = marks3
    BY <2>2, <2>3, <2>5 DEF Before
  <2>6. CASE marks3' = Append(marks3, x) /\ ~MarkedInPass1(idx)
    <3>1. marks3' \in Seq(MarkRec) /\ Ids(marks3') = Ids(marks3) \cup {idx} /\ Asc(marks3')
      BY <2>1, <2>3, <2>6, AppendMark
    <3>2. idx \notin Ids(marks1)
      BY <2>6 DEF MarkedInPass1, Ids
    <3>3. \A v \in Ids(marks3') : v < idx'
      BY <2>2, <2>3, <3>1
    <3> QED BY <2>2, <2>4, <3>1, <3>2, <3>3 DEF Before
  <2> QED BY <2>2, <2>5, <2>6
<1>14. CASE HandlersScreened
  BY <1>14 DEF HandlersScreened, Before
<1>15. CASE MergeHeads
  <2>1. /\ pc = "merge" /\ pc' = pc /\ idx' = idx /\ marks1 # << >> /\ marks3 # << >>
        /\ \/ /\ Head(marks1).fn <= Head(marks3).fn
              /\ unrecognized' = Append(unrecognized, Head(marks1))
              /\ marks1' = Tail(marks1) /\ marks3' = marks3
           \/ /\ ~(Head(marks1).fn <= Head(marks3).fn)
              /\ unrecognized' = Append(unrecognized, Head(marks3))
              /\ marks3' = Tail(marks3) /\ marks1' = marks1
    BY <1>15 DEF MergeHeads, TakePass1
  <2>2. /\ Tail(marks1) \in Seq(MarkRec) /\ Head(marks1) \in MarkRec
        /\ Ids(marks1) = {Head(marks1).fn} \cup Ids(Tail(marks1)) /\ Asc(Tail(marks1))
        /\ \A v \in Ids(Tail(marks1)) : Head(marks1).fn < v
    BY <2>1, TailMarks
  <2>3. /\ Tail(marks3) \in Seq(MarkRec) /\ Head(marks3) \in MarkRec
        /\ Ids(marks3) = {Head(marks3).fn} \cup Ids(Tail(marks3)) /\ Asc(Tail(marks3))
        /\ \A v \in Ids(Tail(marks3)) : Head(marks3).fn < v
    BY <2>1, TailMarks
  <2>4. /\ Head(marks1).fn \in Nat /\ Head(marks3).fn \in Nat /\ Head(marks1).fn # Head(marks3).fn
        /\ Ids(marks1) \subseteq Nat /\ Ids(marks3) \subseteq Nat /\ Ids(unrecognized) \subseteq Nat
    BY <2>2, <2>3, IdsNat
  <2>5. CASE Head(marks1).fn <= Head(marks3).fn
    <3>1. /\ unrecognized' = Append(unrecognized, Head(marks1))
          /\ marks1' = Tail(marks1) /\ marks3' = marks3
      BY <2>1, <2>5
    <3>2. /\ unrecognized' \in Seq(MarkRec) /\ Asc(unrecognized')
          /\ Ids(unrecognized') = Ids(unrecognized) \cup {Head(marks1).fn}
      BY <2>2, <3>1, AppendMark DEF Before
    <3>3. \A w \in Ids(marks3) : Head(marks1).fn < w
      BY <2>3, <2>4, <2>5
    <3>4. Before(unrecognized', marks1') /\ Before(unrecognized', marks3')
      BY <2>2, <3>1, <3>2, <3>3 DEF Before
    <3> QED BY <2>1, <2>2, <3>1, <3>2, <3>4
  <2>6. CASE ~(Head(marks1).fn <= Head(marks3).fn)
    <3>1. /\ unrecognized' = Append(unrecognized, Head(marks3))
          /\ marks3' = Tail(marks3) /\ marks1' = marks1
      BY <2>1, <2>6
    <3>2. /\ unrecognized' \in Seq(MarkRec) /\ Asc(unrecognized')
          /\ Ids(unrecognized') = Ids(unrecognized) \cup {Head(marks3).fn}
      BY <2>3, <3>1, AppendMark DEF Before
    <3>3. \A w \in Ids(marks1) : Head(marks3).fn < w
      BY <2>2, <2>4, <2>6
    <3>4. Before(unrecognized', marks1') /\ Before(unrecognized', marks3')
      BY <2>3, <3>1, <3>2, <3>3 DEF Before
    <3> QED BY <2>1, <2>3, <3>1, <3>2, <3>4
  <2> QED BY <2>5, <2>6
<1>16. CASE MergeRest
  <2>1. /\ pc' = "parsed" /\ idx' = 1 /\ marks1' = << >> /\ marks3' = << >>
        /\ unrecognized' = unrecognized \o marks1 \o marks3
        /\ marks1 = << >> \/ marks3 = << >>
    BY <1>16 DEF MergeRest, OneListDone
  <2> DEFINE left == unrecognized \o marks1
  <2>2. left \in Seq(MarkRec) /\ Ids(left) = Ids(unrecognized) \cup Ids(marks1) /\ Asc(left)
    BY ConcatMarks DEF Before
  <2> HIDE DEF left
  <2>3. \A v \in Ids(left) : \A w \in Ids(marks3) : v < w
    BY <2>1, <2>2, EmptyMarks DEF Before
  <2>4. left \o marks3 \in Seq(MarkRec) /\ Asc(left \o marks3)
    BY <2>2, <2>3, ConcatMarks
  <2>5. unrecognized' = left \o marks3
    BY <2>1 DEF left
  <2> QED BY <2>1, <2>4, <2>5, EmptyMarks DEF Before
<1>17. CASE UNCHANGED vars \/ Returned
  BY <1>17 DEF vars, Returned, Before
<1> QED BY <1>1, <1>2, <1>3, <1>4, <1>5, <1>6, <1>7, <1>8, <1>9, <1>10, <1>11, <1>12, <1>13,
           <1>14, <1>15, <1>16, <1>17 DEF Next

(* The list is_function_unrecognized searches is strictly ascending, for   *)
(* every bundle, in every state of the merge.                              *)
THEOREM UnrecognizedListSorted == Spec => []UnrecognizedSorted
<1>1. SortInv => UnrecognizedSorted
  BY DEF SortInv, Asc, UnrecognizedSorted
<1> QED BY <1>1, SortInit, SortStep, PTL DEF Spec

-----------------------------------------------------------------------------
(* The bodies.  Every function pass 1 has met is marked, has no body or    *)
(* has a span; the marks move to the unrecognized list.  Pass 2 has        *)
(* compared the spans up to idx: neighbours that are the same or apart     *)
(* keep all the spans before them the same or before them.                 *)

SpanRec == [fn : Nat, offset : Nat, size : Nat]

Held(f) == \E n \in DOMAIN spans : SameBody(spans[n], FunctionGet(f))

Seen(f) ==
  \/ f \in Ids(marks1) \cup Ids(unrecognized)
  \/ FunctionGet(f).size = 0
  \/ Held(f)

Compat(a, b) == SameBody(a, b) \/ a.offset + a.size <= b.offset

ComparedUpTo(k) == \A m, n \in DOMAIN spans : m < n /\ n <= k => Compat(spans[m], spans[n])

Checked == {"pass3", "merge", "parsed"}

ApartInv ==
  /\ file \in Bundles
  /\ idx \in Nat \ {0}
  /\ spans \in Seq(SpanRec)
  /\ \A n \in DOMAIN spans : InRegion(spans[n])
  /\ pc = "pass1" => \A f \in Fns : f < idx => Seen(f)
  /\ pc \in {"pass2"} \cup Checked => \A f \in Fns : Seen(f)
  /\ pc = "pass2" => ComparedUpTo(idx)
  /\ pc \in Checked => ComparedUpTo(Len(spans))
  /\ pc = "parsed" => marks1 = << >>

LEMMA FileFacts ==
  ASSUME file \in Bundles
  PROVE  /\ FnCount \in Nat
         /\ \A f \in Fns : /\ FunctionGet(f).offset \in Nat
                           /\ FunctionGet(f).size \in Nat
<1>1. file \in Bundle
  BY FunctionTableAssumption
<1>2. file.fns \in Seq(Entry) /\ file.large \in [LargeOff -> LargeHeader]
  BY <1>1 DEF Bundle
<1>3. FnCount \in Nat /\ \A f \in Fns : file.fns[f] \in Entry
  BY <1>2 DEF FnCount, Fns
<1>4. ASSUME NEW f \in Fns
      PROVE  FunctionGet(f).offset \in Nat /\ FunctionGet(f).size \in Nat
  <2>1. /\ file.fns[f].offset \in Nat /\ file.fns[f].size \in Nat
        /\ file.fns[f].lo \in LargeOff
    BY <1>3 DEF Entry
  <2>2. Large(f) \in LargeHeader
    BY <1>2, <2>1 DEF Large
  <2>3. Large(f).offset \in Nat /\ Large(f).size \in Nat
    BY <2>2 DEF LargeHeader
  <2> QED BY <2>1, <2>3 DEF FunctionGet
<1> QED BY <1>3, <1>4

(* What depends on the file and the layout only.                           *)
LEMMA Kept ==
  ASSUME UNCHANGED <<file, large_header_layout>>
  PROVE  /\ \A f : FunctionGet(f)' = FunctionGet(f)
         /\ Fns' = Fns
         /\ \A d : InRegion(d)' <=> InRegion(d)
BY DEF FunctionGet, Large, Fns, FnCount, InRegion

LEMMA SeenKept ==
  ASSUME UNCHANGED <<file, large_header_layout, spans>>,
         Ids(marks1) \cup Ids(unrecognized) \subseteq (Ids(marks1) \cup Ids(unrecognized))'
  PROVE  \A f : Seen(f) => Seen(f)'
BY Kept DEF Seen, Held

LEMMA AppendSpan ==
  ASSUME NEW s \in Seq(SpanRec), NEW x \in SpanRec
  PROVE  /\ Append(s, x) \in Seq(SpanRec)
         /\ DOMAIN s \subseteq DOMAIN Append(s, x)
         /\ \A n \in DOMAIN s : Append(s, x)[n] = s[n]
         /\ \A n \in DOMAIN Append(s, x) : n \in DOMAIN s \/ Append(s, x)[n] = x
         /\ \E n \in DOMAIN Append(s, x) : Append(s, x)[n] = x
<1> DEFINE t == Append(s, x)
<1>1. /\ t \in Seq(SpanRec) /\ Len(s) \in Nat
      /\ DOMAIN s = 1..Len(s) /\ DOMAIN t = 1..(Len(s) + 1)
      /\ \A n \in 1..Len(s) : t[n] = s[n]
      /\ t[Len(s) + 1] = x
  OBVIOUS
<1> HIDE DEF t
<1>2. \A n \in DOMAIN t : n \in DOMAIN s \/ n = Len(s) + 1
  BY <1>1
<1>3. DOMAIN s \subseteq DOMAIN t /\ Len(s) + 1 \in DOMAIN t
  BY <1>1
<1> QED BY <1>1, <1>2, <1>3 DEF t

(* An arrangement that no two positions share uses every position.         *)
LEMMA Arranged ==
  ASSUME NEW N \in Nat, NEW r \in [1..N -> 1..N],
         \A m, n \in 1..N : m < n => r[m] # r[n]
  PROVE  \A k \in 1..N : \E n \in 1..N : r[n] = k
<1>1. r \in Injection(1..N, 1..N)
  <2>1. \A m, n \in 1..N : r[m] = r[n] => m = n
    OBVIOUS
  <2> QED BY <2>1 DEF Injection, IsInjective
<1>2. IsFiniteSet(1..N)
  BY FS_Interval
<1>3. r \in Surjection(1..N, 1..N)
  BY <1>1, <1>2, FS_Injection
<1> QED BY <1>3 DEF Surjection

LEMMA ApartInit == Init => ApartInv
<1> SUFFICES ASSUME Init PROVE ApartInv
  OBVIOUS
<1>1. spans \in Seq(SpanRec) /\ DOMAIN spans = {}
  BY DEF Init
<1> QED BY <1>1 DEF Init, ApartInv, Checked

(* Steps that leave the spans and the layout alone and unmark nobody.      *)
LEMMA ApartKept ==
  ASSUME ApartInv, UNCHANGED <<file, large_header_layout, spans>>,
         Ids(marks1) \cup Ids(unrecognized) \subseteq (Ids(marks1) \cup Ids(unrecognized))',
         idx' \in Nat \ {0},
         pc' = "pass1" => \A f \in Fns : f < idx' => Seen(f) \/ Seen(f)',
         pc' \in {"pass2"} \cup Checked => pc \in {"pass2"} \cup Checked,
         pc' = "pass2" => ComparedUpTo(idx'),
         pc' \in Checked => ComparedUpTo(Len(spans)),
         pc' = "parsed" => marks1' = << >>
  PROVE  ApartInv'
<1>1. \A f : Seen(f) => Seen(f)'
  BY SeenKept
<1>2. Fns' = Fns /\ \A n \in DOMAIN spans : InRegion(spans[n])'
  BY Kept DEF ApartInv
<1>3. spans' = spans /\ file' = file
  OBVIOUS
<1>4. \A k : ComparedUpTo(k)' <=> ComparedUpTo(k)
  BY <1>3 DEF ComparedUpTo
<1>5. \A n \in DOMAIN spans' : InRegion(spans[n])'
  BY <1>2, <1>3
<1>6. pc' = "pass2" => ComparedUpTo(idx)'
  BY <1>3 DEF ComparedUpTo
<1>7. pc' \in Checked => ComparedUpTo(Len(spans))'
  BY <1>3 DEF ComparedUpTo
<1>8. pc' = "pass1" => \A f \in Fns' : f < idx' => Seen(f)'
  BY <1>1, <1>2
<1>9. pc' \in {"pass2"} \cup Checked => \A f \in Fns' : Seen(f)'
  BY <1>1, <1>2 DEF ApartInv
<1>10. file' \in Bundles /\ spans' \in Seq(SpanRec)
  BY <1>3 DEF ApartInv
<1> QED BY <1>5, <1>6, <1>7, <1>8, <1>9, <1>10 DEF ApartInv, Checked

(* The layout is decided before pass 1 has met anybody.                    *)
LEMMA ApartSelect ==
  ASSUME ApartInv, KeepDefaultLayout \/ SkipHeader \/ ScoreShape \/ CompareDecodes \/ TallyScore
                     \/ DecideLayout
  PROVE  ApartInv'
<1>1. /\ UNCHANGED <<file, spans>> /\ idx' \in Nat \ {0}
      /\ pc' = "select" \/ (pc' = "pass1" /\ idx' = 1)
  BY DEF ApartInv, KeepDefaultLayout, SkipHeader, ScoreShape, CompareDecodes, TallyScore,
         DecideLayout, Selecting, Enter, select_vars, pass_vars
<1>2. \A d : InRegion(d)' <=> InRegion(d)
  BY <1>1 DEF InRegion
<1>3. FnCount' = FnCount /\ FnCount \in Nat
  BY <1>1, FileFacts DEF FnCount, ApartInv
<1>4. idx' = 1 => \A f \in Fns' : ~(f < idx')
  BY <1>3 DEF Fns
<1>5. \A n \in DOMAIN spans' : InRegion(spans[n])'
  BY <1>1, <1>2 DEF ApartInv
<1> QED BY <1>1, <1>4, <1>5 DEF ApartInv, Checked

(* Pass 1 meets one function.                                              *)
LEMMA ApartPass1 ==
  ASSUME SortInv, ApartInv, MarkUnrecognized \/ SkipEmptyBody \/ CollectSpan
  PROVE  ApartInv'
<1>1. /\ FnCount \in Nat /\ idx \in Nat \ {0} /\ pc = "pass1" /\ idx \in Fns
      /\ UNCHANGED <<file, large_header_layout>>
      /\ \A f \in Fns : f < idx + 1 => f < idx \/ f = idx
  BY FileFacts DEF ApartInv, MarkUnrecognized, SkipEmptyBody, CollectSpan, select_vars, Fns
<1>2. CASE MarkUnrecognized
  <2> DEFINE x == Mark(idx, Pass1Fault(idx))
  <2>1. /\ UNCHANGED <<spans, unrecognized, pc>> /\ idx' = idx + 1
        /\ marks1' = Append(marks1, x)
    BY <1>2 DEF MarkUnrecognized
  <2>2. x \in MarkRec /\ x.fn = idx
    BY <1>1, <1>2, MarkTyped DEF MarkUnrecognized
  <2> HIDE DEF x
  <2>3. Ids(marks1') = Ids(marks1) \cup {idx}
    BY <2>1, <2>2, AppendMark DEF SortInv
  <2>4. (Ids(marks1) \cup Ids(unrecognized))' = Ids(marks1) \cup Ids(unrecognized) \cup {idx}
    BY <2>1, <2>3
  <2>5. \A f \in Fns : f < idx' => Seen(f) \/ Seen(f)'
    <3>1. \A f : f = idx => Seen(f)'
      BY <2>4, <2>1 DEF Seen
    <3> QED BY <1>1, <2>1, <3>1 DEF ApartInv
  <2> QED BY <1>1, <2>1, <2>4, <2>5, ApartKept DEF Checked
<1>3. CASE SkipEmptyBody
  <2>1. /\ UNCHANGED <<spans, unrecognized, marks1, pc>> /\ idx' = idx + 1
        /\ FunctionGet(idx).size = 0
    BY <1>3 DEF SkipEmptyBody, pass_vars, mark_vars
  <2>2. \A f \in Fns : f < idx' => Seen(f)
    BY <1>1, <2>1 DEF ApartInv, Seen
  <2>3. (Ids(marks1) \cup Ids(unrecognized))' = Ids(marks1) \cup Ids(unrecognized)
    BY <2>1
  <2> QED BY <1>1, <2>1, <2>2, <2>3, ApartKept DEF Checked
<1>4. CASE CollectSpan
  <2> DEFINE d == FunctionGet(idx)
             x == [fn |-> idx, offset |-> d.offset, size |-> d.size]
  <2>1. /\ UNCHANGED <<unrecognized, marks1>>
        /\ \/ /\ InRegion(d) /\ spans' = Append(spans, x) /\ idx' = idx + 1 /\ pc' = pc
           \/ spans' = spans /\ idx' = idx /\ pc' = "FunctionBodyOutOfBytecodeRegion"
    BY <1>4 DEF CollectSpan, Fail, mark_vars
  <2>2. CASE spans' = spans /\ idx' = idx /\ pc' = "FunctionBodyOutOfBytecodeRegion"
    BY <1>1, <2>1, <2>2, ApartKept DEF Checked
  <2>3. CASE InRegion(d) /\ spans' = Append(spans, x) /\ idx' = idx + 1 /\ pc' = pc
    <3>1. d.offset \in Nat /\ d.size \in Nat
      BY <1>1, FileFacts DEF ApartInv
    <3>2. x \in SpanRec /\ SameBody(x, d) /\ InRegion(x)
      BY <1>1, <2>3, <3>1 DEF SpanRec, SameBody, InRegion
    <3> HIDE DEF x, d
    <3>3. /\ spans' \in Seq(SpanRec)
          /\ DOMAIN spans \subseteq DOMAIN spans'
          /\ \A n \in DOMAIN spans : spans'[n] = spans[n]
          /\ \A n \in DOMAIN spans' : n \in DOMAIN spans \/ spans'[n] = x
          /\ \E n \in DOMAIN spans' : spans'[n] = x
      BY <2>3, <3>2, AppendSpan DEF ApartInv
    <3>4. \A n \in DOMAIN spans' : InRegion(spans'[n])
      BY <3>2, <3>3 DEF ApartInv
    <3>5. \A n \in DOMAIN spans' : InRegion(spans[n])'
      BY <1>1, <3>4 DEF InRegion
    <3>6. \A f : FunctionGet(f)' = FunctionGet(f)
      BY <1>1, Kept
    <3>7. \A f : Held(f) => Held(f)'
      BY <3>3, <3>6 DEF Held
    <3>8. \A f : Seen(f) => Seen(f)'
      BY <2>1, <3>6, <3>7 DEF Seen
    <3>9. \A f : f = idx => Seen(f)'
      BY <3>2, <3>3, <3>6 DEF d, Seen, Held
    <3>10. Fns' = Fns
      BY <1>1, Kept
    <3>11. \A f \in Fns' : f < idx' => Seen(f)'
      BY <1>1, <2>3, <3>8, <3>9, <3>10 DEF ApartInv
    <3> QED BY <1>1, <2>3, <3>3, <3>5, <3>11 DEF ApartInv, Checked
  <2> QED BY <2>1, <2>2, <2>3
<1> QED BY <1>2, <1>3, <1>4

(* Sorting keeps every body, whatever the order.                           *)
LEMMA ApartSort ==
  ASSUME ApartInv, SortSpans
  PROVE  ApartInv'
<1>1. /\ UNCHANGED <<file, large_header_layout, marks1, unrecognized>>
      /\ pc = "pass1" /\ idx = FnCount + 1 /\ pc' = "pass2" /\ idx' = 1
  BY DEF SortSpans, Enter, select_vars, mark_vars
<1>2. PICK r \in [DOMAIN spans -> DOMAIN spans] :
        /\ \A m, n \in DOMAIN spans :
             m < n => \/ spans[r[m]].offset < spans[r[n]].offset
                      \/ spans[r[m]].offset = spans[r[n]].offset /\ r[m] < r[n]
        /\ spans' = [n \in DOMAIN spans |-> spans[r[n]]]
  BY DEF SortSpans
<1> DEFINE N == Len(spans)
<1>3. N \in Nat /\ DOMAIN spans = 1..N /\ \A n \in 1..N : spans[n] \in SpanRec
  BY DEF ApartInv
<1> HIDE DEF N
<1>4. \A m, n \in 1..N : m < n => r[m] # r[n]
  <2> SUFFICES ASSUME NEW m \in 1..N, NEW n \in 1..N, m < n, r[m] = r[n] PROVE FALSE
    OBVIOUS
  <2>1. r[m] \in 1..N
    BY <1>3
  <2>2. spans[r[m]].offset \in Nat /\ r[m] \in Nat
    <3>1. spans[r[m]] \in SpanRec
      BY <1>3, <2>1
    <3> QED BY <2>1, <3>1 DEF SpanRec
  <2> QED BY <1>2, <1>3, <2>2
<1>5. \A k \in DOMAIN spans : \E n \in DOMAIN spans : r[n] = k
  <2>1. r \in [1..N -> 1..N]
    BY <1>3
  <2>2. \A k \in 1..N : \E n \in 1..N : r[n] = k
    BY <1>3, <1>4, <2>1, Arranged
  <2> QED BY <1>3, <2>2
<1>6. DOMAIN spans' = DOMAIN spans /\ \A n \in DOMAIN spans : spans'[n] = spans[r[n]]
  BY <1>2
<1>7. spans' \in Seq(SpanRec)
  BY <1>2, <1>3
<1>8. \A n \in DOMAIN spans' : InRegion(spans[n])'
  <2>1. \A n \in DOMAIN spans' : InRegion(spans'[n])
    BY <1>2, <1>6 DEF ApartInv
  <2> QED BY <1>1, <2>1 DEF InRegion
<1>9. \A f : FunctionGet(f)' = FunctionGet(f)
  BY <1>1, Kept
<1>10. ASSUME NEW f, Held(f) PROVE Held(f)'
  <2>1. PICK k \in DOMAIN spans : SameBody(spans[k], FunctionGet(f))
    BY <1>10 DEF Held
  <2>2. PICK n \in DOMAIN spans : r[n] = k
    BY <1>5
  <2>3. n \in DOMAIN spans' /\ spans'[n] = spans[k]
    BY <1>6, <2>2
  <2> QED BY <1>9, <2>1, <2>3 DEF Held
<1>11. \A f : Seen(f) => Seen(f)'
  BY <1>1, <1>9, <1>10 DEF Seen
<1>12. \A f \in Fns' : Seen(f)'
  <2>1. Fns' = Fns /\ \A f \in Fns : f < idx
    BY <1>1, Kept, FileFacts DEF ApartInv, Fns
  <2> QED BY <1>1, <1>11, <2>1 DEF ApartInv
<1>13. ComparedUpTo(idx)'
  BY <1>1, <1>3, <1>6 DEF ComparedUpTo
<1>14. file' \in Bundles
  BY <1>1 DEF ApartInv
<1> QED BY <1>1, <1>7, <1>8, <1>12, <1>13, <1>14 DEF ApartInv, Checked

(* A span compared with its neighbour is apart from all before it.         *)
LEMMA CompareNext ==
  ASSUME spans \in Seq(SpanRec), idx \in Nat \ {0}, idx < Len(spans), ComparedUpTo(idx),
         Compat(spans[idx], spans[idx + 1])
  PROVE  ComparedUpTo(idx + 1)
<1>1. /\ Len(spans) \in Nat /\ DOMAIN spans = 1..Len(spans)
      /\ idx \in DOMAIN spans /\ idx + 1 \in DOMAIN spans
  OBVIOUS
<1>2. \A n \in DOMAIN spans : spans[n].offset \in Nat /\ spans[n].size \in Nat
  <2>1. \A n \in DOMAIN spans : spans[n] \in SpanRec
    OBVIOUS
  <2> QED BY <2>1 DEF SpanRec
<1> SUFFICES ASSUME NEW m \in DOMAIN spans, NEW n \in DOMAIN spans, m < n, n <= idx + 1
             PROVE  Compat(spans[m], spans[n])
  BY DEF ComparedUpTo
<1>3. CASE n <= idx
  BY <1>3 DEF ComparedUpTo
<1>4. CASE n = idx + 1 /\ m = idx
  BY <1>4
<1>5. CASE n = idx + 1 /\ m < idx
  <2>1. Compat(spans[m], spans[idx])
    BY <1>1, <1>5 DEF ComparedUpTo
  <2>2. /\ spans[m].offset \in Nat /\ spans[m].size \in Nat
        /\ spans[idx].offset \in Nat /\ spans[idx].size \in Nat
        /\ spans[n].offset \in Nat /\ spans[n].size \in Nat
    BY <1>1, <1>2
  <2>3. PICK x, y, z : x = spans[m] /\ y = spans[idx] /\ z = spans[n]
    OBVIOUS
  <2>4. Compat(x, y) /\ Compat(y, z)
    BY <1>5, <2>1, <2>3
  <2>5. SameBody(x, y) \/ SameBody(y, z) => Compat(x, z)
    BY <2>4, Zenon DEF Compat, SameBody
  <2>6. CASE x.offset + x.size <= y.offset /\ y.offset + y.size <= z.offset
    <3>1. x.offset + x.size \in Int /\ y.offset \in Nat /\ y.size \in Nat /\ z.offset \in Nat
      BY <2>2, <2>3
    <3>2. y.offset <= y.offset + y.size /\ y.offset + y.size \in Int
      BY <3>1
    <3>3. \A i, j, k \in Int : i <= j /\ j <= k => i <= k
      OBVIOUS
    <3>4. x.offset + x.size <= z.offset
      BY <2>6, <3>1, <3>2, <3>3
    <3>5. Compat(x, z)
      BY <3>4 DEF Compat
    <3> QED BY <2>3, <3>5
  <2>7. Compat(x, z) => Compat(spans[m], spans[n])
    BY <2>3
  <2> QED BY <2>4, <2>5, <2>6, <2>7, Zenon DEF Compat
<1> QED BY <1>1, <1>3, <1>4, <1>5

LEMMA ApartPass2 ==
  ASSUME ApartInv, ComparePair \/ BodiesCompared
  PROVE  ApartInv'
<1>1. /\ pc = "pass2" /\ idx \in Nat \ {0} /\ Len(spans) \in Nat /\ ComparedUpTo(idx)
      /\ UNCHANGED <<file, large_header_layout, spans, marks1, unrecognized>>
      /\ (Ids(marks1) \cup Ids(unrecognized))' = Ids(marks1) \cup Ids(unrecognized)
  BY DEF ApartInv, ComparePair, BodiesCompared, select_vars, pass_vars, mark_vars
<1>2. CASE ComparePair
  <2>1. idx < Len(spans)
    BY <1>2 DEF ComparePair
  <2>2. /\ spans[idx].offset \in Nat /\ spans[idx].size \in Nat
        /\ spans[idx + 1].offset \in Nat
    <3>1. spans[idx] \in SpanRec /\ spans[idx + 1] \in SpanRec
      BY <1>1, <2>1 DEF ApartInv
    <3> QED BY <3>1 DEF SpanRec
  <2>3. \/ pc' = pc /\ idx' = idx + 1 /\ Compat(spans[idx], spans[idx + 1])
        \/ pc' = "FunctionBodyOverlap" /\ idx' = idx
    BY <1>2, <2>2 DEF ComparePair, Duplicate, Compat, Fail
  <2>4. CASE pc' = pc /\ idx' = idx + 1 /\ Compat(spans[idx], spans[idx + 1])
    <3>1. ComparedUpTo(idx')
      BY <1>1, <2>1, <2>4, CompareNext DEF ApartInv
    <3> QED BY <1>1, <2>4, <3>1, ApartKept DEF Checked
  <2>5. CASE pc' = "FunctionBodyOverlap" /\ idx' = idx
    BY <1>1, <2>5, ApartKept DEF Checked
  <2> QED BY <2>3, <2>4, <2>5
<1>3. CASE BodiesCompared
  <2>1. \/ pc' = "FunctionBodyDedupOverflow" /\ idx' = idx
        \/ pc' = "pass3" /\ idx' = 1
    BY <1>3 DEF BodiesCompared, Fail, Enter
  <2>2. Len(spans) <= idx
    BY <1>1, <1>3 DEF BodiesCompared
  <2>3. ComparedUpTo(Len(spans))
    BY <1>1, <2>2 DEF ComparedUpTo, ApartInv
  <2> QED BY <1>1, <2>1, <2>3, ApartKept DEF Checked
<1> QED BY <1>2, <1>3

(* Pass 3 and the merge move marks and leave the spans alone.              *)
LEMMA ApartMerge ==
  ASSUME SortInv, ApartInv,
         ScreenHandlers \/ HandlersScreened \/ MergeHeads \/ MergeRest \/ Returned
           \/ UNCHANGED vars
  PROVE  ApartInv'
<1>1. CASE ScreenHandlers \/ HandlersScreened
  <2>1. /\ UNCHANGED <<file, large_header_layout, spans, marks1, unrecognized>>
        /\ pc \in Checked /\ pc' \in Checked \ {"parsed"} /\ idx' \in Nat \ {0}
        /\ (Ids(marks1) \cup Ids(unrecognized))' = Ids(marks1) \cup Ids(unrecognized)
    BY <1>1 DEF ApartInv, ScreenHandlers, HandlersScreened, Enter, select_vars, pass_vars,
                mark_vars, Checked
  <2> QED BY <2>1, ApartKept DEF ApartInv, Checked
<1>2. CASE MergeHeads
  <2>1. /\ UNCHANGED <<file, large_header_layout, spans, pc, idx>> /\ pc = "merge"
        /\ marks1 # << >> /\ marks3 # << >>
        /\ \/ unrecognized' = Append(unrecognized, Head(marks1)) /\ marks1' = Tail(marks1)
           \/ unrecognized' = Append(unrecognized, Head(marks3)) /\ marks1' = marks1
    BY <1>2 DEF MergeHeads, select_vars
  <2>2. /\ Head(marks1) \in MarkRec /\ Head(marks3) \in MarkRec
        /\ Ids(marks1) = {Head(marks1).fn} \cup Ids(Tail(marks1))
    BY <2>1, TailMarks DEF SortInv
  <2>3. \A x \in MarkRec : Ids(Append(unrecognized, x)) = Ids(unrecognized) \cup {x.fn}
    BY AppendMark DEF SortInv
  <2>4. Ids(marks1) \cup Ids(unrecognized) \subseteq Ids(marks1') \cup Ids(unrecognized')
    BY <2>1, <2>2, <2>3
  <2>5. (Ids(marks1) \cup Ids(unrecognized))' = Ids(marks1') \cup Ids(unrecognized')
    BY DEF Ids
  <2> QED BY <2>1, <2>4, <2>5, ApartKept DEF ApartInv, Checked
<1>3. CASE MergeRest
  <2>1. /\ UNCHANGED <<file, large_header_layout, spans>> /\ pc = "merge"
        /\ pc' = "parsed" /\ idx' = 1 /\ marks1' = << >>
        /\ unrecognized' = unrecognized \o marks1 \o marks3
    BY <1>3 DEF MergeRest, select_vars, Enter
  <2> DEFINE left == unrecognized \o marks1
  <2>2. left \in Seq(MarkRec) /\ Ids(left) = Ids(unrecognized) \cup Ids(marks1)
    BY ConcatMarks DEF SortInv
  <2>3. unrecognized' = left \o marks3
    BY <2>1
  <2> HIDE DEF left
  <2>4. Ids(left \o marks3) = Ids(left) \cup Ids(marks3)
    BY <2>2, ConcatMarks DEF SortInv
  <2>5. Ids(marks1) \cup Ids(unrecognized) \subseteq Ids(unrecognized')
    BY <2>2, <2>3, <2>4
  <2>6. Ids(unrecognized') = Ids(unrecognized)'
    BY DEF Ids
  <2> QED BY <2>1, <2>5, <2>6, ApartKept DEF ApartInv, Checked
<1>4. CASE Returned \/ UNCHANGED vars
  <2>1. UNCHANGED <<file, large_header_layout, spans, marks1, unrecognized, pc, idx>>
    BY <1>4 DEF Returned, vars, select_vars, pass_vars, mark_vars
  <2>2. (Ids(marks1) \cup Ids(unrecognized))' = Ids(marks1) \cup Ids(unrecognized)
    BY <2>1
  <2> QED BY <2>1, <2>2, ApartKept DEF ApartInv, Checked
<1> QED BY <1>1, <1>2, <1>3, <1>4

LEMMA ApartStep == SortInv /\ ApartInv /\ [Next]_vars => ApartInv'
BY ApartSelect, ApartPass1, ApartSort, ApartPass2, ApartMerge DEF Next

(* A recognized function with a body has a span; the spans are compared.   *)
LEMMA ApartBodies == SortInv /\ ApartInv => BodiesApart
<1> SUFFICES ASSUME SortInv, ApartInv, pc = "parsed",
                    NEW f \in Recognized, NEW g \in Recognized,
                    FunctionGet(f).size # 0, FunctionGet(g).size # 0
             PROVE  /\ InRegion(FunctionGet(f))
                    /\ SameBody(FunctionGet(f), FunctionGet(g))
                         \/ Apart(FunctionGet(f), FunctionGet(g))
  BY DEF BodiesApart
<1>1. /\ ComparedUpTo(Len(spans)) /\ marks1 = << >>
      /\ Len(spans) \in Nat /\ DOMAIN spans = 1..Len(spans)
  BY DEF ApartInv, Checked
<1>2. \A h \in Recognized : FunctionGet(h).size # 0 => Held(h)
  <2>1. \A h \in Recognized : h \in Fns /\ h \notin Ids(unrecognized)
    BY DEF Recognized, Ids
  <2> QED BY <1>1, <2>1, EmptyMarks DEF ApartInv, Seen, Checked
<1>3. PICK m \in DOMAIN spans : SameBody(spans[m], FunctionGet(f))
  BY <1>2 DEF Held
<1>4. PICK n \in DOMAIN spans : SameBody(spans[n], FunctionGet(g))
  BY <1>2 DEF Held
<1>5. InRegion(FunctionGet(f))
  <2>1. InRegion(spans[m])
    BY DEF ApartInv
  <2> QED BY <1>3, <2>1 DEF InRegion, SameBody
<1>6. m = n \/ Compat(spans[m], spans[n]) \/ Compat(spans[n], spans[m])
  BY <1>1 DEF ComparedUpTo
<1> QED BY <1>3, <1>4, <1>5, <1>6 DEF Compat, SameBody, Apart

(* Comparing neighbours in offset order is enough, for every bundle: any   *)
(* two bodies parse leaves recognized are the same or share no byte.       *)
THEOREM BodiesDisjoint == Spec => []BodiesApart
<1> QED BY SortInit, SortStep, ApartInit, ApartStep, ApartBodies, PTL DEF Spec

-----------------------------------------------------------------------------
(* The bundle.                                                             *)

LEMMA BundleFacts ==
  ASSUME file \in Bundles
  PROVE  /\ file.mem \in Seq(Nat) /\ Len(file.mem) \in Nat
         /\ file.synth \subseteq Nat /\ file.budget \in Nat
         /\ {MaxHandlers, MaxPos, U32Max} \subseteq Nat /\ FnCount \in Nat
         /\ \A f \in Fns : file.fns[f].lo \in LargeOff /\ file.fns[f].tab \in Nat
         /\ \A lo \in LargeOff :
              /\ file.large[lo].size \in 0..U32Max /\ file.large[lo].tab \in Nat
              /\ TableAt(lo, 36) \in Nat /\ TableAt(lo, 40) \in Nat
<1>1. file \in Bundle /\ {MaxHandlers, MaxPos, U32Max} \subseteq Nat
  BY FunctionTableAssumption
<1>2. /\ file.mem \in Seq(Nat) /\ file.synth \subseteq Nat /\ file.budget \in Nat
      /\ file.fns \in Seq(Entry) /\ file.large \in [LargeOff -> LargeHeader]
  BY <1>1 DEF Bundle
<1>3. FnCount \in Nat /\ \A f \in Fns : file.fns[f] \in Entry
  BY <1>2 DEF FnCount, Fns
<1>4. \A f \in Fns : file.fns[f].lo \in LargeOff /\ file.fns[f].tab \in Nat
  BY <1>3 DEF Entry
<1>5. ASSUME NEW lo \in LargeOff
      PROVE  /\ file.large[lo].size \in 0..U32Max /\ file.large[lo].tab \in Nat
             /\ TableAt(lo, 36) \in Nat /\ TableAt(lo, 40) \in Nat
  <2>1. file.large[lo] \in LargeHeader
    BY <1>2
  <2>2. file.large[lo].size \in 0..U32Max /\ file.large[lo].tab \in Nat
    BY <2>1 DEF LargeHeader
  <2>3. (36 - 36) \div 4 = 0 /\ (40 - 36) \div 4 = 1
    OBVIOUS
  <2> QED BY <2>2, <2>3 DEF TableAt
<1>6. Len(file.mem) \in Nat
  BY <1>2
<1> QED BY <1>1, <1>2, <1>3, <1>4, <1>5, <1>6

LEMMA WordTyped ==
  ASSUME file \in Bundles, NEW p \in Nat, InFile(p)
  PROVE  Word(p) \in Nat
<1>1. file.mem \in Seq(Nat) /\ Len(file.mem) \in Nat
  BY BundleFacts
<1>2. PICK q : q = p + 1
  OBVIOUS
<1>3. q \in 1..Len(file.mem)
  BY <1>1, <1>2 DEF InFile
<1>4. file.mem[q] \in Nat
  BY <1>1, <1>3
<1> QED BY <1>2, <1>4 DEF Word

(* A table that lies in the file: its handlers are words of the file. *)
LEMMA HandlersTyped ==
  ASSUME file \in Bundles, NEW p \in Nat, InFile(p), SpanInFile(p), NEW h \in 0..(Word(p) - 1)
  PROVE  /\ Handler(p, h).start \in Nat /\ Handler(p, h).end \in Nat
         /\ Handler(p, h).target \in Nat
<1>1. PICK c \in Nat : c = Word(p)
  BY WordTyped
<1>2. PICK l \in Nat : l = Len(file.mem)
  BY BundleFacts
<1>3. p + 1 + 3 * c <= l /\ h \in 0..(c - 1)
  BY <1>1, <1>2 DEF SpanInFile
<1>4. /\ p + 1 + 3 * h \in Nat /\ p + 1 + 3 * h < l
      /\ p + 2 + 3 * h \in Nat /\ p + 2 + 3 * h < l
      /\ p + 3 + 3 * h \in Nat /\ p + 3 + 3 * h < l
  BY <1>3
<1>5. /\ Word(p + 1 + 3 * h) \in Nat /\ Word(p + 2 + 3 * h) \in Nat
      /\ Word(p + 3 + 3 * h) \in Nat
  BY <1>2, <1>4, WordTyped DEF InFile
<1> QED BY <1>5 DEF Handler

LEMMA LeastOf ==
  ASSUME NEW S, S \subseteq Nat, S # {}
  PROVE  Min(S) \in S /\ \A y \in S : Min(S) <= y
<1>1. \E x \in S : \A y \in S : x <= y
  BY LeastNatural
<1> QED BY <1>1 DEF Min

LEMMA GreatestOf ==
  ASSUME NEW S, S \subseteq Nat, S # {}, IsFiniteSet(S)
  PROVE  Max(S) \in S /\ \A y \in S : Max(S) >= y
<1>1. PICK n \in Nat : ExistsBijection(1..n, S)
  BY FS_NatBijection
<1>2. PICK f \in [1..n -> S] : \A y \in S : \E i \in 1..n : f[i] = y
  BY <1>1 DEF ExistsBijection, Bijection, Surjection
<1> DEFINE K == {m \in Int : \E x \in S : \A i \in 1..m : i \in 1..n => f[i] <= x}
<1>3. 0 \in K
  <2>1. \E x \in S : \A i \in 1..0 : i \in 1..n => f[i] <= x
    <3>1. 1..0 = {}
      OBVIOUS
    <3> QED BY <3>1
  <2>2. 0 \in Int
    OBVIOUS
  <2> QED BY <2>1, <2>2
<1>4. ASSUME NEW m \in 0..(n - 1), m \in K PROVE m + 1 \in K
  <2>1. PICK x \in S : \A i \in 1..m : i \in 1..n => f[i] <= x
    BY <1>4
  <2>2. PICK q : q = m + 1
    OBVIOUS
  <2>8. q \in 1..n
    BY <1>4, <2>2
  <2>9. f[q] \in S
    BY <2>8
  <2>3. q \in 1..n /\ f[q] \in S /\ f[q] \in Nat /\ x \in Nat
    BY <2>8, <2>9
  <2>4. \A i \in 1..q : i = q \/ i \in 1..m
    BY <2>2, <1>4
  <2>5. \E z \in S : x <= z /\ f[q] <= z
    BY <2>3
  <2>6. PICK z \in S : x <= z /\ f[q] <= z
    BY <2>5
  <2>7. \A i \in 1..q : i \in 1..n => f[i] <= z
    <3>1. \A i \in 1..n : f[i] \in Nat
      BY <1>2
    <3> SUFFICES ASSUME NEW i \in 1..q, i \in 1..n PROVE f[i] <= z
      OBVIOUS
    <3>4. CASE i = q
      BY <2>6, <3>4
    <3>5. CASE i \in 1..m
      <4>1. f[i] <= x /\ f[i] \in Nat
        BY <2>1, <3>1, <3>5
      <4>2. x \in Nat /\ z \in Nat /\ x <= z
        BY <1>2, <2>3, <2>6
      <4> QED BY <4>1, <4>2
    <3> QED BY <2>4, <3>4, <3>5
  <2> QED BY <2>2, <2>3, <2>7
<1>5. n \in K
  <2>1. 0 \in Int /\ n \in Int /\ n \in 0..n
    OBVIOUS
  <2> HIDE DEF K
  <2>2. 0..n \subseteq K
    BY <1>3, <1>4, <2>1, IntervalInduction
  <2> QED BY <2>1, <2>2
<1>6. \E x \in S : \A y \in S : x >= y
  <2>1. PICK x \in S : \A i \in 1..n : f[i] <= x
    BY <1>5
  <2>2. \A y \in S : y <= x
    BY <1>2, <2>1
  <2> QED BY <2>2
<1> QED BY <1>6 DEF Max

LEMMA IntervalImage ==
  ASSUME NEW n \in Nat, NEW E, DOMAIN E = 0..(n - 1)
  PROVE  IsFiniteSet({E[h] : h \in 0..(n - 1)})
<1> DEFINE S == 0..(n - 1)
           T == {E[h] : h \in S}
<1>1. IsFiniteSet(S)
  <2>1. 0 \in Int /\ n - 1 \in Int
    OBVIOUS
  <2> QED BY <2>1, FS_Interval
<1>2. [h \in S |-> E[h]] \in Surjection(S, T)
  BY DEF Surjection
<1> HIDE DEF S, T
<1>3. IsFiniteSet(T)
  BY <1>1, <1>2, FS_Surjection DEF ExistsSurjection
<1> QED BY <1>3 DEF S, T

-----------------------------------------------------------------------------
(* The memo of tables.  A summary is the answer of large_header_shape_-    *)
(* violation to every parent of the table, whatever its size.              *)

Answers(e, p) ==
  /\ e.kind # "exhausted"
  /\ \A size \in 0..U32Max : (e.kind = "valid" /\ e.need <= size) <=> TableFits(p, size)

LEMMA WalkAnswers ==
  ASSUME file \in Bundles, NEW p \in Nat, NEW b \in Nat,
         WalkTable(p, b).kind # "exhausted"
  PROVE  /\ Answers(WalkTable(p, b), p)
         /\ WalkTable(p, b).cost \in Nat /\ WalkTable(p, b).cost <= b
<1> DEFINE w == WalkTable(p, b)
           refused == \/ p > MaxPos \/ ~InFile(p)
                      \/ Word(p) > MaxHandlers \/ ~SpanInFile(p)
<1>1. CASE refused
  <2>1. w = NoTable
    BY <1>1 DEF WalkTable
  <2>2. \A size : ~TableFits(p, size)
    <3>1. MaxPos \in Nat /\ MaxHandlers \in Nat /\ (InFile(p) => Word(p) \in Nat)
      BY BundleFacts, WordTyped
    <3> QED BY <1>1, <3>1 DEF TableFits
  <2> QED BY <2>1, <2>2 DEF NoTable, Answers
<1>2. CASE ~refused
  <2> DEFINE handlers == 0..(Word(p) - 1)
             bad == {h \in handlers : \/ Handler(p, h).start >= Handler(p, h).end
                                      \/ Handler(p, h).target = U32Max}
             cost == IF bad = {} THEN Word(p) ELSE Min(bad) + 1
             ends == {Handler(p, h).end : h \in handlers}
             targets == {Handler(p, h).target + 1 : h \in handlers}
             all == {0} \cup ends \cup targets
  <2>1. w = IF Spent(b, cost) THEN [kind |-> "exhausted", need |-> 0, cost |-> b]
            ELSE IF bad # {} THEN [kind |-> "invalid", need |-> 0, cost |-> cost]
            ELSE [kind |-> "valid", cost |-> cost, need |-> Max(all)]
    BY <1>2 DEF WalkTable
  <2>2. \A h \in handlers : /\ Handler(p, h).start \in Nat /\ Handler(p, h).end \in Nat
                            /\ Handler(p, h).target \in Nat
    BY <1>2, HandlersTyped
  <2>3. Word(p) \in Nat
    BY <1>2, WordTyped
  <2>4. cost \in Nat
    <3>1. CASE bad = {}
      BY <2>3, <3>1
    <3>2. CASE bad # {}
      <4>1. bad \subseteq Nat
        BY <2>3
      <4> HIDE DEF bad
      <4>2. Min(bad) \in Nat
        BY <3>2, <4>1, LeastOf
      <4> QED BY <3>2, <4>2
    <3> QED BY <3>1, <3>2
  <2>5. \A size : TableFits(p, size) <=> \A h \in handlers : InRange(Handler(p, h), size)
    <3>1. p <= MaxPos /\ InFile(p) /\ Word(p) <= MaxHandlers /\ SpanInFile(p)
      <4>1. MaxPos \in Nat /\ MaxHandlers \in Nat
        BY BundleFacts
      <4> QED BY <1>2, <2>3, <4>1
    <3> QED BY <3>1 DEF TableFits
  <2> HIDE DEF w, cost, refused
  <2>6. ~Spent(b, cost)
    <3>1. w.kind # "exhausted"
      BY DEF w
    <3> QED BY <2>1, <3>1
  <2>7. cost <= b
    BY <2>4, <2>6 DEF Spent
  <2>8. CASE bad # {}
    <3>1. w.kind = "invalid" /\ w.cost = cost
      BY <2>1, <2>6, <2>8
    <3>2. PICK h \in handlers : \/ Handler(p, h).start >= Handler(p, h).end
                                \/ Handler(p, h).target = U32Max
      BY <2>8
    <3>3. ASSUME NEW size \in 0..U32Max PROVE ~InRange(Handler(p, h), size)
      <4>1. U32Max \in Nat
        BY BundleFacts
      <4> QED BY <2>2, <3>2, <4>1 DEF InRange
    <3>4. \A size \in 0..U32Max : ~TableFits(p, size)
      BY <2>5, <3>3
    <3> QED BY <2>4, <2>7, <3>1, <3>4 DEF Answers, w
  <2>9. CASE bad = {}
    <3>1. w.kind = "valid" /\ w.cost = cost /\ w.need = Max(all)
      BY <2>1, <2>6, <2>9
    <3>2. IsFiniteSet(all)
      <4>1. IsFiniteSet(ends)
        <5> DEFINE E == [h \in handlers |-> Handler(p, h).end]
        <5>1. ends = {E[h] : h \in handlers} /\ DOMAIN E = handlers
          OBVIOUS
        <5> HIDE DEF E, ends
        <5> QED BY <2>3, <5>1, IntervalImage
      <4>2. IsFiniteSet(targets)
        <5> DEFINE E == [h \in handlers |-> Handler(p, h).target + 1]
        <5>1. targets = {E[h] : h \in handlers} /\ DOMAIN E = handlers
          OBVIOUS
        <5> HIDE DEF E, targets
        <5> QED BY <2>3, <5>1, IntervalImage
      <4>3. IsFiniteSet({0})
        BY FS_Singleton
      <4> HIDE DEF ends, targets
      <4> QED BY <4>1, <4>2, <4>3, FS_Union
    <3>3. all \subseteq Nat /\ all # {}
      BY <2>2
    <3> HIDE DEF all
    <3>4. Max(all) \in all /\ \A y \in all : Max(all) >= y
      BY <3>2, <3>3, GreatestOf
    <3>5. PICK need : need = Max(all)
      OBVIOUS
    <3>6. need \in all /\ need \in Nat /\ \A y \in all : need >= y
      BY <3>3, <3>4, <3>5
    <3>7. ASSUME NEW size \in 0..U32Max
          PROVE  need <= size <=> \A h \in handlers : InRange(Handler(p, h), size)
      <4>1. U32Max \in Nat /\ size \in Nat
        BY BundleFacts
      <4>2. ASSUME need <= size, NEW h \in handlers PROVE InRange(Handler(p, h), size)
        <5>1. Handler(p, h).end \in all /\ Handler(p, h).target + 1 \in all
          BY DEF all
        <5>2. need >= Handler(p, h).end /\ need >= Handler(p, h).target + 1
          BY <3>6, <5>1
        <5>3. Handler(p, h).start < Handler(p, h).end
          BY <2>2, <2>9
        <5> QED BY <2>2, <3>6, <4>1, <4>2, <5>2, <5>3 DEF InRange
      <4>3. ASSUME \A h \in handlers : InRange(Handler(p, h), size) PROVE need <= size
        <5>1. CASE need = 0
          BY <4>1, <5>1
        <5>2. CASE need \in ends
          <6>1. PICK h \in handlers : need = Handler(p, h).end
            BY <5>2
          <6> QED BY <4>3, <6>1 DEF InRange
        <5>3. CASE need \in targets
          <6>1. PICK h \in handlers : need = Handler(p, h).target + 1
            BY <5>3
          <6>2. Handler(p, h).target < size /\ Handler(p, h).target \in Nat
            BY <2>2, <4>3 DEF InRange
          <6> QED BY <4>1, <6>1, <6>2
        <5> QED BY <3>6, <5>1, <5>2, <5>3 DEF all
      <4> QED BY <4>2, <4>3
    <3>8. \A size \in 0..U32Max : w.need <= size <=> TableFits(p, size)
      BY <2>5, <3>1, <3>5, <3>7
    <3> QED BY <2>4, <2>7, <3>1, <3>8 DEF Answers, w
  <2> QED BY <2>8, <2>9
<1> QED BY <1>1, <1>2

-----------------------------------------------------------------------------
(* The selection.  A score depends on the large header only, so it may be  *)
(* shared by all the entries that have it; the tally is zero exactly when  *)
(* every entry met so far fits.                                            *)

FitsAt(lo, shape) ==
  /\ ~file.large[lo].flags[shape].invalid
  /\ file.large[lo].flags[shape].exc => TableFits(TableAt(lo, shape), file.large[lo].size)

AlikeAt(lo) ==
  /\ file.large[lo].flags[36] = file.large[lo].flags[40]
  /\ file.large[lo].flags[36].exc => SameTables(lo)

Agree(lo) == FitsAt(lo, 36) /\ FitsAt(lo, 40) => AlikeAt(lo)

ScoreOf(r, lo) ==
  /\ r.fits36 <=> FitsAt(lo, 36)
  /\ r.fits40 <=> FitsAt(lo, 40)
  /\ r.equal <=> Agree(lo)

Scratch(o, t, b) == [perOff |-> o, perTable |-> t, budget |-> b]

Remembered(o, t, b) ==
  /\ b \in Nat
  /\ \A p \in DOMAIN t : Answers(t[p], p)
  /\ \A lo \in DOMAIN o : ScoreOf(o[lo], lo)

MemoInv == \E o, t, b : scratch = Scratch(o, t, b) /\ Remembered(o, t, b)

ScoringInv ==
  pc = "select" =>
    \/ scoring = << >>
    \/ /\ idx \in Fns /\ Scored(idx) /\ ~Known(file.fns[idx].lo)
       /\ \E x : /\ x <=> FitsAt(file.fns[idx].lo, 36)
                 /\ \/ scoring = <<x>>
                    \/ \E y : scoring = <<x, y>> /\ (y <=> FitsAt(file.fns[idx].lo, 40))

Met == {f \in Fns : f < idx /\ Scored(f)}

Counted(a, b, d) ==
  /\ a \in Nat /\ b \in Nat /\ d \in Nat
  /\ pc = "select" =>
       /\ a = 0 <=> \A f \in Met : FitsAt(file.fns[f].lo, 36)
       /\ b = 0 <=> \A f \in Met : FitsAt(file.fns[f].lo, 40)
       /\ d = 0 <=> \A f \in Met : Agree(file.fns[f].lo)

Tally(s, a, b, d, x) ==
  [scored |-> s, v36 |-> a, v40 |-> b, disagreements |-> d, exhausted |-> x]

TallyInv == \E s, a, b, d, x : tally = Tally(s, a, b, d, x) /\ Counted(a, b, d)

LayoutInv ==
  /\ file \in Bundles /\ idx \in Nat \ {0}
  /\ MemoInv /\ ScoringInv /\ TallyInv
  /\ large_header_layout \in Shapes \cup {NoLayout}
  /\ LayoutHonest

(* What the scores say of a header, they say of each function that has it. *)
LEMMA ByHeader ==
  /\ \A f, shape : Fits(f, shape) <=> FitsAt(file.fns[f].lo, shape)
  /\ \A f : DecodesAlike(f) <=> AlikeAt(file.fns[f].lo)
BY DEF Fits, FitsAt, DecodesAlike, AlikeAt, Large

(* One shape of one header, from the memo or walked now.                   *)
LEMMA VerdictRight ==
  ASSUME file \in Bundles, NEW o, NEW t, NEW b, scratch = Scratch(o, t, b), Remembered(o, t, b),
         NEW lo \in LargeOff, NEW shape \in Shapes,
         LET flags == file.large[lo].flags[shape]
         IN ~(~flags.invalid /\ flags.exc /\ TableSummary(TableAt(lo, shape)).kind = "exhausted")
  PROVE  LET flags == file.large[lo].flags[shape]
             p == TableAt(lo, shape)
             table == TableSummary(p)
             walked == ~flags.invalid /\ flags.exc
             fits == /\ ~flags.invalid
                     /\ flags.exc => table.kind = "valid" /\ table.need <= file.large[lo].size
         IN /\ fits <=> FitsAt(lo, shape)
            /\ walked => Answers(table, p)
            /\ walked /\ p \notin DOMAIN t => b - table.cost \in Nat
<1> DEFINE flags == file.large[lo].flags[shape]
           p == TableAt(lo, shape)
           table == TableSummary(p)
           walked == ~flags.invalid /\ flags.exc
<1>1. p \in Nat /\ file.large[lo].size \in 0..U32Max
  BY BundleFacts DEF Shapes
<1>2. b \in Nat /\ \A q \in DOMAIN t : Answers(t[q], q)
  BY DEF Remembered
<1>3. /\ p \in DOMAIN t => table = t[p]
      /\ p \notin DOMAIN t => table = WalkTable(p, b)
  BY DEF TableSummary, Scratch
<1>4. walked => table.kind # "exhausted"
  OBVIOUS
<1>5. FitsAt(lo, shape) <=> ~flags.invalid /\ (flags.exc => TableFits(p, file.large[lo].size))
  BY DEF FitsAt
<1> HIDE DEF flags, p, table
<1>6. ASSUME walked
      PROVE  Answers(table, p) /\ (p \notin DOMAIN t => b - table.cost \in Nat)
  <2>1. CASE p \in DOMAIN t
    BY <1>2, <1>3, <2>1
  <2>2. CASE p \notin DOMAIN t
    <3>1. table = WalkTable(p, b) /\ WalkTable(p, b).kind # "exhausted"
      BY <1>3, <1>4, <1>6, <2>2
    <3>2. Answers(table, p) /\ table.cost \in Nat /\ table.cost <= b
      BY <1>1, <1>2, <3>1, WalkAnswers
    <3> QED BY <1>2, <3>2
  <2> QED BY <2>1, <2>2
<1>7. walked => ((table.kind = "valid" /\ table.need <= file.large[lo].size)
                   <=> TableFits(p, file.large[lo].size))
  BY <1>1, <1>6 DEF Answers
<1>8. (~flags.invalid /\ (flags.exc => table.kind = "valid" /\ table.need <= file.large[lo].size))
        <=> FitsAt(lo, shape)
  BY <1>5, <1>7
<1> QED BY <1>6, <1>8 DEF flags, p, table

(* What depends on the file only.                                          *)
LEMMA HeadersKept ==
  ASSUME UNCHANGED file
  PROVE  /\ \A o, t, b : Remembered(o, t, b)' <=> Remembered(o, t, b)
         /\ \A lo, shape : FitsAt(lo, shape)' <=> FitsAt(lo, shape)
         /\ \A lo : Agree(lo)' <=> Agree(lo)
         /\ \A f : Scored(f)' <=> Scored(f)
         /\ Fns' = Fns
<1>1. \A p, size : TableFits(p, size)' <=> TableFits(p, size)
  BY DEF TableFits, InFile, SpanInFile, Word, Handler, InRange
<1>2. \A e, p : Answers(e, p)' <=> Answers(e, p)
  BY <1>1 DEF Answers
<1>3. \A lo, shape : FitsAt(lo, shape)' <=> FitsAt(lo, shape)
  BY <1>1 DEF FitsAt, TableAt
<1>4. \A lo : Agree(lo)' <=> Agree(lo)
  BY <1>3 DEF Agree, AlikeAt, SameTables, TableAt, Word, Handler
<1>5. \A r, lo : ScoreOf(r, lo)' <=> ScoreOf(r, lo)
  BY <1>3, <1>4 DEF ScoreOf
<1>6. \A o, t, b : Remembered(o, t, b)' <=> Remembered(o, t, b)
  BY <1>2, <1>5 DEF Remembered
<1>7. (\A f : Scored(f)' <=> Scored(f)) /\ Fns' = Fns
  BY DEF Scored, Large, Fns, FnCount
<1> QED BY <1>3, <1>4, <1>6, <1>7

(* What the selection leaves alone.                                        *)
LEMMA MemoKept ==
  ASSUME MemoInv, UNCHANGED <<file, scratch>>
  PROVE  MemoInv'
<1>1. PICK o, t, b : scratch = Scratch(o, t, b) /\ Remembered(o, t, b)
  BY DEF MemoInv
<1>2. scratch' = Scratch(o, t, b) /\ Remembered(o, t, b)'
  BY <1>1, HeadersKept
<1> QED BY <1>2 DEF MemoInv, Scratch

LEMMA ScoringKept ==
  ASSUME ScoringInv, pc = "select", UNCHANGED <<file, idx, scratch, scoring>>
  PROVE  ScoringInv'
<1>1. PICK i : i = idx
  OBVIOUS
<1>2. PICK lo : lo = file.fns[i].lo
  OBVIOUS
<1>3. Known(lo)' <=> Known(lo)
  BY DEF Known
<1>4. /\ file.fns[idx].lo = lo /\ (file.fns[idx].lo)' = lo
      /\ idx \in Fns => idx' \in Fns'
      /\ Scored(idx) => Scored(idx)'
  <2>1. Scored(i)' <=> Scored(i)
    BY HeadersKept
  <2> QED BY <1>1, <1>2, <2>1, HeadersKept DEF Scored, Large
<1>5. FitsAt(file.fns[idx].lo, 36)' <=> FitsAt(lo, 36)
  BY <1>4, HeadersKept DEF FitsAt
<1>6. FitsAt(file.fns[idx].lo, 40)' <=> FitsAt(lo, 40)
  BY <1>4, HeadersKept DEF FitsAt
<1>7. Known(file.fns[idx].lo)' <=> Known(lo)
  BY <1>4 DEF Known
<1> QED BY <1>4, <1>5, <1>6, <1>7 DEF ScoringInv

LEMMA TallyKept ==
  ASSUME TallyInv, UNCHANGED file, tally' = tally \/ Exhaust,
         pc' # "select" \/ UNCHANGED <<pc, idx>>
  PROVE  TallyInv'
<1>1. PICK s, a, b, d, x : tally = Tally(s, a, b, d, x) /\ Counted(a, b, d)
  BY DEF TallyInv
<1>2. \E u, v : tally' = Tally(u, a, b, d, v)
  <2>1. tally' = Tally(s, a, b, d, x) \/ tally' = Tally(s + 1, a, b, d, TRUE)
    BY <1>1 DEF Exhaust, Tally
  <2> QED BY <2>1
<1>3. Counted(a, b, d)'
  <2>1. CASE pc' # "select"
    BY <1>1, <2>1 DEF Counted
  <2>2. CASE UNCHANGED <<pc, idx>>
    <3>1. Met' = Met
      BY <2>2, HeadersKept DEF Met
    <3>2. \A f : (FitsAt(file.fns[f].lo, 36))' <=> FitsAt(file.fns[f].lo, 36)
      BY HeadersKept DEF FitsAt
    <3>3. \A f : (FitsAt(file.fns[f].lo, 40))' <=> FitsAt(file.fns[f].lo, 40)
      BY HeadersKept DEF FitsAt
    <3>4. \A f : (Agree(file.fns[f].lo))' <=> Agree(file.fns[f].lo)
      BY HeadersKept DEF Agree, FitsAt, AlikeAt
    <3> QED BY <1>1, <2>2, <3>1, <3>2, <3>3, <3>4, ZenonT(30) DEF Counted
  <2> QED BY <2>1, <2>2
<1> QED BY <1>2, <1>3 DEF TallyInv, Tally

LEMMA AppendOne ==
  ASSUME NEW x, NEW y
  PROVE  Append(<<x>>, y) = <<x, y>>
<1> DEFINE s == Append(<<x>>, y)
           t == <<x, y>>
<1>1. <<x>> \in Seq({x, y}) /\ y \in {x, y} /\ Len(<<x>>) = 1 /\ <<x>>[1] = x
  OBVIOUS
<1>2. s \in Seq({x, y}) /\ Len(s) = 2 /\ s[1] = x /\ s[2] = y
  BY <1>1
<1>3. t \in Seq({x, y}) /\ Len(t) = 2 /\ t[1] = x /\ t[2] = y
  OBVIOUS
<1> HIDE DEF s, t
<1>4. s = [n \in 1..2 |-> s[n]] /\ t = [n \in 1..2 |-> t[n]]
  BY <1>2, <1>3
<1>5. \A n \in 1..2 : s[n] = t[n]
  BY <1>2, <1>3
<1>6. s = t
  BY <1>4, <1>5
<1> QED BY <1>6 DEF s, t

LEMMA ScoreShapeStep ==
  ASSUME LayoutInv, ScoreShape
  PROVE  MemoInv' /\ ScoringInv' /\ TallyInv'
<1> USE DEF LayoutInv
<1>1. PICK i, lo : i = idx /\ lo = file.fns[i].lo
  OBVIOUS
<1>2. PICK o, t, b : scratch = Scratch(o, t, b) /\ Remembered(o, t, b)
  BY DEF MemoInv
<1>3. PICK shape : shape = IF scoring = << >> THEN 36 ELSE 40
  OBVIOUS
<1>4. /\ pc = "select" /\ pc' = pc /\ idx' = i /\ file' = file
      /\ i \in Fns /\ Scored(i) /\ ~Known(lo) /\ Len(scoring) < 2
  BY <1>1 DEF ScoreShape, Selecting
<1>5. lo \in LargeOff /\ shape \in Shapes
  BY <1>1, <1>3, <1>4, BundleFacts DEF Shapes
<1> DEFINE header == file.large[lo]
           flags == header.flags[shape]
           p == TableAt(lo, shape)
           table == TableSummary(p)
           walked == ~flags.invalid /\ flags.exc
           fits == ~flags.invalid /\ (flags.exc => table.kind = "valid" /\ table.need <= header.size)
<1>6. /\ walked /\ table.kind = "exhausted" => Exhaust
      /\ ~(walked /\ table.kind = "exhausted") =>
           /\ scoring' = Append(scoring, fits)
           /\ scratch' = IF walked /\ p \notin DOMAIN scratch.perTable
                THEN [scratch EXCEPT !.budget = @ - table.cost,
                                     !.perTable = Memo(@, p, KeepSummary(table, header.size))]
                ELSE scratch
           /\ tally' = tally
  <2>1. Large(idx) = header
    BY <1>1 DEF Large
  <2> QED BY <1>1, <1>3, <2>1, Zenon DEF ScoreShape
<1>7. CASE walked /\ table.kind = "exhausted"
  <2>1. Exhaust /\ UNCHANGED <<scratch, scoring>>
    BY <1>6, <1>7 DEF Exhaust
  <2> HIDE DEF header, flags, p, table, walked, fits
  <2> QED BY <1>1, <1>4, <2>1, MemoKept, ScoringKept, TallyKept
<1>8. CASE ~(walked /\ table.kind = "exhausted")
  <2>1. /\ fits <=> FitsAt(lo, shape)
        /\ walked => Answers(table, p)
        /\ walked /\ p \notin DOMAIN t => b - table.cost \in Nat
    BY <1>2, <1>5, <1>8, VerdictRight
  <2>2. PICK y : y = fits
    OBVIOUS
  <2>3. y <=> FitsAt(lo, shape)
    BY <2>1, <2>2
  <2>4. PICK q, v : q = p /\ v = table
    OBVIOUS
  <2>5. scoring' = Append(scoring, y) /\ tally' = tally
    BY <1>6, <1>8, <2>2
  <2>6. \/ scratch' = scratch
        \/ /\ walked /\ q \notin DOMAIN t
           /\ scratch' = [scratch EXCEPT !.budget = @ - v.cost, !.perTable = Memo(@, q, v)]
    BY <1>2, <1>6, <1>8, <2>4 DEF Scratch, KeepSummary
  <2>7. walked => Answers(v, q) /\ (q \notin DOMAIN t => b - v.cost \in Nat)
    BY <2>1, <2>4
  <2> HIDE DEF header, flags, p, table, walked, fits
  <2>8. MemoInv' /\ (\A l : Known(l)' <=> Known(l))
    <3>1. CASE scratch' = scratch
      BY <1>4, <3>1, MemoKept DEF Known
    <3>2. CASE /\ walked /\ q \notin DOMAIN t
               /\ scratch' = [scratch EXCEPT !.budget = @ - v.cost, !.perTable = Memo(@, q, v)]
      <4>1. scratch' = Scratch(o, Memo(t, q, v), b - v.cost)
        BY <1>2, <3>2 DEF Scratch
      <4>2. Remembered(o, Memo(t, q, v), b - v.cost)
        <5>1. \A x \in DOMAIN Memo(t, q, v) : Answers(Memo(t, q, v)[x], x)
          BY <1>2, <2>7, <3>2 DEF Memo, Remembered
        <5> QED BY <1>2, <2>7, <3>2, <5>1 DEF Remembered
      <4>3. PICK t1, b1 : t1 = Memo(t, q, v) /\ b1 = b - v.cost
        OBVIOUS
      <4>4. scratch' = Scratch(o, t1, b1) /\ Remembered(o, t1, b1)'
        BY <1>4, <4>1, <4>2, <4>3, HeadersKept
      <4>5. scratch.perOff = o /\ scratch'.perOff = o
        BY <1>2, <4>1 DEF Scratch
      <4> QED BY <4>4, <4>5 DEF MemoInv, Scratch, Known
    <3> QED BY <2>6, <3>1, <3>2
  <2>9. ScoringInv'
    <3>1. /\ file.fns[idx].lo = lo /\ (file.fns[idx].lo)' = lo
          /\ idx' \in Fns' /\ Scored(idx)'
      <4>1. Scored(i)' /\ Fns' = Fns
        BY <1>4, HeadersKept
      <4> QED BY <1>1, <1>4, <4>1 DEF Scored, Large
    <3>2. FitsAt(file.fns[idx].lo, 36)' <=> FitsAt(lo, 36)
      BY <1>4, <3>1, HeadersKept DEF FitsAt
    <3>3. FitsAt(file.fns[idx].lo, 40)' <=> FitsAt(lo, 40)
      BY <1>4, <3>1, HeadersKept DEF FitsAt
    <3>4. ~Known(file.fns[idx].lo)'
      <4>1. ~Known(lo)'
        BY <1>4, <2>8
      <4> QED BY <3>1, <4>1 DEF Known
    <3>5. CASE scoring = << >>
      <4>1. scoring' = <<y>> /\ (y <=> FitsAt(lo, 36))
        BY <1>3, <2>3, <2>5, <3>5
      <4> QED BY <3>1, <3>2, <3>4, <4>1 DEF ScoringInv
    <3>6. CASE scoring # << >>
      <4>1. PICK x : scoring = <<x>> /\ (x <=> FitsAt(lo, 36))
        <5>1. PICK x : /\ x <=> FitsAt(lo, 36)
                       /\ scoring = <<x>> \/ \E z : scoring = <<x, z>>
          BY <1>4, <3>1, <3>6 DEF ScoringInv
        <5>2. \A z : Len(<<x, z>>) = 2
          OBVIOUS
        <5> QED BY <1>4, <5>1, <5>2
      <4>2. scoring' = <<x, y>> /\ (y <=> FitsAt(lo, 40))
        <5>1. shape = 40 /\ (y <=> FitsAt(lo, 40))
          BY <1>3, <2>3, <3>6
        <5>2. Append(<<x>>, y) = <<x, y>>
          BY AppendOne
        <5> QED BY <2>5, <4>1, <5>1, <5>2
      <4> QED BY <3>1, <3>2, <3>3, <3>4, <4>1, <4>2 DEF ScoringInv
    <3> QED BY <3>5, <3>6
  <2>10. TallyInv'
    BY <1>1, <1>4, <2>5, TallyKept
  <2> QED BY <2>8, <2>9, <2>10
<1> QED BY <1>7, <1>8

LEMMA CompareDecodesStep ==
  ASSUME LayoutInv, CompareDecodes
  PROVE  MemoInv' /\ ScoringInv' /\ TallyInv'
<1> USE DEF LayoutInv
<1>1. PICK i, lo : i = idx /\ lo = file.fns[i].lo
  OBVIOUS
<1>2. PICK o, t, b : scratch = Scratch(o, t, b) /\ Remembered(o, t, b)
  BY DEF MemoInv
<1>3. /\ pc = "select" /\ pc' = pc /\ idx' = idx /\ file' = file
      /\ i \in Fns /\ Len(scoring) = 2
  BY <1>1 DEF CompareDecodes, Selecting
<1>4. PICK x, y : /\ scoring = <<x, y>>
                  /\ x <=> FitsAt(lo, 36)
                  /\ y <=> FitsAt(lo, 40)
  <2>1. \A x : Len(<<x>>) = 1
    OBVIOUS
  <2>2. scoring # << >>
    BY <1>3
  <2>3. PICK x : /\ x <=> FitsAt(lo, 36)
                 /\ \/ scoring = <<x>>
                    \/ \E y : scoring = <<x, y>> /\ (y <=> FitsAt(lo, 40))
    BY <1>1, <1>3, <2>2 DEF ScoringInv
  <2>4. scoring # <<x>>
    BY <1>3, <2>1
  <2> QED BY <2>3, <2>4
<1>5. lo \in LargeOff
  BY <1>1, <1>3, BundleFacts
<1> DEFINE flags == file.large[lo].flags
           count == Word(TableAt(lo, 36))
           asked == scoring[1] /\ scoring[2]
           compared == /\ asked /\ flags[36] = flags[40] /\ flags[36].exc
                       /\ count = Word(TableAt(lo, 40))
           equal == flags[36] = flags[40] /\ (flags[36].exc => SameTables(lo))
           record == [fits36 |-> scoring[1], fits40 |-> scoring[2], equal |-> asked => equal]
           cost == IF compared THEN count ELSE 0
<1>6. /\ compared /\ Spent(scratch.budget, count) => Exhaust
      /\ ~(compared /\ Spent(scratch.budget, count)) =>
           /\ scratch' = [scratch EXCEPT !.budget = @ - cost, !.perOff = Memo(@, lo, record)]
           /\ scoring' = << >> /\ tally' = tally
  <2>1. Large(idx) = file.large[lo] /\ file.fns[idx].lo = lo
    BY <1>1 DEF Large
  <2> QED BY <1>3, <2>1 DEF CompareDecodes
<1>7. ScoreOf(record, lo)
  <2>1. scoring[1] = x /\ scoring[2] = y
    BY <1>4
  <2>2. equal <=> AlikeAt(lo)
    BY DEF AlikeAt
  <2>3. (asked => equal) <=> Agree(lo)
    BY <1>4, <2>1, <2>2 DEF Agree
  <2>4. record.fits36 = x /\ record.fits40 = y /\ record.equal = (asked => equal)
    BY <2>1
  <2> HIDE DEF asked, equal, record
  <2> QED BY <1>4, <2>3, <2>4 DEF ScoreOf
<1>8. compared => count \in Nat
  <2>1. SUFFICES ASSUME compared PROVE count \in Nat
    OBVIOUS
  <2>2. FitsAt(lo, 36) /\ flags[36].exc
    <3>1. scoring[1] = x
      BY <1>4
    <3> QED BY <1>4, <2>1, <3>1
  <2>3. InFile(TableAt(lo, 36)) /\ TableAt(lo, 36) \in Nat
    BY <1>5, <2>2, BundleFacts DEF FitsAt, TableFits
  <2> QED BY <2>3, WordTyped
<1>9. PICK c, r : c = cost /\ r = record
  OBVIOUS
<1>10. CASE compared /\ Spent(scratch.budget, count)
  <2>1. Exhaust /\ UNCHANGED <<scratch, scoring>>
    BY <1>6, <1>10 DEF Exhaust
  <2> HIDE DEF flags, count, asked, compared, equal, record, cost
  <2> QED BY <1>3, <2>1, MemoKept, ScoringKept, TallyKept
<1>11. CASE ~(compared /\ Spent(scratch.budget, count))
  <2>1. /\ scratch' = [scratch EXCEPT !.budget = @ - c, !.perOff = Memo(@, lo, r)]
        /\ scoring' = << >> /\ tally' = tally
    BY <1>6, <1>9, <1>11
  <2>2. b - c \in Nat
    <3>1. b \in Nat /\ scratch.budget = b
      BY <1>2 DEF Remembered, Scratch
    <3>2. compared => ~(b < count)
      BY <1>11, <3>1 DEF Spent
    <3> HIDE DEF compared, count
    <3> QED BY <1>8, <1>9, <3>1, <3>2
  <2>3. ScoreOf(r, lo)
    BY <1>7, <1>9
  <2> HIDE DEF flags, count, asked, compared, equal, record, cost
  <2>4. PICK o1, b1 : o1 = Memo(o, lo, r) /\ b1 = b - c
    OBVIOUS
  <2>5. scratch' = Scratch(o1, t, b1)
    BY <1>2, <2>1, <2>4 DEF Scratch
  <2>6. Remembered(o1, t, b1)
    <3>1. \A l \in DOMAIN o1 : ScoreOf(o1[l], l)
      BY <1>2, <2>3, <2>4 DEF Memo, Remembered
    <3> QED BY <1>2, <2>2, <2>4, <3>1 DEF Remembered
  <2>7. MemoInv'
    <3>1. Remembered(o1, t, b1)'
      BY <1>3, <2>6, HeadersKept
    <3> QED BY <2>5, <3>1 DEF MemoInv, Scratch
  <2>8. ScoringInv'
    BY <2>1 DEF ScoringInv
  <2>9. TallyInv'
    BY <1>3, <2>1, TallyKept
  <2> QED BY <2>7, <2>8, <2>9
<1> QED BY <1>10, <1>11

(* The functions met are one more.                                         *)
LEMMA MetNext ==
  ASSUME file \in Bundles, idx \in Fns, UNCHANGED file, idx' = idx + 1
  PROVE  Met' = Met \cup (IF Scored(idx) THEN {idx} ELSE {})
<1>1. FnCount \in Nat
  BY BundleFacts
<1>2. PICK i \in Nat : i = idx
  BY <1>1 DEF Fns
<1>3. \A f \in Fns : f < i + 1 <=> (f < i \/ f = i)
  BY <1>1 DEF Fns
<1>4. Met' = {f \in Fns : f < i + 1 /\ Scored(f)}
  BY <1>2, HeadersKept DEF Met
<1> QED BY <1>2, <1>3, <1>4 DEF Met

LEMMA CountedNext ==
  ASSUME file \in Bundles, idx \in Fns, UNCHANGED <<file, pc>>, pc = "select", idx' = idx + 1,
         NEW a, NEW b, NEW d, Counted(a, b, d),
         NEW a1, NEW b1, NEW d1,
         IF Scored(idx)
           THEN /\ a1 = a + One(~FitsAt(file.fns[idx].lo, 36))
                /\ b1 = b + One(~FitsAt(file.fns[idx].lo, 40))
                /\ d1 = d + One(~Agree(file.fns[idx].lo))
           ELSE a1 = a /\ b1 = b /\ d1 = d
  PROVE  Counted(a1, b1, d1)'
<1>1. PICK i : i = idx
  OBVIOUS
<1>2. PICK met : met = Met
  OBVIOUS
<1>3. Met' = met \cup (IF Scored(i) THEN {i} ELSE {})
  BY <1>1, <1>2, MetNext
<1>4. /\ a \in Nat /\ b \in Nat /\ d \in Nat
      /\ a = 0 <=> \A f \in met : FitsAt(file.fns[f].lo, 36)
      /\ b = 0 <=> \A f \in met : FitsAt(file.fns[f].lo, 40)
      /\ d = 0 <=> \A f \in met : Agree(file.fns[f].lo)
  BY <1>2 DEF Counted
<1>5. /\ a1 \in Nat /\ b1 \in Nat /\ d1 \in Nat
      /\ a1 = 0 <=> a = 0 /\ (Scored(i) => FitsAt(file.fns[i].lo, 36))
      /\ b1 = 0 <=> b = 0 /\ (Scored(i) => FitsAt(file.fns[i].lo, 40))
      /\ d1 = 0 <=> d = 0 /\ (Scored(i) => Agree(file.fns[i].lo))
  <2>1. \A P \in BOOLEAN : One(P) \in Nat /\ (One(~P) = 0 <=> P)
    BY DEF One
  <2>2. PICK x \in BOOLEAN, y \in BOOLEAN, z \in BOOLEAN :
          /\ x <=> FitsAt(file.fns[i].lo, 36)
          /\ y <=> FitsAt(file.fns[i].lo, 40)
          /\ z <=> Agree(file.fns[i].lo)
    OBVIOUS
  <2>3. IF Scored(i) THEN /\ a1 = a + One(~x)
                          /\ b1 = b + One(~y)
                          /\ d1 = d + One(~z)
        ELSE a1 = a /\ b1 = b /\ d1 = d
    BY <1>1, <2>2 DEF One
  <2> QED BY <1>4, <2>2, <2>3 DEF One
<1>6. /\ a1 = 0 <=> \A f \in Met' : FitsAt(file.fns[f].lo, 36)
      /\ b1 = 0 <=> \A f \in Met' : FitsAt(file.fns[f].lo, 40)
      /\ d1 = 0 <=> \A f \in Met' : Agree(file.fns[f].lo)
  BY <1>3, <1>4, <1>5
<1>7. \A f : (FitsAt(file.fns[f].lo, 36))' <=> FitsAt(file.fns[f].lo, 36)
  BY HeadersKept DEF FitsAt
<1>8. \A f : (FitsAt(file.fns[f].lo, 40))' <=> FitsAt(file.fns[f].lo, 40)
  BY HeadersKept DEF FitsAt
<1>9. \A f : (Agree(file.fns[f].lo))' <=> Agree(file.fns[f].lo)
  BY HeadersKept DEF Agree, FitsAt, AlikeAt
<1> QED BY <1>5, <1>6, <1>7, <1>8, <1>9, ZenonT(30) DEF Counted

LEMMA TallyScoreStep ==
  ASSUME LayoutInv, TallyScore
  PROVE  MemoInv' /\ ScoringInv' /\ TallyInv'
<1> USE DEF LayoutInv
<1>1. PICK lo : lo = file.fns[idx].lo
  OBVIOUS
<1>2. PICK o, t, b : scratch = Scratch(o, t, b) /\ Remembered(o, t, b)
  BY DEF MemoInv
<1>3. PICK s, a, c, d, x : tally = Tally(s, a, c, d, x) /\ Counted(a, c, d)
  BY DEF TallyInv
<1>4. /\ pc = "select" /\ pc' = pc /\ idx' = idx + 1 /\ file' = file
      /\ idx \in Fns /\ Scored(idx) /\ Known(lo)
      /\ UNCHANGED <<scratch, scoring>>
  BY <1>1 DEF TallyScore, Selecting
<1>5. scoring' = << >>
  BY <1>1, <1>4 DEF ScoringInv
<1>6. PICK r : r = o[lo]
  OBVIOUS
<1>7. scratch.perOff[lo] = r /\ ScoreOf(r, lo)
  BY <1>2, <1>4, <1>6 DEF Scratch, Remembered, Known
<1>8. PICK a1, c1, d1 : /\ a1 = a + One(~r.fits36)
                        /\ c1 = c + One(~r.fits40)
                        /\ d1 = d + One(~r.equal)
  OBVIOUS
<1>9. tally' = Tally(s + 1, a1, c1, d1, x)
  BY <1>1, <1>3, <1>7, <1>8 DEF TallyScore, Tally
<1>10. /\ a1 = a + One(~FitsAt(lo, 36))
       /\ c1 = c + One(~FitsAt(lo, 40))
       /\ d1 = d + One(~Agree(lo))
  BY <1>7, <1>8 DEF One, ScoreOf
<1>11. Counted(a1, c1, d1)'
  BY <1>1, <1>3, <1>4, <1>10, CountedNext
<1>12. TallyInv'
  BY <1>9, <1>11 DEF TallyInv, Tally
<1>13. MemoInv'
  BY <1>4, MemoKept
<1> QED BY <1>5, <1>12, <1>13 DEF ScoringInv

LEMMA SkipHeaderStep ==
  ASSUME LayoutInv, SkipHeader
  PROVE  MemoInv' /\ ScoringInv' /\ TallyInv'
<1> USE DEF LayoutInv
<1>1. PICK s, a, b, d, x : tally = Tally(s, a, b, d, x) /\ Counted(a, b, d)
  BY DEF TallyInv
<1>2. /\ pc = "select" /\ pc' = pc /\ idx' = idx + 1 /\ file' = file
      /\ idx \in Fns /\ ~Scored(idx)
      /\ UNCHANGED <<scratch, scoring, tally>>
  BY DEF SkipHeader, Selecting, select_vars
<1>3. scoring' = << >>
  BY <1>2 DEF ScoringInv
<1>4. Counted(a, b, d)'
  BY <1>1, <1>2, CountedNext
<1>5. TallyInv'
  BY <1>1, <1>2, <1>4 DEF TallyInv, Tally
<1>6. MemoInv'
  BY <1>2, MemoKept
<1> QED BY <1>3, <1>5, <1>6 DEF ScoringInv

(* The tally of the whole table gives the layout that fits it.             *)
LEMMA ChosenHonest ==
  ASSUME LayoutInv, pc = "select", ~(idx \in Fns /\ ~tally.exhausted)
  PROVE  Chosen = IF tally.exhausted THEN NoLayout ELSE HonestLayout
<1> USE DEF LayoutInv
<1>1. CASE tally.exhausted
  BY <1>1 DEF Chosen
<1>2. CASE ~tally.exhausted
  <2>1. PICK s, a, b, d, x : tally = Tally(s, a, b, d, x) /\ Counted(a, b, d)
    BY DEF TallyInv
  <2>2. tally.v36 = a /\ tally.v40 = b /\ tally.disagreements = d
    BY <2>1 DEF Tally
  <2>3. Met = ScoredFns
    <3>1. FnCount \in Nat /\ idx \in Nat /\ idx \notin Fns /\ idx # 0
      BY <1>2, BundleFacts
    <3>2. \A f \in Fns : f < idx
      BY <3>1 DEF Fns
    <3> QED BY <3>2 DEF Met, ScoredFns
  <2>0. \A shape \in {36, 40} :
           shape \in Coherent <=> \A f \in ScoredFns : FitsAt(file.fns[f].lo, shape)
    BY ByHeader DEF Coherent, Shapes
  <2>4. /\ a = 0 <=> 36 \in Coherent
        /\ b = 0 <=> 40 \in Coherent
        /\ d = 0 <=> \A f \in ScoredFns : Agree(file.fns[f].lo)
    BY <2>1, <2>3, <2>0 DEF Counted
  <2>5. Coherent = Shapes =>
          ((\A f \in ScoredFns : Agree(file.fns[f].lo)) <=> \A f \in ScoredFns : DecodesAlike(f))
    <3> SUFFICES ASSUME Coherent = Shapes, NEW f \in ScoredFns
                 PROVE  Agree(file.fns[f].lo) <=> DecodesAlike(f)
      OBVIOUS
    <3>1. FitsAt(file.fns[f].lo, 36) /\ FitsAt(file.fns[f].lo, 40)
      BY <2>0 DEF Shapes
    <3> QED BY <3>1, ByHeader, Zenon DEF Agree
  <2>6. Coherent \subseteq {36, 40} /\ 36 # 40
    BY DEF Coherent, Shapes
  <2>7. /\ Coherent = {36} <=> a = 0 /\ b # 0
        /\ Coherent = {40} <=> a # 0 /\ b = 0
        /\ Coherent = Shapes <=> a = 0 /\ b = 0
    <3>1. \A S : S \subseteq {36, 40} =>
            /\ S = {36} <=> 36 \in S /\ 40 \notin S
            /\ S = {40} <=> 36 \notin S /\ 40 \in S
            /\ S = {36, 40} <=> 36 \in S /\ 40 \in S
      <4> SUFFICES ASSUME NEW S, \A z \in S : z = 36 \/ z = 40
                   PROVE  /\ S = {36} <=> 36 \in S /\ 40 \notin S
                          /\ S = {40} <=> 36 \notin S /\ 40 \in S
                          /\ S = {36, 40} <=> 36 \in S /\ 40 \in S
        BY Zenon
      <4>1. S = {36} <=> 36 \in S /\ 40 \notin S
        BY <2>6
      <4>2. S = {40} <=> 36 \notin S /\ 40 \in S
        BY <2>6
      <4>3. S = {36, 40} <=> 36 \in S /\ 40 \in S
        OBVIOUS
      <4> QED BY <4>1, <4>2, <4>3
    <3>2. /\ Coherent = {36} <=> 36 \in Coherent /\ 40 \notin Coherent
          /\ Coherent = {40} <=> 36 \notin Coherent /\ 40 \in Coherent
          /\ Coherent = Shapes <=> 36 \in Coherent /\ 40 \in Coherent
      BY <2>6, <3>1 DEF Shapes
    <3> QED BY <2>4, <3>2
  <2>8. Chosen = CASE a = 0 /\ b # 0 -> 36
                   [] a # 0 /\ b = 0 -> 40
                   [] a = 0 /\ b = 0 /\ d = 0 -> 36
                   [] OTHER -> NoLayout
    BY <1>2, <2>2 DEF Chosen
  <2> HIDE DEF LayoutInv
  <2>9. CASE a = 0 /\ b # 0
    <3>1. Chosen = 36
      BY <2>8, <2>9
    <3>2. Coherent = {36} /\ Coherent # {40} /\ Coherent # Shapes
      BY <2>7, <2>9
    <3> QED BY <1>2, <3>1, <3>2 DEF HonestLayout
  <2>10. CASE a # 0 /\ b = 0
    <3>1. Chosen = 40
      BY <2>8, <2>10
    <3>2. Coherent # {36} /\ Coherent = {40} /\ Coherent # Shapes
      BY <2>7, <2>10
    <3> QED BY <1>2, <3>1, <3>2 DEF HonestLayout
  <2>11. CASE a = 0 /\ b = 0
    <3>1. Chosen = IF d = 0 THEN 36 ELSE NoLayout
      BY <2>8, <2>11
    <3>2. Coherent # {36} /\ Coherent # {40} /\ Coherent = Shapes
      BY <2>7, <2>11
    <3>3. d = 0 <=> \A f \in ScoredFns : DecodesAlike(f)
      BY <2>4, <2>5, <3>2
    <3> QED BY <1>2, <3>1, <3>2, <3>3 DEF HonestLayout
  <2>12. CASE a # 0 /\ b # 0
    <3>1. Chosen = NoLayout
      BY <2>8, <2>12
    <3>2. Coherent # {36} /\ Coherent # {40} /\ Coherent # Shapes
      BY <2>7, <2>12
    <3> QED BY <1>2, <3>1, <3>2 DEF HonestLayout
  <2> QED BY <2>9, <2>10, <2>11, <2>12
<1> QED BY <1>1, <1>2

LEMMA HonestKept ==
  ASSUME UNCHANGED file
  PROVE  HonestLayout' = HonestLayout
<1>1. ScoredFns' = ScoredFns
  BY HeadersKept DEF ScoredFns
<1>2. \A f, shape : Fits(f, shape)' <=> Fits(f, shape)
  <2>1. \A p, size : TableFits(p, size)' <=> TableFits(p, size)
    BY DEF TableFits, InFile, SpanInFile, Word, Handler, InRange
  <2> QED BY <2>1 DEF Fits, Large, TableAt
<1>3. \A f : DecodesAlike(f)' <=> DecodesAlike(f)
  BY DEF DecodesAlike, Large, SameTables, TableAt, Word, Handler
<1>4. Coherent' = Coherent
  BY <1>1, <1>2 DEF Coherent
<1> QED BY <1>1, <1>3, <1>4 DEF HonestLayout

LEMMA PassesKeepLayout ==
  ASSUME LayoutInv, idx' \in Nat \ {0}, pc' # "select", pc # "select" \/ ~file.late98,
         UNCHANGED <<file, scratch, tally, large_header_layout>>
  PROVE  LayoutInv'
<1> USE DEF LayoutInv
<1>1. MemoInv' /\ TallyInv'
  BY MemoKept, TallyKept
<1>2. ScoringInv'
  BY DEF ScoringInv
<1>3. LayoutHonest'
  BY HonestKept DEF LayoutHonest
<1> QED BY <1>1, <1>2, <1>3

LEMMA LayoutInit == Init => LayoutInv
<1> SUFFICES ASSUME Init PROVE LayoutInv
  OBVIOUS
<1> USE DEF Init
<1>1. file.budget \in Nat /\ FnCount \in Nat
  BY BundleFacts
<1>2. DOMAIN << >> = {}
  OBVIOUS
<1>3. MemoInv
  <2>1. Remembered(<< >>, << >>, file.budget)
    BY <1>1, <1>2 DEF Remembered
  <2>2. scratch = Scratch(<< >>, << >>, file.budget)
    BY DEF Scratch
  <2> QED BY <2>1, <2>2 DEF MemoInv
<1>4. TallyInv
  <2>1. Met = {}
    BY <1>1 DEF Met, Fns
  <2>2. Counted(0, 0, 0)
    BY <2>1 DEF Counted
  <2>3. tally = Tally(0, 0, 0, 0, FALSE)
    BY DEF Tally
  <2> QED BY <2>2, <2>3 DEF TallyInv
<1> QED BY <1>3, <1>4 DEF LayoutInv, ScoringInv, LayoutHonest, Shapes

LEMMA LayoutStep == LayoutInv /\ ApartInv' /\ [Next]_vars => LayoutInv'
<1> SUFFICES ASSUME LayoutInv, ApartInv', [Next]_vars PROVE LayoutInv'
  OBVIOUS
<1>1. file \in Bundles /\ idx' \in Nat \ {0} /\ large_header_layout \in Shapes \cup {NoLayout}
  BY DEF LayoutInv, ApartInv
<1>2. CASE SkipHeader \/ ScoreShape \/ CompareDecodes \/ TallyScore
  <2>1. pc' = "select" /\ UNCHANGED <<file, large_header_layout>>
    BY <1>2 DEF SkipHeader, ScoreShape, CompareDecodes, TallyScore, Selecting, select_vars
  <2>2. MemoInv' /\ ScoringInv' /\ TallyInv'
    BY <1>2, SkipHeaderStep, ScoreShapeStep, CompareDecodesStep, TallyScoreStep
  <2> QED BY <1>1, <2>1, <2>2 DEF LayoutInv, LayoutHonest
<1>3. CASE DecideLayout
  <2>1. /\ pc = "select" /\ pc' = "pass1" /\ file' = file /\ large_header_layout' = Chosen
        /\ ~(idx \in Fns /\ ~tally.exhausted)
        /\ UNCHANGED <<scratch, scoring, tally>>
    BY <1>3 DEF DecideLayout, Enter, Selecting
  <2>2. Chosen = IF tally.exhausted THEN NoLayout ELSE HonestLayout
    BY <2>1, ChosenHonest
  <2>3. LayoutHonest'
    BY <2>1, <2>2, HonestKept DEF LayoutHonest
  <2>4. Chosen \in Shapes \cup {NoLayout}
    BY <2>2 DEF HonestLayout, Shapes
  <2>5. MemoInv' /\ TallyInv'
    BY <2>1, MemoKept, TallyKept DEF LayoutInv
  <2> QED BY <1>1, <2>1, <2>3, <2>4, <2>5 DEF LayoutInv, ScoringInv
<1>4. CASE KeepDefaultLayout
  <2>1. /\ pc' = "pass1" /\ ~file.late98
        /\ UNCHANGED <<file, scratch, tally, large_header_layout>>
    BY <1>4 DEF KeepDefaultLayout, Enter, select_vars
  <2> QED BY <1>1, <2>1, PassesKeepLayout
<1>5. CASE MarkUnrecognized \/ SkipEmptyBody \/ CollectSpan \/ SortSpans
  <2>1. /\ pc # "select" /\ pc' # "select"
        /\ UNCHANGED <<file, scratch, tally, large_header_layout>>
    BY <1>5 DEF MarkUnrecognized, SkipEmptyBody, CollectSpan, SortSpans, Enter, Fail, select_vars
  <2> QED BY <1>1, <2>1, PassesKeepLayout
<1>6. CASE ComparePair \/ BodiesCompared \/ ScreenHandlers \/ HandlersScreened
  <2>1. /\ pc # "select" /\ pc' # "select"
        /\ UNCHANGED <<file, scratch, tally, large_header_layout>>
    BY <1>6 DEF ComparePair, BodiesCompared, ScreenHandlers, HandlersScreened, Enter, Fail,
                select_vars
  <2> QED BY <1>1, <2>1, PassesKeepLayout
<1>7. CASE MergeHeads \/ MergeRest
  <2>1. /\ pc # "select" /\ pc' # "select"
        /\ UNCHANGED <<file, scratch, tally, large_header_layout>>
    BY <1>7 DEF MergeHeads, MergeRest, Enter, select_vars
  <2> QED BY <1>1, <2>1, PassesKeepLayout
<1>8. CASE UNCHANGED vars \/ Returned
  <2>1. UNCHANGED vars
    BY <1>8 DEF Returned
  <2>2. UNCHANGED <<file, pc, idx, scratch, scoring, tally, large_header_layout>>
    BY <2>1 DEF vars, select_vars
  <2>3. CASE pc = "select"
    <3>1. MemoInv' /\ ScoringInv' /\ TallyInv'
      BY <2>2, <2>3, MemoKept, ScoringKept, TallyKept DEF LayoutInv
    <3> QED BY <1>1, <2>2, <2>3, <3>1 DEF LayoutInv, LayoutHonest
  <2>4. CASE pc # "select"
    BY <1>1, <2>2, <2>4, PassesKeepLayout
  <2> QED BY <2>3, <2>4
<1> QED BY <1>2, <1>3, <1>4, <1>5, <1>6, <1>7, <1>8 DEF Next

(* select_v98_large_header_layout: though scores are memoized by header    *)
(* and summaries by table, shared between parents of different sizes, the  *)
(* layout it picks is the one that judging every function afresh gives, or *)
(* no layout when the budget ran out, for every bundle.                    *)
THEOREM LayoutHonestCorrect == Spec => []LayoutHonest
<1>1. LayoutInv => LayoutHonest
  BY DEF LayoutInv
<1> QED BY <1>1, LayoutInit, LayoutStep, ApartInit, ApartStep, SortInit, SortStep, PTL DEF Spec

-----------------------------------------------------------------------------
(* What parse drops.  The marks of pass 1 are those of the functions met   *)
(* whose metadata has a fault, those of pass 3 those of the functions      *)
(* without one whose handlers lie outside them; the merge keeps them all,  *)
(* and every mark came with its finding.                                   *)

Recs(s) == {s[n] : n \in DOMAIN s}

LEMMA RecsOf ==
  /\ Recs(<< >>) = {}
  /\ \A s \in Seq(MarkRec), x \in MarkRec : Recs(Append(s, x)) = Recs(s) \cup {x}
  /\ \A s \in Seq(MarkRec) : s # << >> => Recs(s) = {Head(s)} \cup Recs(Tail(s))
  /\ \A s, t \in Seq(MarkRec) : Recs(s \o t) = Recs(s) \cup Recs(t)
<1>1. Recs(<< >>) = {}
  BY DEF Recs
<1>2. ASSUME NEW s \in Seq(MarkRec), NEW x \in MarkRec
      PROVE  Recs(Append(s, x)) = Recs(s) \cup {x}
  <2> DEFINE t == Append(s, x)
  <2>1. /\ Len(s) \in Nat /\ DOMAIN s = 1..Len(s) /\ DOMAIN t = 1..(Len(s) + 1)
        /\ \A n \in 1..Len(s) : t[n] = s[n]
        /\ t[Len(s) + 1] = x
    OBVIOUS
  <2>2. \A n \in DOMAIN t : n \in DOMAIN s \/ n = Len(s) + 1
    BY <2>1
  <2>3. DOMAIN s \subseteq DOMAIN t /\ Len(s) + 1 \in DOMAIN t
    BY <2>1
  <2> HIDE DEF t
  <2>4. Recs(t) = Recs(s) \cup {x}
    BY <2>1, <2>2, <2>3 DEF Recs
  <2> QED BY <2>4 DEF t
<1>3. ASSUME NEW s \in Seq(MarkRec), s # << >>
      PROVE  Recs(s) = {Head(s)} \cup Recs(Tail(s))
  <2> DEFINE t == Tail(s)
  <2>1. /\ t \in Seq(MarkRec) /\ Len(s) \in Nat /\ Len(s) # 0
        /\ DOMAIN s = 1..Len(s) /\ DOMAIN t = 1..(Len(s) - 1)
        /\ \A n \in 1..(Len(s) - 1) : t[n] = s[n + 1]
        /\ Head(s) = s[1]
    BY <1>3
  <2>2. \A n \in DOMAIN s : n = 1 \/ (n - 1 \in DOMAIN t /\ t[n - 1] = s[n])
    BY <2>1
  <2>3. (\A n \in DOMAIN t : n + 1 \in DOMAIN s) /\ 1 \in DOMAIN s
    BY <2>1
  <2> HIDE DEF t
  <2>4. Recs(s) \subseteq {Head(s)} \cup Recs(t)
    BY <2>1, <2>2 DEF Recs
  <2>5. Recs(t) \subseteq Recs(s) /\ Head(s) \in Recs(s)
    BY <2>1, <2>3 DEF Recs
  <2> QED BY <2>4, <2>5 DEF t
<1>4. ASSUME NEW s \in Seq(MarkRec), NEW t \in Seq(MarkRec)
      PROVE  Recs(s \o t) = Recs(s) \cup Recs(t)
  <2> DEFINE u == s \o t
  <2>1. /\ Len(s) \in Nat /\ Len(t) \in Nat
        /\ DOMAIN s = 1..Len(s) /\ DOMAIN t = 1..Len(t) /\ DOMAIN u = 1..(Len(s) + Len(t))
        /\ \A n \in 1..Len(s) : u[n] = s[n]
        /\ \A n \in 1..Len(t) : u[Len(s) + n] = t[n]
    OBVIOUS
  <2> HIDE DEF u
  <2>2. \A n \in DOMAIN u : \/ n \in DOMAIN s /\ u[n] = s[n]
                            \/ n - Len(s) \in DOMAIN t /\ u[n] = t[n - Len(s)]
    <3> SUFFICES ASSUME NEW n \in DOMAIN u, n \notin DOMAIN s
                 PROVE  n - Len(s) \in DOMAIN t /\ u[n] = t[n - Len(s)]
      BY <2>1
    <3>1. n - Len(s) \in 1..Len(t) /\ n = Len(s) + (n - Len(s))
      BY <2>1
    <3> QED BY <2>1, <3>1
  <2>3. DOMAIN s \subseteq DOMAIN u /\ \A n \in DOMAIN t : Len(s) + n \in DOMAIN u
    BY <2>1
  <2>4. Recs(u) \subseteq Recs(s) \cup Recs(t)
    BY <2>2 DEF Recs
  <2>5. Recs(s) \subseteq Recs(u)
    BY <2>1, <2>3 DEF Recs
  <2>6. Recs(t) \subseteq Recs(u)
    BY <2>1, <2>3 DEF Recs
  <2> QED BY <2>4, <2>5, <2>6 DEF u
<1> QED BY <1>1, <1>2, <1>3, <1>4

Ambiguous == "LargeHeaderLayoutAmbiguous"
AmbiguousFinding == "V98LargeHeaderLayoutAmbiguous"

Faulty1(k) == {Mark(f, Pass1Fault(f)) : f \in {g \in Fns : g < k /\ Pass1Fault(g) # NoFault}}
Faulty3(k) ==
  {Mark(f, HandlerReason) :
     f \in {g \in Fns : g < k /\ Pass1Fault(g) = NoFault /\ OutOfRange(g)}}

Everyone == FnCount + 1
AllMarks == Recs(marks1) \cup Recs(marks3) \cup Recs(unrecognized)

FaultInv ==
  /\ pc = "pass1" => Recs(marks1) = Faulty1(idx)
  /\ pc \in {"pass2", "pass3"} => Recs(marks1) = Faulty1(Everyone)
  /\ pc = "pass3" => Recs(marks3) = Faulty3(idx)
  /\ pc \in {"merge", "parsed"} => AllMarks = Faulty1(Everyone) \cup Faulty3(Everyone)
  /\ pc = "parsed" => marks1 = << >> /\ marks3 = << >>

FindingInv ==
  /\ pc = "select" => large_header_layout = 36 /\ findings = {}
  /\ pc # "select" /\ large_header_layout = NoLayout => \E e \in findings : e[1] = AmbiguousFinding
  /\ \A f : <<Ambiguous, f>> \notin findings
  /\ \A f : <<"ExceptionCountCap", f>> \in findings => Pass1Fault(f) = NoFault /\ Capped(f)
  /\ \A m \in AllMarks : m.reason # Ambiguous => <<m.reason, m.fn>> \in findings

(* What depends on the file and the layout only.                           *)
LEMMA FaultsKept ==
  ASSUME UNCHANGED <<file, large_header_layout>>
  PROVE  /\ \A f : Pass1Fault(f)' = Pass1Fault(f)
         /\ \A f : Capped(f)' <=> Capped(f)
         /\ \A f : OutOfRange(f)' <=> OutOfRange(f)
         /\ \A k : Faulty1(k)' = Faulty1(k)
         /\ \A k : Faulty3(k)' = Faulty3(k)
         /\ Everyone' = Everyone
<1>1. /\ \A f : FunctionGet(f)' = FunctionGet(f)
      /\ \A f : RuntimeTable(f)' = RuntimeTable(f)
      /\ \A f : CheckedError(f)' = CheckedError(f)
      /\ Fns' = Fns /\ Everyone' = Everyone
  BY Kept DEF RuntimeTable, CheckedError, Large, TableAt, Everyone, FnCount
<1>2. \A p : Word(p)' = Word(p) /\ (InFile(p)' <=> InFile(p))
  BY DEF Word, InFile
<1>3. \A f : Capped(f)' <=> Capped(f)
  BY <1>1, <1>2 DEF Capped
<1>4. \A f : Pass1Fault(f)' = Pass1Fault(f)
  <2>1. \A f : TableOverlapsSynthesized(f)' <=> TableOverlapsSynthesized(f)
    BY <1>1, <1>2 DEF TableOverlapsSynthesized
  <2> QED BY <1>1, <2>1 DEF Pass1Fault
<1>5. \A f : OutOfRange(f)' <=> OutOfRange(f)
  <2>1. \A f : ExceptionCount(f)' = ExceptionCount(f)
    BY <1>1, <1>2, <1>3 DEF ExceptionCount
  <2>2. \A f, h : ExceptionGet(f, h)' = ExceptionGet(f, h)
    BY <1>1, <1>2 DEF ExceptionGet, Handler
  <2> QED BY <1>1, <2>1, <2>2 DEF OutOfRange, InRange
<1>6. \A k : Faulty1(k)' = Faulty1(k)
  BY <1>1, <1>4 DEF Faulty1, Mark
<1>7. \A k : Faulty3(k)' = Faulty3(k)
  BY <1>1, <1>4, <1>5 DEF Faulty3, Mark
<1> QED BY <1>1, <1>3, <1>4, <1>5, <1>6, <1>7

LEMMA FaultyNone ==
  ASSUME file \in Bundles
  PROVE  Faulty1(1) = {} /\ Faulty3(1) = {}
<1>1. FnCount \in Nat
  BY BundleFacts
<1>2. \A g \in Fns : ~(g < 1)
  BY <1>1 DEF Fns
<1> QED BY <1>2 DEF Faulty1, Faulty3

LEMMA FaultyNext ==
  ASSUME file \in Bundles, NEW k \in Fns
  PROVE  /\ Faulty1(k + 1) = Faulty1(k) \cup (IF Pass1Fault(k) = NoFault THEN {}
                                              ELSE {Mark(k, Pass1Fault(k))})
         /\ Faulty3(k + 1) = Faulty3(k) \cup (IF Pass1Fault(k) = NoFault /\ OutOfRange(k)
                                                THEN {Mark(k, HandlerReason)} ELSE {})
<1>1. FnCount \in Nat
  BY BundleFacts
<1>2. \A g \in Fns : g < k + 1 <=> (g < k \/ g = k)
  BY <1>1 DEF Fns
<1>3. {g \in Fns : g < k + 1 /\ Pass1Fault(g) # NoFault} =
        {g \in Fns : g < k /\ Pass1Fault(g) # NoFault}
          \cup (IF Pass1Fault(k) = NoFault THEN {} ELSE {k})
  <2> PICK n : n = k + 1
    OBVIOUS
  <2>1. ~(k < k)
    BY <1>1 DEF Fns
  <2> QED BY <1>2, <2>1
<1>4. {g \in Fns : g < k + 1 /\ Pass1Fault(g) = NoFault /\ OutOfRange(g)} =
        {g \in Fns : g < k /\ Pass1Fault(g) = NoFault /\ OutOfRange(g)}
          \cup (IF Pass1Fault(k) = NoFault /\ OutOfRange(k) THEN {k} ELSE {})
  BY <1>2
<1>5. Faulty1(k + 1) = Faulty1(k) \cup (IF Pass1Fault(k) = NoFault THEN {}
                                        ELSE {Mark(k, Pass1Fault(k))})
  BY <1>3 DEF Faulty1
<1>6. Faulty3(k + 1) = Faulty3(k) \cup (IF Pass1Fault(k) = NoFault /\ OutOfRange(k)
                                          THEN {Mark(k, HandlerReason)} ELSE {})
  BY <1>4 DEF Faulty3
<1> QED BY <1>5, <1>6

(* Pass 3 skips exactly the functions with a fault of pass 1.              *)
LEMMA ScreenedExactly ==
  ASSUME file \in Bundles, FaultInv, pc = "pass3", idx \in Fns
  PROVE  MarkedInPass1(idx) <=> Pass1Fault(idx) # NoFault
<1>1. MarkedInPass1(idx) <=> \E m \in Faulty1(Everyone) : m.fn = idx
  BY DEF FaultInv, MarkedInPass1, Recs
<1>2. idx < Everyone
  BY BundleFacts DEF Everyone, Fns
<1>3. (\E m \in Faulty1(Everyone) : m.fn = idx) => Pass1Fault(idx) # NoFault
  BY DEF Faulty1, Mark
<1>4. Pass1Fault(idx) # NoFault => \E m \in Faulty1(Everyone) : m.fn = idx
  <2>1. Mark(idx, Pass1Fault(idx)).fn = idx
    BY DEF Mark
  <2> QED BY <1>2, <2>1 DEF Faulty1
<1> QED BY <1>1, <1>3, <1>4

(* The merge moves marks and loses none.                                   *)
LEMMA MergeKeepsMarks ==
  ASSUME marks1 \in Seq(MarkRec), marks3 \in Seq(MarkRec), unrecognized \in Seq(MarkRec),
         MergeHeads \/ MergeRest
  PROVE  AllMarks' = AllMarks
<1>1. CASE MergeHeads
  <2>1. /\ marks1 # << >> /\ marks3 # << >>
        /\ \/ /\ unrecognized' = Append(unrecognized, Head(marks1))
              /\ marks1' = Tail(marks1) /\ marks3' = marks3
           \/ /\ unrecognized' = Append(unrecognized, Head(marks3))
              /\ marks3' = Tail(marks3) /\ marks1' = marks1
    BY <1>1 DEF MergeHeads
  <2>2. Head(marks1) \in MarkRec /\ Head(marks3) \in MarkRec
    BY <2>1, TailMarks
  <2>3. /\ Recs(marks1) = {Head(marks1)} \cup Recs(Tail(marks1))
        /\ Recs(marks3) = {Head(marks3)} \cup Recs(Tail(marks3))
        /\ Recs(Append(unrecognized, Head(marks1))) = Recs(unrecognized) \cup {Head(marks1)}
        /\ Recs(Append(unrecognized, Head(marks3))) = Recs(unrecognized) \cup {Head(marks3)}
    BY <2>1, <2>2, RecsOf
  <2> QED BY <2>1, <2>3 DEF AllMarks
<1>2. CASE MergeRest
  <2>1. /\ marks1' = << >> /\ marks3' = << >>
        /\ unrecognized' = (unrecognized \o marks1) \o marks3
    BY <1>2 DEF MergeRest
  <2>2. unrecognized \o marks1 \in Seq(MarkRec)
    BY ConcatMarks
  <2>3. PICK u, v \in Seq(MarkRec) :
          v = marks3 /\ u = unrecognized \o marks1 /\ unrecognized' = u \o v
    BY <2>1, <2>2
  <2>4. Recs(u \o v) = Recs(u) \cup Recs(v) /\ Recs(<< >>) = {}
    BY RecsOf
  <2>5. Recs(u) = Recs(unrecognized) \cup Recs(marks1)
    BY <2>3, RecsOf
  <2> QED BY <2>1, <2>3, <2>4, <2>5 DEF AllMarks
<1> QED BY <1>1, <1>2

LEMMA FaultInit == Init => FaultInv
BY DEF Init, FaultInv

LEMMA FaultStep == SortInv /\ ApartInv /\ FaultInv /\ [Next]_vars => FaultInv'
<1> SUFFICES ASSUME SortInv, ApartInv, FaultInv, [Next]_vars PROVE FaultInv'
  OBVIOUS
<1>1. /\ file \in Bundles /\ idx \in Nat \ {0} /\ FnCount \in Nat
      /\ marks1 \in Seq(MarkRec) /\ marks3 \in Seq(MarkRec) /\ unrecognized \in Seq(MarkRec)
      /\ pc = "select" => marks1 = << >>
      /\ pc \in {"select", "pass1", "pass2"} => marks3 = << >>
      /\ pc \in {"select", "pass1", "pass2", "pass3"} => unrecognized = << >>
  BY BundleFacts DEF ApartInv, SortInv
<1> USE DEF mark_vars, pass_vars, select_vars, Enter
<1>2. CASE SkipHeader \/ ScoreShape \/ CompareDecodes \/ TallyScore
  <2>1. pc' = "select"
    BY <1>2 DEF SkipHeader, ScoreShape, CompareDecodes, TallyScore, Selecting
  <2> QED BY <2>1 DEF FaultInv
<1>3. CASE DecideLayout \/ KeepDefaultLayout
  <2>1. pc = "select" /\ pc' = "pass1" /\ idx' = 1 /\ marks1' = marks1 /\ file' = file
    BY <1>3 DEF DecideLayout, KeepDefaultLayout
  <2>2. Recs(marks1') = {}
    BY <1>1, <2>1, RecsOf
  <2>3. Faulty1(1)' = {}
    <3>1. FnCount' = FnCount
      BY <2>1 DEF FnCount
    <3>2. \A g \in 1..FnCount : ~(g < 1)
      BY <1>1
    <3> QED BY <3>1, <3>2 DEF Faulty1, Fns
  <2>4. Faulty1(idx)' = Faulty1(1)'
    BY <2>1 DEF Faulty1
  <2> QED BY <2>1, <2>2, <2>3, <2>4 DEF FaultInv
<1>4. ASSUME UNCHANGED <<file, large_header_layout>>
      PROVE  /\ \A k : Faulty1(k)' = Faulty1(k)
             /\ \A k : Faulty3(k)' = Faulty3(k)
             /\ Faulty1(Everyone)' = Faulty1(Everyone)
             /\ Faulty3(Everyone)' = Faulty3(Everyone)
             /\ Faulty1(idx)' = Faulty1(idx')
             /\ Faulty3(idx)' = Faulty3(idx')
  <2>1. /\ \A k : Faulty1(k)' = Faulty1(k)
        /\ \A k : Faulty3(k)' = Faulty3(k)
        /\ Everyone' = Everyone
    BY <1>4, FaultsKept
  <2>2. PICK k, n : k = idx' /\ n = Everyone
    OBVIOUS
  <2>3. Faulty1(idx)' = Faulty1(k)' /\ Faulty3(idx)' = Faulty3(k)'
    BY <2>2 DEF Faulty1, Faulty3
  <2>4. Faulty1(Everyone)' = Faulty1(n)' /\ Faulty3(Everyone)' = Faulty3(n)'
    BY <2>1, <2>2 DEF Faulty1, Faulty3
  <2> QED BY <2>1, <2>2, <2>3, <2>4
<1>5. CASE MarkUnrecognized
  <2> DEFINE x == Mark(idx, Pass1Fault(idx))
  <2>1. /\ pc = "pass1" /\ pc' = pc /\ idx \in Fns /\ idx' = idx + 1
        /\ Pass1Fault(idx) # NoFault /\ marks1' = Append(marks1, x)
        /\ UNCHANGED <<file, large_header_layout>>
    BY <1>5 DEF MarkUnrecognized
  <2>2. x \in MarkRec
    BY <1>1, <2>1, MarkTyped
  <2>3. PICK k : k = idx
    OBVIOUS
  <2>4. Faulty1(k + 1) = Faulty1(k) \cup {x}
    BY <1>1, <2>1, <2>3, FaultyNext
  <2> HIDE DEF x
  <2>5. Recs(marks1') = Recs(marks1) \cup {x}
    BY <1>1, <2>1, <2>2, RecsOf
  <2> QED BY <1>4, <2>1, <2>3, <2>4, <2>5 DEF FaultInv
<1>6. CASE SkipEmptyBody
  <2>1. /\ pc = "pass1" /\ pc' = pc /\ idx \in Fns /\ idx' = idx + 1 /\ marks1' = marks1
        /\ Pass1Fault(idx) = NoFault
        /\ UNCHANGED <<file, large_header_layout>>
    BY <1>6 DEF SkipEmptyBody
  <2>2. PICK k : k = idx
    OBVIOUS
  <2>3. Faulty1(k + 1) = Faulty1(k)
    BY <1>1, <2>1, <2>2, FaultyNext
  <2> QED BY <1>4, <2>1, <2>2, <2>3 DEF FaultInv
<1>7. CASE CollectSpan
  <2>1. /\ pc = "pass1" /\ idx \in Fns /\ marks1' = marks1
        /\ Pass1Fault(idx) = NoFault
        /\ UNCHANGED <<file, large_header_layout>>
        /\ \/ pc' = pc /\ idx' = idx + 1
           \/ pc' = "FunctionBodyOutOfBytecodeRegion"
    BY <1>7 DEF CollectSpan, Fail
  <2>2. PICK k : k = idx
    OBVIOUS
  <2>3. Faulty1(k + 1) = Faulty1(k)
    BY <1>1, <2>1, <2>2, FaultyNext
  <2> QED BY <1>4, <2>1, <2>2, <2>3 DEF FaultInv
<1>8. CASE SortSpans
  <2>1. /\ pc = "pass1" /\ pc' = "pass2" /\ idx = Everyone /\ marks1' = marks1
        /\ UNCHANGED <<file, large_header_layout>>
    BY <1>8 DEF SortSpans, Everyone
  <2> QED BY <1>4, <2>1 DEF FaultInv
<1>9. CASE ComparePair
  <2>1. /\ pc = "pass2" /\ pc' \in {"pass2", "FunctionBodyOverlap"} /\ marks1' = marks1
        /\ UNCHANGED <<file, large_header_layout>>
    BY <1>9 DEF ComparePair, Fail
  <2> QED BY <1>4, <2>1 DEF FaultInv
<1>10. CASE BodiesCompared
  <2>1. /\ pc = "pass2" /\ UNCHANGED <<file, large_header_layout, marks1, marks3>>
        /\ pc' = "FunctionBodyDedupOverflow" \/ (pc' = "pass3" /\ idx' = 1)
    BY <1>10 DEF BodiesCompared, Fail
  <2>2. Recs(marks3') = {} /\ Faulty3(1) = {}
    BY <1>1, <2>1, RecsOf, FaultyNone
  <2> QED BY <1>4, <2>1, <2>2 DEF FaultInv
<1>11. CASE ScreenHandlers
  <2> DEFINE x == Mark(idx, HandlerReason)
  <2>1. /\ pc = "pass3" /\ pc' = pc /\ idx \in Fns /\ idx' = idx + 1 /\ marks1' = marks1
        /\ marks3' = IF ~MarkedInPass1(idx) /\ OutOfRange(idx) THEN Append(marks3, x) ELSE marks3
        /\ UNCHANGED <<file, large_header_layout>>
    BY <1>11 DEF ScreenHandlers
  <2>2. x \in MarkRec
    BY <1>1, <2>1, MarkTyped
  <2>3. PICK k : k = idx
    OBVIOUS
  <2>4. MarkedInPass1(idx) <=> Pass1Fault(idx) # NoFault
    BY <1>1, <2>1, ScreenedExactly
  <2>5. Faulty3(k + 1) = Faulty3(k) \cup (IF Pass1Fault(idx) = NoFault /\ OutOfRange(idx)
                                            THEN {x} ELSE {})
    BY <1>1, <2>1, <2>3, FaultyNext
  <2> HIDE DEF x
  <2>6. Recs(marks3') = Recs(marks3) \cup (IF ~MarkedInPass1(idx) /\ OutOfRange(idx)
                                             THEN {x} ELSE {})
    BY <1>1, <2>1, <2>2, RecsOf
  <2> QED BY <1>4, <2>1, <2>3, <2>4, <2>5, <2>6 DEF FaultInv
<1>12. CASE HandlersScreened
  <2>1. /\ pc = "pass3" /\ pc' = "merge" /\ idx = Everyone
        /\ UNCHANGED <<file, large_header_layout, marks1, marks3, unrecognized>>
    BY <1>12 DEF HandlersScreened, Everyone
  <2>2. Recs(unrecognized) = {}
    BY <1>1, <2>1, RecsOf
  <2> QED BY <1>4, <2>1, <2>2 DEF FaultInv, AllMarks
<1>13. CASE MergeHeads
  <2>1. pc = "merge" /\ pc' = pc /\ UNCHANGED <<file, large_header_layout>>
    BY <1>13 DEF MergeHeads
  <2>2. AllMarks' = AllMarks
    BY <1>1, <1>13, MergeKeepsMarks
  <2> QED BY <1>4, <2>1, <2>2 DEF FaultInv
<1>14. CASE MergeRest
  <2>1. /\ pc = "merge" /\ pc' = "parsed" /\ marks1' = << >> /\ marks3' = << >>
        /\ UNCHANGED <<file, large_header_layout>>
    BY <1>14 DEF MergeRest
  <2>2. AllMarks' = AllMarks
    BY <1>1, <1>14, MergeKeepsMarks
  <2> QED BY <1>4, <2>1, <2>2 DEF FaultInv
<1>15. CASE UNCHANGED vars \/ Returned
  <2>1. UNCHANGED <<file, pc, idx, large_header_layout, marks1, marks3, unrecognized>>
    BY <1>15 DEF Returned, vars
  <2> QED BY <1>4, <2>1 DEF FaultInv, AllMarks
<1> QED BY <1>2, <1>3, <1>5, <1>6, <1>7, <1>8, <1>9, <1>10, <1>11, <1>12, <1>13, <1>14, <1>15
        DEF Next

LEMMA FindingInit == Init => FindingInv
<1> SUFFICES ASSUME Init PROVE FindingInv
  OBVIOUS
<1>1. AllMarks = {}
  BY RecsOf DEF Init, AllMarks
<1> QED BY <1>1 DEF Init, FindingInv

LEMMA FaultTyped ==
  /\ HandlerReason # Ambiguous /\ HandlerReason # "ExceptionCountCap"
  /\ \A f : Pass1Fault(f) # HandlerReason /\ Pass1Fault(f) # "ExceptionCountCap"
  /\ \A f : Pass1Fault(f) = Ambiguous => large_header_layout = NoLayout
BY DEF Pass1Fault, CheckedError, HandlerReason, NoFault, Ambiguous

(* Steps after the selection that add neither a mark nor a finding.        *)
LEMMA FindingKept ==
  ASSUME FindingInv, pc # "select", pc' # "select",
         UNCHANGED <<file, large_header_layout, findings>>, AllMarks' = AllMarks
  PROVE  FindingInv'
BY FaultsKept DEF FindingInv

LEMMA FindingStep ==
  SortInv /\ ApartInv /\ FaultInv /\ FindingInv /\ [Next]_vars => FindingInv'
<1> SUFFICES ASSUME SortInv, ApartInv, FaultInv, FindingInv, [Next]_vars PROVE FindingInv'
  OBVIOUS
<1>1. /\ file \in Bundles /\ idx \in Nat \ {0}
      /\ marks1 \in Seq(MarkRec) /\ marks3 \in Seq(MarkRec) /\ unrecognized \in Seq(MarkRec)
      /\ pc = "select" => AllMarks = {}
  BY RecsOf DEF ApartInv, SortInv, AllMarks
<1> USE DEF mark_vars, pass_vars, select_vars, Enter
<1>2. CASE SkipHeader \/ ScoreShape \/ CompareDecodes \/ TallyScore
  <2>1. pc = "select" /\ pc' = pc
        /\ UNCHANGED <<file, large_header_layout, findings, marks1, marks3, unrecognized>>
    BY <1>2 DEF SkipHeader, ScoreShape, CompareDecodes, TallyScore, Selecting
  <2>2. AllMarks' = AllMarks
    BY <2>1 DEF AllMarks
  <2> QED BY <1>1, <2>1, <2>2 DEF FindingInv
<1>3. CASE DecideLayout \/ KeepDefaultLayout
  <2>1. /\ pc = "select" /\ pc' = "pass1"
        /\ UNCHANGED <<marks1, marks3, unrecognized>>
        /\ large_header_layout = 36 /\ findings = {}
    BY <1>3 DEF DecideLayout, KeepDefaultLayout, FindingInv
  <2>5. \/ findings' = {} /\ large_header_layout' # NoLayout
        \/ \E x : findings' = {<<AmbiguousFinding, x>>}
    <3>1. CASE KeepDefaultLayout
      BY <2>1, <3>1 DEF KeepDefaultLayout, NoLayout
    <3>2. CASE DecideLayout
      <4>1. /\ large_header_layout' = Chosen
            /\ findings' = findings \cup (IF Chosen = NoLayout
                                            THEN {<<AmbiguousFinding, tally.exhausted>>} ELSE {})
        BY <3>2 DEF DecideLayout, AmbiguousFinding
      <4> QED BY <2>1, <4>1
    <3> QED BY <1>3, <3>1, <3>2
  <2>2. AllMarks' = {}
    BY <1>1, <2>1 DEF AllMarks
  <2>3. /\ \A f : <<Ambiguous, f>> \notin findings'
        /\ \A f : <<"ExceptionCountCap", f>> \notin findings'
    <3>1. Ambiguous # AmbiguousFinding /\ "ExceptionCountCap" # AmbiguousFinding
      BY DEF Ambiguous, AmbiguousFinding
    <3>2. \A a, b, f, x : <<a, f>> = <<b, x>> => a = b
      OBVIOUS
    <3> QED BY <2>5, <3>1, <3>2
  <2>4. large_header_layout' = NoLayout => \E e \in findings' : e[1] = AmbiguousFinding
    <3>1. \A a, x : <<a, x>>[1] = a
      OBVIOUS
    <3> QED BY <2>5, <3>1
  <2> QED BY <2>1, <2>2, <2>3, <2>4 DEF FindingInv
<1>4. CASE MarkUnrecognized
  <2> DEFINE x == Mark(idx, Pass1Fault(idx))
  <2>1. /\ pc = "pass1" /\ pc' = pc /\ Pass1Fault(idx) # NoFault
        /\ marks1' = Append(marks1, x) /\ UNCHANGED <<marks3, unrecognized>>
        /\ UNCHANGED <<file, large_header_layout>>
        /\ findings' = findings \cup (IF Pass1Fault(idx) = Ambiguous THEN {}
                                      ELSE {<<Pass1Fault(idx), idx>>})
    BY <1>4 DEF MarkUnrecognized, Ambiguous
  <2>2. x \in MarkRec /\ x.fn = idx /\ x.reason = Pass1Fault(idx)
    BY <1>1, <2>1, MarkTyped DEF Mark
  <2> HIDE DEF x
  <2>3. AllMarks' = AllMarks \cup {x}
    BY <1>1, <2>1, <2>2, RecsOf DEF AllMarks
  <2>4. /\ \A f : <<Ambiguous, f>> \notin findings'
        /\ \A f : <<"ExceptionCountCap", f>> \in findings' => <<"ExceptionCountCap", f>> \in findings
    BY <2>1, FaultTyped DEF FindingInv
  <2>5. \A m \in AllMarks' : m.reason # Ambiguous => <<m.reason, m.fn>> \in findings'
    BY <2>1, <2>2, <2>3 DEF FindingInv
  <2> QED BY <2>1, <2>4, <2>5, FaultsKept DEF FindingInv
<1>5. CASE ScreenHandlers
  <2> DEFINE x == Mark(idx, HandlerReason)
             faulty == ~MarkedInPass1(idx) /\ OutOfRange(idx)
             capped == ~MarkedInPass1(idx) /\ Capped(idx)
  <2>1. /\ pc = "pass3" /\ pc' = pc /\ idx \in Fns
        /\ marks3' = (IF faulty THEN Append(marks3, x) ELSE marks3)
        /\ UNCHANGED <<marks1, unrecognized>>
        /\ UNCHANGED <<file, large_header_layout>>
        /\ findings' = findings \cup (IF capped THEN {<<"ExceptionCountCap", idx>>} ELSE {})
                                \cup (IF faulty THEN {<<HandlerReason, idx>>} ELSE {})
    BY <1>5 DEF ScreenHandlers
  <2>2. x \in MarkRec /\ x.fn = idx /\ x.reason = HandlerReason
    BY <1>1, MarkTyped DEF Mark
  <2>3. MarkedInPass1(idx) <=> Pass1Fault(idx) # NoFault
    BY <1>1, <2>1, ScreenedExactly
  <2>4. capped => Pass1Fault(idx) = NoFault /\ Capped(idx)
    BY <2>3
  <2> HIDE DEF x, faulty, capped
  <2>5. AllMarks' = AllMarks \cup (IF faulty THEN {x} ELSE {})
    BY <1>1, <2>1, <2>2, RecsOf DEF AllMarks
  <2>6. \A f : <<Ambiguous, f>> \notin findings'
    BY <2>1, FaultTyped, Zenon DEF FindingInv, Ambiguous
  <2>7. \A f : <<"ExceptionCountCap", f>> \in findings' =>
                 <<"ExceptionCountCap", f>> \in findings \/ (capped /\ f = idx)
    BY <2>1, FaultTyped
  <2>8. \A f : <<"ExceptionCountCap", f>> \in findings' => Pass1Fault(f) = NoFault /\ Capped(f)
    BY <2>4, <2>7 DEF FindingInv
  <2>9. \A m \in AllMarks' : m.reason # Ambiguous => <<m.reason, m.fn>> \in findings'
    BY <2>1, <2>2, <2>5 DEF FindingInv
  <2> QED BY <2>1, <2>6, <2>8, <2>9, FaultsKept DEF FindingInv
<1>6. CASE SkipEmptyBody \/ CollectSpan \/ SortSpans \/ ComparePair \/ BodiesCompared
             \/ HandlersScreened
  <2>1. /\ pc # "select" /\ pc' # "select"
        /\ UNCHANGED <<file, large_header_layout, findings, marks1, marks3, unrecognized>>
    BY <1>6 DEF SkipEmptyBody, CollectSpan, SortSpans, ComparePair, BodiesCompared,
                HandlersScreened, Fail
  <2>2. AllMarks' = AllMarks
    BY <2>1 DEF AllMarks
  <2> QED BY <2>1, <2>2, FindingKept
<1>7. CASE MergeHeads \/ MergeRest
  <2>1. /\ pc # "select" /\ pc' # "select"
        /\ UNCHANGED <<file, large_header_layout, findings>>
    BY <1>7 DEF MergeHeads, MergeRest
  <2>2. AllMarks' = AllMarks
    BY <1>1, <1>7, MergeKeepsMarks
  <2> QED BY <2>1, <2>2, FindingKept
<1>8. CASE UNCHANGED vars \/ Returned
  <2>1. UNCHANGED <<file, pc, large_header_layout, findings, marks1, marks3, unrecognized>>
    BY <1>8 DEF Returned, vars
  <2>2. AllMarks' = AllMarks
    BY <2>1 DEF AllMarks
  <2> QED BY <2>1, <2>2, FaultsKept DEF FindingInv
<1> QED BY <1>2, <1>3, <1>4, <1>5, <1>6, <1>7, <1>8 DEF Next

(* The faults parse looks for are what makes metadata unusable.            *)
LEMMA TableTyped ==
  ASSUME file \in Bundles, large_header_layout \in Shapes \cup {NoLayout}, NEW f \in Fns
  PROVE  RuntimeTable(f) \in Nat /\ (InFile(RuntimeTable(f)) => Word(RuntimeTable(f)) \in Nat)
<1>1. RuntimeTable(f) \in Nat
  <2>1. /\ file.fns[f].lo \in LargeOff /\ file.fns[f].tab \in Nat /\ MaxPos \in Nat
        /\ TableAt(file.fns[f].lo, 36) \in Nat /\ TableAt(file.fns[f].lo, 40) \in Nat
    BY BundleFacts
  <2> QED BY <2>1 DEF RuntimeTable, Shapes
<1> QED BY <1>1, WordTyped

LEMMA UnusableIs ==
  ASSUME file \in Bundles, large_header_layout \in Shapes \cup {NoLayout}, NEW f \in Fns
  PROVE  Unusable(f) <=> Pass1Fault(f) # NoFault \/ OutOfRange(f)
<1>1. NoHeader(f) <=> CheckedError(f) # NoFault
  BY DEF NoHeader, CheckedError, NoFault
<1>2. Aliased(f) <=> TableOverlapsSynthesized(f)
  <2>1. PICK p \in Nat : p = RuntimeTable(f)
    BY TableTyped
  <2>2. InFile(p) => Word(p) \in Nat
    BY <2>1, TableTyped
  <2>3. MaxHandlers \in Nat /\ file.synth \subseteq Nat
    BY BundleFacts
  <2>4. ASSUME FunctionGet(f).exc
        PROVE  ExceptionCount(f) = IF InFile(p) /\ Word(p) <= MaxHandlers THEN Word(p) ELSE 0
    BY <2>1, <2>2, <2>3, <2>4 DEF ExceptionCount, Capped
  <2>5. PICK c : c = IF InFile(p) /\ Word(p) <= MaxHandlers THEN Word(p) ELSE 0
    OBVIOUS
  <2>6. c \in Nat
    BY <2>2, <2>5
  <2>7. (p..(p + 3 * c)) \cap file.synth # {} <=> \E q \in file.synth : q >= p /\ q <= p + 3 * c
    BY <2>3, <2>6
  <2>8. TableOverlapsSynthesized(f) <=>
          FunctionGet(f).exc /\ (p..(p + 3 * c)) \cap file.synth # {}
    BY <2>1, <2>5 DEF TableOverlapsSynthesized
  <2>9. Aliased(f) <=> FunctionGet(f).exc /\ \E q \in file.synth : q >= p /\ q <= p + 3 * c
    BY <2>1, <2>4, <2>5 DEF Aliased
  <2> QED BY <2>7, <2>8, <2>9
<1>3. Pass1Fault(f) # NoFault <=> CheckedError(f) # NoFault \/ TableOverlapsSynthesized(f)
  BY DEF Pass1Fault, NoFault
<1> QED BY <1>1, <1>2, <1>3 DEF Unusable

LEMMA DroppedExactly ==
  ASSUME LayoutInv, SortInv, FaultInv, FindingInv
  PROVE  UnrecognizedExact
<1> SUFFICES ASSUME pc = "parsed" PROVE UnrecognizedExact
  BY DEF UnrecognizedExact
<1>1. /\ file \in Bundles /\ large_header_layout \in Shapes \cup {NoLayout}
      /\ FnCount \in Nat
  BY BundleFacts DEF LayoutInv
<1>2. AllMarks = Recs(unrecognized)
  BY RecsOf DEF FaultInv, AllMarks
<1>3. Recs(unrecognized) = Faulty1(Everyone) \cup Faulty3(Everyone)
  BY <1>2 DEF FaultInv
<1>4. \A f \in Fns : f < Everyone
  BY <1>1 DEF Fns, Everyone
<1>5. \A f : Mark(f, Pass1Fault(f)).fn = f /\ Mark(f, HandlerReason).fn = f
  BY DEF Mark
<1>6. ASSUME NEW f \in Fns
      PROVE  (\E m \in Recs(unrecognized) : m.fn = f) <=> Unusable(f)
  <2>1. (\E m \in Faulty1(Everyone) : m.fn = f) <=> Pass1Fault(f) # NoFault
    BY <1>4, <1>5 DEF Faulty1
  <2>2. (\E m \in Faulty3(Everyone) : m.fn = f) <=> Pass1Fault(f) = NoFault /\ OutOfRange(f)
    BY <1>4, <1>5 DEF Faulty3
  <2> QED BY <1>1, <1>3, <2>1, <2>2, UnusableIs
<1>7. Fns \ Recognized = {f \in Fns : Unusable(f)}
  <2>1. \A f \in Fns : f \notin Recognized <=> \E m \in Recs(unrecognized) : m.fn = f
    BY DEF Recognized, Recs
  <2> QED BY <1>6, <2>1
<1>8. ASSUME NEW m \in Recs(unrecognized)
      PROVE  IF m.reason = Ambiguous
               THEN <<m.reason, m.fn>> \notin findings
                    /\ \E e \in findings : e[1] = AmbiguousFinding
               ELSE <<m.reason, m.fn>> \in findings
  <2>1. CASE m.reason # Ambiguous
    BY <1>2, <2>1 DEF FindingInv
  <2>2. CASE m.reason = Ambiguous
    <3>1. large_header_layout = NoLayout
      <4>1. \A f : Mark(f, Pass1Fault(f)).reason = Pass1Fault(f)
                   /\ Mark(f, HandlerReason).reason = HandlerReason
        BY DEF Mark
      <4>2. m \notin Faulty3(Everyone)
        BY <2>2, <4>1, FaultTyped DEF Faulty3
      <4>3. \E f : Pass1Fault(f) = Ambiguous
        BY <1>3, <2>2, <4>1, <4>2 DEF Faulty1
      <4> QED BY <4>3, FaultTyped
    <3> QED BY <2>2, <3>1 DEF FindingInv
  <2> QED BY <2>1, <2>2
<1> QED BY <1>7, <1>8 DEF UnrecognizedExact, Recs, Ambiguous, AmbiguousFinding

(* parse drops exactly the functions whose metadata cannot be trusted, and *)
(* none in silence, for every bundle.                                      *)
THEOREM UnrecognizedExactCorrect == Spec => []UnrecognizedExact
<1> QED BY DroppedExactly, LayoutInit, LayoutStep, ApartInit, ApartStep, SortInit, SortStep,
           FaultInit, FaultStep, FindingInit, FindingStep, PTL DEF Spec

-----------------------------------------------------------------------------
(* The selection and the accessors agree.  A layout the selection chose    *)
(* fits every header it scored; the accessors read the table the score     *)
(* was made of, so pass 3 finds nothing there.                             *)

LEMMA FitServes ==
  ASSUME file \in Bundles, large_header_layout \in Shapes, NEW f \in Fns,
         Scored(f), Fits(f, large_header_layout)
  PROVE  ~OutOfRange(f) /\ ~Capped(f)
<1> DEFINE flags == Large(f).flags[large_header_layout]
<1>1. PICK p : p = TableAt(file.fns[f].lo, large_header_layout)
  OBVIOUS
<1>2. /\ p \in Nat /\ MaxPos \in Nat /\ MaxHandlers \in Nat /\ Len(file.mem) \in Nat
      /\ Large(f).size \in 0..U32Max
  BY <1>1, BundleFacts DEF Shapes, Large
<1>3. flags.exc => TableFits(p, Large(f).size)
  BY <1>1 DEF Fits
<1>4. FunctionGet(f).exc = flags.exc /\ FunctionGet(f).size = Large(f).size
  <2>1. file.fns[f].over /\ ~Large(f).oob /\ large_header_layout # NoLayout
    BY DEF Scored, Shapes, NoLayout
  <2>2. FunctionGet(f) = [offset |-> Large(f).offset, size |-> Large(f).size, exc |-> flags.exc]
    BY <2>1 DEF FunctionGet
  <2> HIDE DEF flags
  <2> QED BY <2>2
<1> HIDE DEF flags
<1>5. CASE ~flags.exc
  <2>1. 0..(0 - 1) = {}
    OBVIOUS
  <2>2. ExceptionCount(f) = 0 /\ ~Capped(f)
    BY <1>4, <1>5 DEF ExceptionCount, Capped
  <2> QED BY <2>1, <2>2 DEF OutOfRange
<1>6. CASE flags.exc
  <2>1. /\ p <= MaxPos /\ InFile(p) /\ Word(p) <= MaxHandlers /\ SpanInFile(p)
        /\ \A h \in 0..(Word(p) - 1) : InRange(Handler(p, h), Large(f).size)
    BY <1>3, <1>6 DEF TableFits
  <2>2. PICK c \in Nat : c = Word(p)
    BY <1>2, <2>1, WordTyped
  <2>3. RuntimeTable(f) = p
    BY <1>1, <1>2, <2>1 DEF Scored, RuntimeTable, Shapes, NoLayout
  <2>4. ~Capped(f) /\ ExceptionCount(f) = c
    <3>1. ~(Word(p) > MaxHandlers)
      BY <1>2, <2>1, <2>2
    <3> QED BY <1>4, <1>6, <2>1, <2>2, <2>3, <3>1 DEF Capped, ExceptionCount
  <2>5. ASSUME NEW h \in 0..(c - 1) PROVE InRange(ExceptionGet(f, h), FunctionGet(f).size)
    <3>1. p + 4 + 3 * h <= Len(file.mem)
      BY <1>2, <2>1, <2>2 DEF SpanInFile
    <3>2. ExceptionGet(f, h) = Handler(p, h)
      BY <2>3, <3>1 DEF ExceptionGet
    <3>3. InRange(Handler(p, h), Large(f).size)
      BY <2>1, <2>2
    <3> QED BY <1>4, <3>2, <3>3
  <2> QED BY <2>4, <2>5 DEF OutOfRange
<1> QED BY <1>5, <1>6

LEMMA LayoutServes ==
  ASSUME LayoutInv, SortInv, FaultInv, FindingInv
  PROVE  SelectedLayoutServes
<1> SUFFICES ASSUME pc = "parsed", file.late98, NEW f \in Fns, file.fns[f].over
             PROVE  /\ \A n \in DOMAIN unrecognized : unrecognized[n] # Mark(f, HandlerReason)
                    /\ <<"ExceptionCountCap", f>> \notin findings
  BY DEF SelectedLayoutServes
<1>1. /\ file \in Bundles /\ large_header_layout \in Shapes \cup {NoLayout}
      /\ large_header_layout = IF tally.exhausted THEN NoLayout ELSE HonestLayout
  BY DEF LayoutInv, LayoutHonest
<1>2. Pass1Fault(f) # NoFault \/ (~OutOfRange(f) /\ ~Capped(f))
  <2>1. CASE ~Scored(f) \/ large_header_layout = NoLayout
    BY <2>1 DEF Scored, Pass1Fault, CheckedError, NoFault
  <2>2. CASE Scored(f) /\ large_header_layout # NoLayout
    <3>1. large_header_layout \in Shapes /\ large_header_layout \in Coherent
      BY <1>1, <2>2 DEF HonestLayout, Shapes
    <3>2. Fits(f, large_header_layout)
      BY <2>2, <3>1 DEF Coherent, ScoredFns
    <3> QED BY <1>1, <2>2, <3>1, <3>2, FitServes
  <2> QED BY <2>1, <2>2
<1>3. Recs(unrecognized) = Faulty1(Everyone) \cup Faulty3(Everyone)
  BY RecsOf DEF FaultInv, AllMarks
<1>4. Mark(f, HandlerReason) \notin Recs(unrecognized)
  <2>1. \A g, r, q : Mark(f, r) = Mark(g, q) => f = g /\ r = q
    BY DEF Mark
  <2>2. Mark(f, HandlerReason) \notin Faulty1(Everyone)
    BY <2>1, FaultTyped DEF Faulty1
  <2>3. Mark(f, HandlerReason) \notin Faulty3(Everyone)
    BY <1>2, <2>1 DEF Faulty3
  <2> QED BY <1>3, <2>2, <2>3
<1>5. <<"ExceptionCountCap", f>> \notin findings
  BY <1>2 DEF FindingInv
<1> QED BY <1>4, <1>5 DEF Recs

(* Under a layout the selection chose, pass 3 finds no overflowed function *)
(* with a handler outside it or with a count beyond the cap, for every     *)
(* bundle: the walk that scores a header and the accessors that read its   *)
(* table agree.                                                            *)
THEOREM SelectedLayoutServesCorrect == Spec => []SelectedLayoutServes
<1> QED BY LayoutServes, LayoutInit, LayoutStep, ApartInit, ApartStep, SortInit, SortStep,
           FaultInit, FaultStep, FindingInit, FindingStep, PTL DEF Spec

-----------------------------------------------------------------------------
(* Types.                                                                  *)

TypedMark == [fn : Fns, reason : Reasons]
TypedSpan == [fn : Fns, offset : Nat, size : Nat]

TypedInv ==
  /\ pc \in {"select", "pass1", "pass2", "pass3", "merge", "parsed"} \cup Rejected
  /\ spans \in Seq(TypedSpan)
  /\ dedup_count \in Nat
  /\ marks1 \in Seq(TypedMark) /\ marks3 \in Seq(TypedMark) /\ unrecognized \in Seq(TypedMark)

LEMMA TypedInit == Init => TypedInv
<1>1. << >> \in Seq(TypedSpan) /\ << >> \in Seq(TypedMark)
  OBVIOUS
<1> QED BY <1>1 DEF Init, TypedInv

LEMMA TypedStep == ApartInv /\ TypedInv /\ [Next]_vars => TypedInv'
<1> SUFFICES ASSUME ApartInv, TypedInv, [Next]_vars PROVE TypedInv'
  OBVIOUS
<1>1. file \in Bundles /\ (UNCHANGED file => TypedSpan' = TypedSpan /\ TypedMark' = TypedMark)
  BY DEF ApartInv, TypedSpan, TypedMark, Fns, FnCount
<1> USE DEF mark_vars, pass_vars, select_vars, Enter
<1>2. CASE KeepDefaultLayout \/ SkipHeader \/ ScoreShape \/ CompareDecodes \/ TallyScore
             \/ DecideLayout
  <2>1. /\ UNCHANGED <<file, spans, dedup_count, marks1, marks3, unrecognized>>
        /\ pc' \in {"select", "pass1"}
    BY <1>2 DEF KeepDefaultLayout, SkipHeader, ScoreShape, CompareDecodes, TallyScore,
                DecideLayout, Selecting
  <2> QED BY <1>1, <2>1 DEF TypedInv
<1>3. CASE MarkUnrecognized
  <2> DEFINE x == Mark(idx, Pass1Fault(idx))
  <2>1. /\ UNCHANGED <<file, pc, spans, dedup_count, marks3, unrecognized>>
        /\ marks1' = Append(marks1, x) /\ idx \in Fns /\ Pass1Fault(idx) # NoFault
    BY <1>3 DEF MarkUnrecognized
  <2>2. x \in TypedMark
    <3>1. Pass1Fault(idx) \in Reasons
      BY <2>1 DEF Pass1Fault, CheckedError, Reasons
    <3> QED BY <2>1, <3>1 DEF Mark, TypedMark
  <2> HIDE DEF x
  <2>3. marks1' \in Seq(TypedMark)
    BY <2>1, <2>2 DEF TypedInv
  <2> QED BY <1>1, <2>1, <2>3 DEF TypedInv
<1>4. CASE SkipEmptyBody \/ HandlersScreened
  <2>1. /\ UNCHANGED <<file, spans, dedup_count, marks1, marks3, unrecognized>>
        /\ pc' = pc \/ pc' = "merge"
    BY <1>4 DEF SkipEmptyBody, HandlersScreened
  <2> QED BY <1>1, <2>1 DEF TypedInv
<1>5. CASE CollectSpan
  <2> DEFINE d == FunctionGet(idx)
             x == [fn |-> idx, offset |-> d.offset, size |-> d.size]
  <2>1. /\ UNCHANGED <<file, dedup_count, marks1, marks3, unrecognized>>
        /\ idx \in Fns
        /\ \/ spans' = Append(spans, x) /\ pc' = pc
           \/ spans' = spans /\ pc' = "FunctionBodyOutOfBytecodeRegion"
    BY <1>5 DEF CollectSpan, Fail
  <2>2. x \in TypedSpan
    BY <1>1, <2>1, FileFacts DEF TypedSpan
  <2> HIDE DEF x
  <2>4. spans \in Seq(TypedSpan)
    BY DEF TypedInv
  <2>5. Append(spans, x) \in Seq(TypedSpan)
    BY <2>2, <2>4
  <2>3. spans' \in Seq(TypedSpan)
    BY <2>1, <2>4, <2>5
  <2> QED BY <1>1, <2>1, <2>3 DEF TypedInv, Rejected
<1>6. CASE SortSpans
  <2>1. /\ UNCHANGED <<file, dedup_count, marks1, marks3, unrecognized>> /\ pc' = "pass2"
        /\ \E r \in [DOMAIN spans -> DOMAIN spans] :
             spans' = [n \in DOMAIN spans |-> spans[r[n]]]
    BY <1>6 DEF SortSpans
  <2>2. PICK r \in [DOMAIN spans -> DOMAIN spans] :
          spans' = [n \in DOMAIN spans |-> spans[r[n]]]
    BY <2>1
  <2>3. PICK N \in Nat : DOMAIN spans = 1..N
    BY DEF TypedInv
  <2>4. \A n \in 1..N : spans[n] \in TypedSpan
    BY <2>3 DEF TypedInv
  <2>5. spans' \in [1..N -> TypedSpan]
    BY <2>2, <2>3, <2>4
  <2>6. spans' \in Seq(TypedSpan)
    BY <2>5
  <2> QED BY <1>1, <2>1, <2>6 DEF TypedInv
<1>7. CASE ComparePair \/ BodiesCompared
  <2>1. /\ UNCHANGED <<file, spans, marks1, marks3, unrecognized>>
        /\ dedup_count' \in {dedup_count, dedup_count + 1}
        /\ pc' \in {pc, "pass3"} \cup Rejected
    BY <1>7 DEF ComparePair, BodiesCompared, Fail, Rejected
  <2> QED BY <1>1, <2>1 DEF TypedInv
<1>8. CASE ScreenHandlers
  <2> DEFINE x == Mark(idx, HandlerReason)
  <2>1. /\ UNCHANGED <<file, pc, spans, dedup_count, marks1, unrecognized>>
        /\ idx \in Fns /\ marks3' \in {Append(marks3, x), marks3}
    BY <1>8 DEF ScreenHandlers
  <2>2. x \in TypedMark
    BY <2>1 DEF Mark, TypedMark, Reasons
  <2> HIDE DEF x
  <2>4. marks3 \in Seq(TypedMark)
    BY DEF TypedInv
  <2>5. Append(marks3, x) \in Seq(TypedMark)
    BY <2>2, <2>4
  <2>3. marks3' \in Seq(TypedMark)
    BY <2>1, <2>4, <2>5
  <2> QED BY <1>1, <2>1, <2>3 DEF TypedInv
<1>9. CASE MergeHeads
  <2>1. /\ UNCHANGED <<file, pc, spans, dedup_count>> /\ marks1 # << >> /\ marks3 # << >>
        /\ \/ /\ unrecognized' = Append(unrecognized, Head(marks1))
              /\ marks1' = Tail(marks1) /\ marks3' = marks3
           \/ /\ unrecognized' = Append(unrecognized, Head(marks3))
              /\ marks3' = Tail(marks3) /\ marks1' = marks1
    BY <1>9 DEF MergeHeads
  <2>3. \A s, u \in Seq(TypedMark) :
          s # << >> => Tail(s) \in Seq(TypedMark) /\ Append(u, Head(s)) \in Seq(TypedMark)
    <3> SUFFICES ASSUME NEW s \in Seq(TypedMark), NEW u \in Seq(TypedMark), s # << >>
                 PROVE  Tail(s) \in Seq(TypedMark) /\ Append(u, Head(s)) \in Seq(TypedMark)
      OBVIOUS
    <3>1. Tail(s) \in Seq(TypedMark) /\ Head(s) \in TypedMark
      OBVIOUS
    <3> QED BY <3>1
  <2>4. /\ marks1 \in Seq(TypedMark) /\ marks3 \in Seq(TypedMark)
        /\ unrecognized \in Seq(TypedMark)
    BY DEF TypedInv
  <2>2. /\ marks1' \in Seq(TypedMark) /\ marks3' \in Seq(TypedMark)
        /\ unrecognized' \in Seq(TypedMark)
    BY <2>1, <2>3, <2>4
  <2> QED BY <1>1, <2>1, <2>2 DEF TypedInv
<1>10. CASE MergeRest
  <2>1. /\ UNCHANGED <<file, spans, dedup_count>> /\ pc' = "parsed"
        /\ unrecognized' = (unrecognized \o marks1) \o marks3
        /\ marks1' = << >> /\ marks3' = << >>
    BY <1>10 DEF MergeRest
  <2>2. unrecognized' \in Seq(TypedMark) /\ << >> \in Seq(TypedMark)
    BY <2>1 DEF TypedInv
  <2> QED BY <1>1, <2>1, <2>2 DEF TypedInv
<1>11. CASE UNCHANGED vars \/ Returned
  <2>1. UNCHANGED <<file, pc, spans, dedup_count, marks1, marks3, unrecognized>>
    BY <1>11 DEF Returned, vars
  <2> QED BY <1>1, <2>1 DEF TypedInv
<1> QED BY <1>2, <1>3, <1>4, <1>5, <1>6, <1>7, <1>8, <1>9, <1>10, <1>11 DEF Next

(* Every mark and every span names a function of the table, and the budget *)
(* of the selection never goes below zero, for every bundle.               *)
THEOREM FunctionTableTypes == Spec => []TypeOK
<1>1. LayoutInv /\ ApartInv /\ TypedInv => TypeOK
  <2> SUFFICES ASSUME LayoutInv, ApartInv, TypedInv PROVE TypeOK
    OBVIOUS
  <2>1. scratch.budget \in Nat
    BY DEF LayoutInv, MemoInv, Scratch, Remembered
  <2> QED BY <2>1 DEF LayoutInv, ApartInv, TypedInv, TypeOK, TypedMark, TypedSpan
<1> QED BY <1>1, LayoutInit, LayoutStep, ApartInit, ApartStep, SortInit, SortStep, TypedInit,
           TypedStep, PTL DEF Spec

=============================================================================
