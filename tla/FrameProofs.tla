------------------------------ MODULE FrameProofs ------------------------------
(***************************************************************************)
(* Proofs about frames: whatever functions are entered, with local         *)
(* variables of any sizes, whatever is spilled and called, places are      *)
(* disjoint and within the frame.                                          *)
(***************************************************************************)
EXTENDS Frame, SequenceTheorems, TLAPS

-----------------------------------------------------------------------------
(* The operators.                                                          *)

\* Where nothing overflows an integer is what is stored.
LEMMA WrapInRange == \A x \in Int : InRange(x) => Wrap(x) = x
BY DEF Wrap

\* What is stored is an integer.
LEMMA WrapType == \A x \in Int : Wrap(x) \in Int
<1> TAKE x \in Int
<1>1. 2 * Half \in Int /\ 2 * Half > 0
    BY HalfIsPositive
<1>2. (x + Half) % (2 * Half) \in Int
    BY <1>1, HalfIsPositive
<1> QED
    BY <1>2, HalfIsPositive DEF Wrap

\* The missing bytes are few, and make the offset below the return address a
\* multiple of the alignment.
LEMMA AlignBelow ==
    ASSUME NEW x \in Int, x < 0
    PROVE  /\ Align(x) \in Int /\ 0 <= Align(x) /\ Align(x) < STACK_ALIGNMENT
           /\ (x - Align(x)) % STACK_ALIGNMENT = 0
BY DEF Align, Magnitude, STACK_ALIGNMENT
-----------------------------------------------------------------------------
(* The invariant.                                                          *)

FrameTypeOK ==
    /\ sizes \in Seq(Nat) /\ formals \in 0..Len(sizes)
    /\ places \in Seq([at : Int, size : Nat])
    /\ offset \in Int /\ max_args \in Nat /\ frame \in Int /\ wrapped \in BOOLEAN

FormalsFit == \A i \in 1..formals : sizes[i] <= SIZEOF_ARG

\* Parameters are above the frame pointer, each in the place of an argument.
ParamsPlaced ==
    \A i \in DOMAIN places : i <= formals =>
        places[i].at = param_offset + SIZEOF_ARG * (i - 1) /\ places[i].size <= SIZEOF_ARG

\* Everything else is below it and above the offset, the later the lower.
OthersStacked ==
    /\ offset <= 0
    /\ \A i \in DOMAIN places : offset <= places[i].at
    /\ \A i \in DOMAIN places : i > formals => places[i].at + places[i].size <= 0
    /\ \A i, j \in DOMAIN places : formals < i /\ i < j => Above(places[i], places[j])

\* A frame with a size is complete.
SizeFinal == frame # 0 => Placed

FrameInv ==
    /\ FrameTypeOK
    /\ FormalsFit
    /\ ~wrapped => ParamsPlaced /\ OthersStacked /\ SizeFinal /\ FrameHolds

-----------------------------------------------------------------------------

\* A place is where it is by a number, and has a number of bytes.
LEMMA PlacesType ==
    FrameInv => /\ DOMAIN places = 1..Len(places) /\ Len(places) \in Nat
                /\ \A i \in DOMAIN places : places[i].at \in Int /\ places[i].size \in Nat /\ i \in Nat /\ i > 0
<1> SUFFICES ASSUME places \in Seq([at : Int, size : Nat])
             PROVE  /\ DOMAIN places = 1..Len(places) /\ Len(places) \in Nat
                    /\ \A i \in DOMAIN places : places[i].at \in Int /\ places[i].size \in Nat /\ i \in Nat /\ i > 0
    BY DEF FrameInv, FrameTypeOK
<1>1. DOMAIN places = 1..Len(places) /\ Len(places) \in Nat
    OBVIOUS
<1>2. \A i \in 1..Len(places) : places[i] \in [at : Int, size : Nat]
    BY ElementOfSeq
<1> QED
    BY <1>1, <1>2

\* The invariant says more than that places are disjoint: two parameters have
\* places of their own, two others are one above the other, and of a parameter
\* and another the frame pointer lies in between.
LEMMA InvDisjoint == FrameInv => PlacesDisjoint
<1> SUFFICES ASSUME FrameInv, ~wrapped
             PROVE  /\ \A i, j \in DOMAIN places : i < j => Above(places[i], places[j])
                                                            \/ Above(places[j], places[i])
                    /\ \A i \in DOMAIN places : \/ places[i].at >= param_offset
                                                \/ places[i].at + places[i].size <= 0
    BY DEF PlacesDisjoint
<1>0. ParamsPlaced /\ OthersStacked /\ formals \in Nat
    BY DEF FrameInv, FrameTypeOK
<1>1. \A i \in DOMAIN places : places[i].at \in Int /\ places[i].size \in Nat /\ i \in Nat /\ i > 0
    BY PlacesType
<1>2. ASSUME NEW i \in DOMAIN places, NEW j \in DOMAIN places, i < j
      PROVE  Above(places[i], places[j]) \/ Above(places[j], places[i])
    <2>1. CASE j <= formals
        <3>1. i <= formals
            BY <1>0, <1>1, <1>2, <2>1
        <3> QED
            BY <1>0, <1>1, <1>2, <2>1, <3>1 DEF ParamsPlaced, Above, param_offset, SIZEOF_ARG, SIZEOF_REG
    <2>2. CASE i <= formals /\ j > formals
        BY <1>0, <1>1, <1>2, <2>2 DEF ParamsPlaced, OthersStacked, Above, param_offset, SIZEOF_ARG, SIZEOF_REG
    <2>3. CASE i > formals
        BY <1>0, <1>2, <2>3 DEF OthersStacked
    <2> QED
        BY <1>0, <1>1, <1>2, <2>1, <2>2, <2>3
<1>3. ASSUME NEW i \in DOMAIN places
      PROVE  \/ places[i].at >= param_offset
             \/ places[i].at + places[i].size <= 0
    BY <1>0, <1>1 DEF ParamsPlaced, OthersStacked, param_offset, SIZEOF_ARG, SIZEOF_REG
<1> QED
    BY <1>2, <1>3

-----------------------------------------------------------------------------
(* The steps.                                                              *)

\* What there is after a place was added.
LEMMA Extended ==
    ASSUME FrameInv, NEW q \in [at : Int, size : Nat], places' = Append(places, q)
    PROVE  /\ places' \in Seq([at : Int, size : Nat])
           /\ DOMAIN places' = (DOMAIN places) \cup {Len(places) + 1}
           /\ Len(places') = Len(places) + 1
           /\ \A i \in DOMAIN places : places'[i] = places[i] /\ i <= Len(places)
           /\ places'[Len(places) + 1] = q
<1>1. places \in Seq([at : Int, size : Nat])
    BY DEF FrameInv, FrameTypeOK
<1>2. DOMAIN places = 1..Len(places) /\ Len(places) \in Nat
    BY PlacesType
<1>3. /\ places' \in Seq([at : Int, size : Nat])
      /\ Len(places') = Len(places) + 1
      /\ \A i \in 1..Len(places) : places'[i] = places[i]
      /\ places'[Len(places) + 1] = q
    BY <1>1, AppendProperties
<1>4. DOMAIN places' = 1..(Len(places) + 1)
    BY <1>3
<1> QED
    BY <1>2, <1>3, <1>4

\* A local variable or a temporary is put right below all others.
LEMMA StackedBelow ==
    ASSUME FrameInv, ~wrapped, NEW size \in Nat, Len(places) >= formals, UNCHANGED formals,
           offset' = offset - size, places' = Append(places, Place(offset', size))
    PROVE  ParamsPlaced' /\ OthersStacked'
<1> DEFINE q == Place(offset', size)
           new == Len(places) + 1
<1>1. /\ ParamsPlaced /\ OthersStacked
      /\ offset \in Int /\ formals \in Nat /\ Len(places) \in Nat
    BY PlacesType DEF FrameInv, FrameTypeOK
<1>2. q \in [at : Int, size : Nat] /\ q.at = offset - size /\ q.size = size
    BY <1>1 DEF Place
<1>3. /\ DOMAIN places' = (DOMAIN places) \cup {new}
      /\ \A i \in DOMAIN places : places'[i] = places[i] /\ i <= Len(places)
      /\ places'[new] = q
    BY <1>2, Extended
<1>4. \A i \in DOMAIN places : places[i].at \in Int /\ places[i].size \in Nat /\ i \in Nat /\ i > 0
    BY PlacesType
<1>5. new > formals /\ new \in Nat
    BY <1>1
<1> HIDE DEF q, new
<1>6. ParamsPlaced'
    BY <1>1, <1>3, <1>4, <1>5 DEF ParamsPlaced
<1>7. (offset <= 0)'
    BY <1>1 DEF OthersStacked
<1>8. (\A i \in DOMAIN places : offset <= places[i].at)'
    BY <1>1, <1>2, <1>3, <1>4 DEF OthersStacked
<1>9. (\A i \in DOMAIN places : i > formals => places[i].at + places[i].size <= 0)'
    BY <1>1, <1>2, <1>3, <1>4 DEF OthersStacked
<1>10. (\A i, j \in DOMAIN places : formals < i /\ i < j => Above(places[i], places[j]))'
    <2> SUFFICES ASSUME NEW i \in DOMAIN places', NEW j \in DOMAIN places', formals < i, i < j
                 PROVE  Above(places'[i], places'[j])
        BY <1>1 DEF Above
    <2>1. i \in DOMAIN places
        BY <1>1, <1>3, <1>4 DEF new
    <2>2. CASE j \in DOMAIN places
        BY <1>1, <1>3, <2>1, <2>2 DEF OthersStacked
    <2>3. CASE j = new
        BY <1>1, <1>2, <1>3, <1>4, <2>1, <2>3 DEF OthersStacked, Above
    <2> QED
        BY <1>3, <2>2, <2>3
<1> QED
    BY <1>6, <1>7, <1>8, <1>9, <1>10 DEF OthersStacked

\* A function that is entered has no places yet.
LEMMA EnterKeeps == FrameInv /\ EnterAny => FrameInv'
<1> SUFFICES ASSUME EnterAny
             PROVE  FrameInv'
    OBVIOUS
<1>1. /\ sizes' \in Seq(Nat) /\ formals' \in 0..Len(sizes') /\ wrapped' \in BOOLEAN
      /\ \A i \in 1..formals' : sizes'[i] <= SIZEOF_ARG
      /\ places' = <<>> /\ offset' = 0 /\ max_args' = 0 /\ frame' = 0
    BY DEF EnterAny, Enter
<1>2. FrameTypeOK'
    BY <1>1 DEF FrameTypeOK
<1>3. FormalsFit'
    BY <1>1 DEF FormalsFit
<1>4. DOMAIN places' = {}
    BY <1>1
<1>5. ParamsPlaced' /\ OthersStacked' /\ SizeFinal' /\ FrameHolds'
    BY <1>1, <1>4 DEF ParamsPlaced, OthersStacked, SizeFinal, FrameHolds
<1> QED
    BY <1>2, <1>3, <1>5 DEF FrameInv

\* A parameter gets the place of its argument, a local variable the next one
\* below.
LEMMA SymbolKeeps == FrameInv /\ PlaceSymbol => FrameInv'
<1> SUFFICES ASSUME FrameInv, PlaceSymbol
             PROVE  FrameInv'
    OBVIOUS
<1> DEFINE i == Len(places) + 1
           below == offset - sizes[i]
<1>0. FrameTypeOK /\ FormalsFit
    BY DEF FrameInv
<1>1. /\ sizes \in Seq(Nat) /\ formals \in Nat /\ formals <= Len(sizes) /\ offset \in Int
      /\ max_args \in Nat /\ frame \in Int /\ wrapped \in BOOLEAN /\ Len(sizes) \in Nat
    BY <1>0 DEF FrameTypeOK
<1>2. /\ DOMAIN places = 1..Len(places) /\ Len(places) \in Nat
      /\ Len(places) < Len(sizes)
    BY <1>1, PlacesType DEF PlaceSymbol, Placed
<1>3. i \in 1..Len(sizes) /\ sizes[i] \in Nat
    <2>1. i \in 1..Len(sizes)
        BY <1>1, <1>2
    <2> QED
        BY <1>1, <2>1, ElementOfSeq
<1>4. UNCHANGED <<sizes, formals, max_args, frame>>
    BY DEF PlaceSymbol
<1>5. FormalsFit'
    BY <1>0, <1>4 DEF FormalsFit
<1>6. ~wrapped => SizeFinal' /\ FrameHolds'
    <2>1. ~wrapped => frame = 0
        BY <1>1, <1>2 DEF FrameInv, SizeFinal, Placed
    <2> QED
        BY <2>1, <1>4 DEF SizeFinal, FrameHolds
<1>7. CASE i <= formals
    <2> DEFINE q == Place(param_offset + SIZEOF_ARG * (i - 1), sizes[i])
    <2>1. places' = Append(places, q) /\ UNCHANGED <<offset, wrapped>>
        BY <1>7 DEF PlaceSymbol
    <2>2. /\ q \in [at : Int, size : Nat]
          /\ q.at = param_offset + SIZEOF_ARG * (i - 1) /\ q.size = sizes[i] /\ q.at >= 0
        BY <1>2, <1>3 DEF Place, param_offset, SIZEOF_ARG, SIZEOF_REG
    <2>3. /\ places' \in Seq([at : Int, size : Nat])
          /\ DOMAIN places' = (DOMAIN places) \cup {i}
          /\ \A k \in DOMAIN places : places'[k] = places[k] /\ k <= Len(places)
          /\ places'[i] = q
        BY <2>1, <2>2, Extended
    <2>4. FrameTypeOK'
        BY <1>0, <1>4, <2>1, <2>3 DEF FrameTypeOK
    <2>5. sizes[i] <= SIZEOF_ARG
        BY <1>0, <1>2, <1>3, <1>7 DEF FormalsFit
    <2> HIDE DEF q
    <2>6. ~wrapped => ParamsPlaced'
        BY <1>4, <2>2, <2>3, <2>5 DEF FrameInv, ParamsPlaced
    <2>7. ~wrapped => OthersStacked'
        <3> SUFFICES ASSUME OthersStacked
                     PROVE  OthersStacked'
            BY DEF FrameInv
        <3>1. \A k \in DOMAIN places' : k <= formals \/ k \in DOMAIN places
            BY <1>7, <2>3
        <3>2. \A k \in DOMAIN places' : k <= i /\ k \in Nat
            BY <1>2, <2>3
        <3>3. (\A k \in DOMAIN places : k > formals => places[k].at + places[k].size <= 0)'
            BY <1>1, <1>2, <1>4, <1>7, <3>2
        <3>4. (\A k, l \in DOMAIN places : formals < k /\ k < l => Above(places[k], places[l]))'
            BY <1>1, <1>2, <1>4, <1>7, <3>2
        <3>5. offset' <= 0 /\ (\A k \in DOMAIN places : offset <= places[k].at)'
            BY <1>1, <2>1, <2>2, <2>3 DEF OthersStacked
        <3> QED
            BY <3>3, <3>4, <3>5 DEF OthersStacked
    <2> QED
        BY <1>5, <1>6, <2>1, <2>4, <2>6, <2>7 DEF FrameInv
<1>8. CASE ~(i <= formals)
    <2>1. /\ offset' = Wrap(below)
          /\ wrapped' = (wrapped \/ ~InRange(below))
          /\ places' = Append(places, Place(offset', sizes[i]))
        BY <1>8 DEF PlaceSymbol
    <2>2. below \in Int /\ offset' \in Int
        <3>1. below \in Int
            BY <1>1, <1>3
        <3> HIDE DEF below
        <3> QED
            BY <2>1, <3>1, WrapType
    <2>3. Place(offset', sizes[i]) \in [at : Int, size : Nat]
        BY <1>3, <2>2 DEF Place
    <2>4. places' \in Seq([at : Int, size : Nat])
        BY <2>1, <2>3, Extended
    <2>5. wrapped' \in BOOLEAN
        BY <2>1
    <2>6. FrameTypeOK'
        BY <1>0, <1>4, <2>2, <2>4, <2>5 DEF FrameTypeOK
    <2>7. ASSUME ~wrapped'
          PROVE  ParamsPlaced' /\ OthersStacked' /\ SizeFinal' /\ FrameHolds'
        <3>1. ~wrapped /\ InRange(below)
            BY <2>1, <2>7
        <3>2. offset' = offset - sizes[i]
            BY <2>1, <2>2, <3>1, WrapInRange
        <3>3. Len(places) >= formals
            BY <1>1, <1>2, <1>8
        <3> HIDE DEF i, below
        <3> QED
            BY <1>3, <1>4, <1>6, <2>1, <3>1, <3>2, <3>3, StackedBelow
    <2> QED
        BY <1>5, <2>6, <2>7 DEF FrameInv
<1> QED
    BY <1>7, <1>8

\* A temporary is put below everything else.
LEMMA TempKeeps == FrameInv /\ PlaceTemp => FrameInv'
<1> SUFFICES ASSUME FrameInv, PlaceTemp
             PROVE  FrameInv'
    OBVIOUS
<1> DEFINE below == offset - SIZEOF_INT
<1>0. FrameTypeOK /\ FormalsFit
    BY DEF FrameInv
<1>1. /\ sizes \in Seq(Nat) /\ formals \in Nat /\ formals <= Len(sizes) /\ offset \in Int
      /\ max_args \in Nat /\ frame \in Int /\ wrapped \in BOOLEAN /\ Len(sizes) \in Nat
    BY <1>0 DEF FrameTypeOK
<1>2. Len(places) \in Nat
    BY PlacesType
<1>3. /\ Len(places) >= Len(sizes) /\ frame = 0
      /\ offset' = Wrap(below)
      /\ wrapped' = (wrapped \/ ~InRange(below))
      /\ places' = Append(places, Place(offset', SIZEOF_INT))
      /\ UNCHANGED <<sizes, formals, max_args, frame>>
    BY DEF PlaceTemp, Placed
<1>4. below \in Int /\ SIZEOF_INT \in Nat
    BY <1>1 DEF SIZEOF_INT
<1>5. offset' \in Int
    <2> HIDE DEF below
    <2> QED
        BY <1>3, <1>4, WrapType
<1>6. places' \in Seq([at : Int, size : Nat])
    <2>1. Place(offset', SIZEOF_INT) \in [at : Int, size : Nat]
        BY <1>4, <1>5 DEF Place
    <2> QED
        BY <1>3, <2>1, Extended
<1>7. wrapped' \in BOOLEAN
    BY <1>3
<1>8. FrameTypeOK'
    BY <1>0, <1>3, <1>5, <1>6, <1>7 DEF FrameTypeOK
<1>9. FormalsFit'
    BY <1>0, <1>3 DEF FormalsFit
<1>10. ASSUME ~wrapped'
       PROVE  ParamsPlaced' /\ OthersStacked' /\ SizeFinal' /\ FrameHolds'
    <2>1. ~wrapped /\ InRange(below)
        BY <1>3, <1>10
    <2>2. offset' = offset - SIZEOF_INT
        BY <1>3, <1>4, <2>1, WrapInRange
    <2>3. Len(places) >= formals
        BY <1>1, <1>2, <1>3
    <2>4. ParamsPlaced' /\ OthersStacked'
        BY <1>3, <1>4, <2>1, <2>2, <2>3, StackedBelow
    <2>5. SizeFinal' /\ FrameHolds'
        BY <1>3 DEF SizeFinal, FrameHolds
    <2> QED
        BY <2>4, <2>5
<1> QED
    BY <1>8, <1>9, <1>10 DEF FrameInv

\* The room for arguments grows, places stay.
LEMMA PassKeeps == FrameInv /\ PassAny => FrameInv'
<1> SUFFICES ASSUME FrameInv, PassAny
             PROVE  FrameInv'
    OBVIOUS
<1>1. /\ max_args' \in Nat /\ frame = 0
      /\ UNCHANGED <<sizes, formals, places, offset, frame, wrapped>>
    BY DEF PassAny, PassArguments
<1>2. FrameTypeOK' /\ FormalsFit'
    BY <1>1 DEF FrameInv, FrameTypeOK, FormalsFit
<1>3. ~wrapped' => ParamsPlaced' /\ OthersStacked' /\ SizeFinal' /\ FrameHolds'
    BY <1>1 DEF FrameInv, ParamsPlaced, OthersStacked, Above, SizeFinal, FrameHolds
<1> QED
    BY <1>2, <1>3 DEF FrameInv

\* The room for arguments and the alignment are added below the lowest place.
LEMMA FixKeeps == FrameInv /\ FixSize => FrameInv'
<1> SUFFICES ASSUME FrameInv, FixSize
             PROVE  FrameInv'
    OBVIOUS
<1> DEFINE below == offset - max_args * SIZEOF_ARG
           lowest == Wrap(below)
           aligned == lowest - Align(lowest - param_offset)
<1>0. FrameTypeOK /\ FormalsFit
    BY DEF FrameInv
<1>1. offset \in Int /\ max_args \in Nat /\ wrapped \in BOOLEAN
    BY <1>0 DEF FrameTypeOK
<1>2. /\ Placed
      /\ offset' = Wrap(aligned)
      /\ wrapped' = (wrapped \/ ~InRange(below) \/ ~InRange(aligned))
      /\ frame' = -offset'
      /\ UNCHANGED <<sizes, formals, places, max_args>>
    BY DEF FixSize
<1>3. below \in Int /\ below <= offset /\ max_args * SIZEOF_ARG \in Nat
    BY <1>1 DEF SIZEOF_ARG, SIZEOF_REG
<1>4. lowest \in Int
    <2> HIDE DEF below
    <2> QED
        BY <1>3, WrapType DEF lowest
<1>5. Align(lowest - param_offset) \in Int
    BY <1>4 DEF Align, Magnitude, STACK_ALIGNMENT, param_offset, SIZEOF_REG
<1>6. aligned \in Int
    BY <1>4, <1>5
<1>7. offset' \in Int
    <2> HIDE DEF aligned
    <2> QED
        BY <1>2, <1>6, WrapType
<1>8. FrameTypeOK' /\ FormalsFit'
    BY <1>0, <1>2, <1>7 DEF FrameTypeOK, FormalsFit
<1>9. ASSUME ~wrapped'
      PROVE  ParamsPlaced' /\ OthersStacked' /\ SizeFinal' /\ FrameHolds'
    <2>1. ~wrapped /\ InRange(below) /\ InRange(aligned)
        BY <1>2, <1>9
    <2>2. ParamsPlaced /\ OthersStacked
        BY <2>1 DEF FrameInv
    <2>3. lowest = below
        <3> HIDE DEF below
        <3> QED
            BY <1>3, <2>1, WrapInRange DEF lowest
    <2>4. offset' = aligned
        <3> HIDE DEF aligned
        <3> QED
            BY <1>2, <1>6, <2>1, WrapInRange
    <2>5. lowest <= 0
        BY <1>1, <1>3, <2>2, <2>3 DEF OthersStacked
    <2>6. /\ 0 <= Align(lowest - param_offset)
          /\ ((lowest - param_offset) - Align(lowest - param_offset)) % STACK_ALIGNMENT = 0
        <3>1. lowest - param_offset \in Int /\ lowest - param_offset < 0
            BY <1>4, <2>5 DEF param_offset, SIZEOF_REG
        <3> HIDE DEF lowest
        <3> QED
            BY <3>1, AlignBelow
    <2>7. offset' <= below
        BY <1>4, <1>5, <2>3, <2>4, <2>6
    <2> HIDE DEF below
    <2>8. \A i \in DOMAIN places : places[i].at \in Int
        BY PlacesType
    <2>9. ParamsPlaced'
        BY <1>2, <2>2 DEF ParamsPlaced
    <2>10. OthersStacked'
        BY <1>1, <1>2, <1>3, <1>7, <2>2, <2>7, <2>8 DEF OthersStacked, Above
    <2>11. SizeFinal'
        BY <1>2 DEF SizeFinal, Placed
    <2>12. \A i \in DOMAIN places : places[i].at >= max_args * SIZEOF_ARG + offset'
        BY <1>1, <1>3, <1>7, <2>2, <2>7, <2>8 DEF OthersStacked, below
    <2>13. (frame' + param_offset) % STACK_ALIGNMENT = 0
        <3> DEFINE y == (lowest - param_offset) - Align(lowest - param_offset)
        <3>1. y \in Int /\ y % STACK_ALIGNMENT = 0 /\ offset' - param_offset = y
            BY <1>4, <1>5, <2>4, <2>6 DEF param_offset, SIZEOF_REG
        <3>2. frame' + param_offset = -y
            BY <1>2, <1>7, <3>1 DEF param_offset, SIZEOF_REG
        <3> HIDE DEF y
        <3> QED
            BY <3>1, <3>2 DEF STACK_ALIGNMENT
    <2>14. FrameHolds'
        BY <1>1, <1>2, <1>3, <1>7, <2>8, <2>12, <2>13 DEF FrameHolds
    <2> QED
        BY <2>9, <2>10, <2>11, <2>14
<1> QED
    BY <1>8, <1>9 DEF FrameInv

-----------------------------------------------------------------------------

\* Parameters have the places the caller put them, everything else is stacked
\* below the saved frame pointer, and a size that is printed is final, in any
\* history of functions, spills and calls.
THEOREM FrameInvariant == FrameSpec => []FrameInv
<1>1. FrameInit => FrameInv
    <2> SUFFICES ASSUME FrameInit
                 PROVE  FrameInv
        OBVIOUS
    <2>1. /\ sizes = <<>> /\ formals = 0 /\ places = <<>> /\ offset = 0
          /\ max_args = 0 /\ frame = 0 /\ wrapped = FALSE
        BY DEF FrameInit, NoFrame
    <2>2. FrameTypeOK
        <3>1. /\ sizes \in Seq(Nat) /\ Len(sizes) = 0
              /\ places \in Seq([at : Int, size : Nat])
            BY <2>1
        <3>2. formals \in 0..Len(sizes) /\ offset \in Int /\ max_args \in Nat /\ frame \in Int
            BY <2>1, <3>1
        <3>3. wrapped \in BOOLEAN
            BY <2>1
        <3> QED
            BY <3>1, <3>2, <3>3 DEF FrameTypeOK
    <2>3. FormalsFit
        BY <2>1 DEF FormalsFit
    <2>4. ParamsPlaced /\ OthersStacked /\ SizeFinal /\ FrameHolds
        BY <2>1 DEF ParamsPlaced, OthersStacked, SizeFinal, FrameHolds
    <2> QED
        BY <2>2, <2>3, <2>4 DEF FrameInv
<1>2. FrameInv /\ [FrameNext]_frameVars => FrameInv'
    <2>1. FrameInv /\ UNCHANGED frameVars => FrameInv'
        BY DEF frameVars, FrameInv, FrameTypeOK, FormalsFit, ParamsPlaced, OthersStacked,
               Above, SizeFinal, Placed, FrameHolds
    <2> QED
        BY <2>1, EnterKeeps, SymbolKeeps, TempKeeps, PassKeeps, FixKeeps DEF FrameNext
<1> QED
    BY <1>1, <1>2, PTL DEF FrameSpec

\* PlacesDisjoint (generator.cpp: operand, generateFunction): parameters, local
\* variables and spilled temporaries never overlap each other, the saved frame
\* pointer or the return address.
THEOREM PlacesAlwaysDisjoint == FrameSpec => []PlacesDisjoint
BY FrameInvariant, InvDisjoint, PTL

\* FrameHolds (generator.cpp: the epilogue): everything in the frame lies above
\* the room for the arguments of any call, and the stack is aligned at calls.
THEOREM FrameAlwaysHolds == FrameSpec => []FrameHolds
<1>1. FrameInv => FrameHolds
    BY DEF FrameInv, FrameHolds
<1> QED
    BY <1>1, FrameInvariant, PTL
=============================================================================
