-------------------------------- MODULE Frame --------------------------------
(***************************************************************************)
(* The layout of a function's frame while its code is generated            *)
(* (generator.cpp: generateFunction, operand).  The prologue gives a place *)
(* to the parameters and the local variables, in the order of the scope;   *)
(* operand gives one to a temporary when it is first spilled; calls need   *)
(* room for their arguments at the bottom of the frame; the epilogue fixes *)
(* the size.  Offsets are relative to the frame pointer, which points to   *)
(* its saved value and, above it, the return address.                      *)
(***************************************************************************)
EXTENDS Machine, Sequences

VARIABLES
    sizes,      \* the sizes of the parameters and local variables in bytes
    formals,    \* how many of them are parameters (num_formals)
    places,     \* what has a place so far: where, and its size
    offset,     \* the lowest offset that is in use
    max_args,   \* the largest number of arguments of a call
    frame,      \* the size of the frame that is printed, or 0
    wrapped     \* history: an offset or a size did not fit in an integer

frameVars == <<sizes, formals, places, offset, max_args, frame, wrapped>>

param_offset == SIZEOF_REG * 2

Magnitude(x) == IF x < 0 THEN -x ELSE x

\* The bytes that are missing to the next multiple of the alignment.
Align(x) == IF x % STACK_ALIGNMENT = 0 THEN 0
            ELSE STACK_ALIGNMENT - (Magnitude(x) % STACK_ALIGNMENT)

Place(at, size) == [at |-> at, size |-> size]

Placed == Len(places) >= Len(sizes)

-----------------------------------------------------------------------------

NoFrame ==
    /\ sizes = <<>> /\ formals = 0 /\ places = <<>> /\ offset = 0
    /\ max_args = 0 /\ frame = 0 /\ wrapped = FALSE

\* A function with these parameters and local variables is entered.
Enter(s, n, overflow) ==
    /\ sizes' = s /\ formals' = n /\ places' = <<>> /\ offset' = 0
    /\ max_args' = 0 /\ frame' = 0 /\ wrapped' = overflow

\* Mutation: parameters are placed by their own sizes.
PlaceSymbolBySize ==
    LET i == Len(places) + 1
        below == offset - sizes[i]
    IN  /\ ~Placed
        /\ IF i <= formals
           THEN /\ places' = Append(places, Place(param_offset + sizes[i] * (i - 1), sizes[i]))
                /\ UNCHANGED <<offset, wrapped>>
           ELSE /\ offset' = Wrap(below)
                /\ wrapped' = (wrapped \/ ~InRange(below))
                /\ places' = Append(places, Place(offset', sizes[i]))
        /\ UNCHANGED <<sizes, formals, max_args, frame>>

\* One turn of the loop of the prologue.
PlaceSymbol ==
    LET i == Len(places) + 1
        below == offset - sizes[i]
    IN  /\ ~Placed
        /\ IF i <= formals
           THEN /\ places' = Append(places, Place(param_offset + SIZEOF_ARG * (i - 1), sizes[i]))
                /\ UNCHANGED <<offset, wrapped>>
           ELSE /\ offset' = Wrap(below)
                /\ wrapped' = (wrapped \/ ~InRange(below))
                /\ places' = Append(places, Place(offset', sizes[i]))
        /\ UNCHANGED <<sizes, formals, max_args, frame>>

\* operand is asked for the place of a temporary that has none.
PlaceTemp ==
    LET below == offset - SIZEOF_INT
    IN  /\ Placed /\ frame = 0
        /\ offset' = Wrap(below)
        /\ wrapped' = (wrapped \/ ~InRange(below))
        /\ places' = Append(places, Place(offset', SIZEOF_INT))
        /\ UNCHANGED <<sizes, formals, max_args, frame>>

\* A call with n arguments is generated.
PassArguments(n) ==
    /\ Placed /\ frame = 0
    /\ max_args' = IF n > max_args THEN n ELSE max_args
    /\ UNCHANGED <<sizes, formals, places, offset, frame, wrapped>>

\* Mutation: what lies above the frame pointer is not taken into account.
FixSizeOfFrameAlone ==
    LET below == offset - max_args * SIZEOF_ARG
        lowest == Wrap(below)
        aligned == lowest - Align(lowest)
    IN  /\ Placed /\ frame = 0
        /\ offset' = Wrap(aligned)
        /\ wrapped' = (wrapped \/ ~InRange(below) \/ ~InRange(aligned))
        /\ frame' = -offset'
        /\ UNCHANGED <<sizes, formals, places, max_args>>

\* The epilogue: the size of the frame is known at last.
FixSize ==
    LET below == offset - max_args * SIZEOF_ARG
        lowest == Wrap(below)
        aligned == lowest - Align(lowest - param_offset)
    IN  /\ Placed /\ frame = 0
        /\ offset' = Wrap(aligned)
        /\ wrapped' = (wrapped \/ ~InRange(below) \/ ~InRange(aligned))
        /\ frame' = -offset'
        /\ UNCHANGED <<sizes, formals, places, max_args>>

-----------------------------------------------------------------------------
(* Frames by themselves: any function is entered, again and again, temporaries *)
(* are spilled and calls generated in any order, and the size fixed at the end. *)

EnterAny ==
    /\ sizes' \in Seq(Nat) /\ formals' \in 0..Len(sizes') /\ wrapped' \in BOOLEAN
    /\ \A i \in 1..formals' : sizes'[i] <= SIZEOF_ARG
    /\ Enter(sizes', formals', wrapped')

PassAny == max_args' \in Nat /\ PassArguments(max_args')

FrameInit == NoFrame

FrameNext == EnterAny \/ PlaceSymbol \/ PlaceTemp \/ PassAny \/ FixSize

FrameSpec == FrameInit /\ [][FrameNext]_frameVars

-----------------------------------------------------------------------------
(* Properties, for frames whose offsets fit in an integer.                 *)

Above(p, q) == q.at + q.size <= p.at

\* No two places overlap, and none the saved frame pointer or the return
\* address, wherever temporaries are spilled.
PlacesDisjoint ==
    ~wrapped =>
        /\ \A i, j \in DOMAIN places : i < j => Above(places[i], places[j])
                                                \/ Above(places[j], places[i])
        /\ \A i \in DOMAIN places : \/ places[i].at >= param_offset
                                    \/ places[i].at + places[i].size <= 0

\* The frame holds every local variable and spilled temporary above the room
\* for the arguments of any call, and leaves the stack aligned at calls.
FrameHolds ==
    frame # 0 /\ ~wrapped =>
        /\ \A i \in DOMAIN places : places[i].at >= max_args * SIZEOF_ARG - frame
        /\ (frame + param_offset) % STACK_ALIGNMENT = 0
=============================================================================
