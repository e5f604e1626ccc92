--------------------------- MODULE GeneratorProofs ---------------------------
(***************************************************************************)
(* Theorems about the code generator, for any sets of symbols.  Its types  *)
(* are right and its descriptors agree whatever statements it is given and *)
(* in whatever blocks their temporaries live.  It is correct for those the *)
(* translator produces within basic blocks: when a temporary is used at    *)
(* most once, and in the block that defines it, every emitted instruction  *)
(* reads the current values of its operands.                               *)
(***************************************************************************)
EXTENDS Generator, SequenceTheorems, TLAPS

-----------------------------------------------------------------------------
(* What the primitives of the register allocator preserve, whatever the    *)
(* machine they start from.                                                *)

\* A machine of the right type whose descriptors agree.
Coherent(n) == n \in Machine /\ Agree(n)

MaybeSymbol == Symbols \cup {None}
MaybeRegister == Registers \cup {None}

\* A null pointer is neither a symbol nor a register.
LEMMA NullDistinct == None \notin Symbols /\ None \notin Registers
BY NoneIsNull

\* The compiler starts a function with nothing in a register.
LEMMA EmptyCoherent == Coherent(Empty)
BY NullDistinct DEF Coherent, Empty, Machine, Agree

\* assign moves a symbol to a register (or either of them to nothing) and
\* leaves no half of the descriptors behind (generator.cpp, assign).
LEMMA AssignCoherent ==
    ASSUME NEW n, Coherent(n), NEW s \in MaybeSymbol, NEW r \in MaybeRegister,
           r = None => s = None
    PROVE  Coherent(Assign(n, s, r))
<1> DEFINE p == PointSymbol(n, s, r)
           q == PointRegister(p, s, r)
<1>1. n \in Machine /\ n.sym \in [Registers -> MaybeSymbol]
                    /\ n.reg \in [Symbols -> MaybeRegister]
  BY DEF Coherent, Machine, MaybeSymbol, MaybeRegister
<1>2. p \in Machine
  BY <1>1, NullDistinct DEF Machine, PointSymbol, MaybeSymbol, MaybeRegister
<1>3. q \in Machine
  BY <1>2, NullDistinct DEF Machine, PointRegister, MaybeSymbol, MaybeRegister
<1>4. ASSUME NEW a \in Registers, NEW x \in Symbols
      PROVE  q.sym[a] = x <=> q.reg[x] = a
  <2>1. n.sym[a] = x <=> n.reg[x] = a
    BY DEF Coherent, Agree
  <2>2. p.sym[a] = (IF s # None /\ a = n.reg[s] THEN None ELSE n.sym[a])
    BY <1>1 DEF PointSymbol, Machine
  <2>3. p.reg[x] = (IF s # None /\ x = s THEN r ELSE n.reg[x])
    BY <1>1 DEF PointSymbol, Machine
  <2>4. q.sym[a] = (IF r # None /\ a = r THEN s ELSE p.sym[a])
    BY <1>2 DEF PointRegister, Machine
  <2>5. q.reg[x] = (IF r # None /\ x = p.sym[r] THEN None ELSE p.reg[x])
    BY <1>2 DEF PointRegister, Machine
  <2>6. r # None => p.sym[r] = (IF s # None /\ r = n.reg[s] THEN None ELSE n.sym[r])
    BY <1>1 DEF PointSymbol, Machine, MaybeRegister
  <2>7. s # None => r # None
    OBVIOUS
  <2> QED
    BY <1>1, <2>1, <2>2, <2>3, <2>4, <2>5, <2>6, <2>7, NullDistinct
       DEF Coherent, Agree, MaybeSymbol, MaybeRegister
<1> QED
  BY <1>3, <1>4 DEF Assign, Coherent, Agree

\* Giving a register up, whether or not it belongs to a symbol.
LEMMA DeallocateCoherent ==
    ASSUME NEW n, Coherent(n), NEW r \in MaybeRegister
    PROVE  Coherent(Deallocate(n, r))
BY AssignCoherent DEF Deallocate, MaybeSymbol

\* The descriptors of a coherent machine have these ranges.
LEMMA CoherentRanges ==
    ASSUME NEW n, Coherent(n)
    PROVE  /\ \A r \in Registers : n.sym[r] \in MaybeSymbol
           /\ \A s \in Symbols : n.reg[s] \in MaybeRegister
BY DEF Coherent, Machine, MaybeSymbol, MaybeRegister

LEMMA ReleaseCoherent ==
    ASSUME NEW n, Coherent(n), NEW s \in Symbols
    PROVE  Coherent(Release(n, s))
BY DeallocateCoherent, CoherentRanges DEF Release

\* The emitted data transfers change what the program's registers and memory
\* contain, never the descriptors.
LEMMA LoadIntoCoherent ==
    ASSUME NEW n, Coherent(n), NEW s \in Symbols, NEW r \in MaybeRegister
    PROVE  Coherent(LoadInto(n, s, r))
BY DEF Coherent, Agree, Machine, LoadInto

LEMMA MoveCoherent ==
    ASSUME NEW n, Coherent(n), NEW q \in Registers, NEW r \in MaybeRegister
    PROVE  Coherent(Move(n, q, r))
BY DEF Coherent, Agree, Machine, Move

LEMMA StoreCoherent ==
    ASSUME NEW n, Coherent(n), NEW s \in Symbols, NEW r \in MaybeRegister
    PROVE  Coherent(Store(n, r, s))
BY DEF Coherent, Agree, Machine, Store

LEMMA ReadOperandsCoherent ==
    ASSUME NEW n, Coherent(n), NEW operands \in SUBSET Symbols
    PROVE  Coherent(ReadOperands(n, operands))
BY DEF Coherent, Agree, Machine, ReadOperands

LEMMA ReadHomeCoherent ==
    ASSUME NEW n, Coherent(n), NEW s \in Symbols
    PROVE  Coherent(ReadHome(n, s))
BY DEF Coherent, Agree, Machine, ReadHome

LEMMA ReadRegisterCoherent ==
    ASSUME NEW n, Coherent(n), NEW s \in Symbols, NEW r \in MaybeRegister
    PROVE  Coherent(ReadRegister(n, s, r))
BY DEF Coherent, Agree, Machine, ReadRegister

LEMMA ClobberCoherent ==
    ASSUME NEW n, Coherent(n), NEW r \in MaybeRegister
    PROVE  Coherent(Clobber(n, r))
BY DEF Coherent, Agree, Machine, Clobber

LEMMA DefineCoherent ==
    ASSUME NEW n, Coherent(n), NEW s \in Symbols, NEW r \in MaybeRegister
    PROVE  Coherent(Define(n, s, r))
<1> DEFINE v == [p \in Registers |-> IF p = r THEN {s} ELSE n.rv[p] \ {s}]
           d == Define(n, s, r)
<1>1. n \in Machine
  BY DEF Coherent
<1>2. v \in [Registers -> SUBSET Symbols]
  BY <1>1 DEF Machine
<1>3. d = [n EXCEPT !.rv = v, !.mv = @ \ {s}] /\ d.sym = n.sym /\ d.reg = n.reg
  BY <1>1 DEF Define, Machine
<1> HIDE DEF v, d
<1>4. d \in Machine
  BY <1>1, <1>2, <1>3 DEF Machine
<1> QED
  BY <1>3, <1>4 DEF Coherent, Agree, d

LEMMA DefineAsCoherent ==
    ASSUME NEW n, Coherent(n), NEW s \in Symbols, NEW t \in Symbols
    PROVE  Coherent(DefineAs(n, s, t))
<1> DEFINE v == [p \in Registers |->
                    IF t \in n.rv[p] THEN n.rv[p] \cup {s} ELSE n.rv[p] \ {s}]
           d == DefineAs(n, s, t)
<1>1. n \in Machine
  BY DEF Coherent
<1>2. v \in [Registers -> SUBSET Symbols]
  BY <1>1 DEF Machine
<1>3. /\ d = IF s = t THEN n ELSE [n EXCEPT !.rv = v, !.mv = @ \ {s}]
      /\ d.sym = n.sym /\ d.reg = n.reg
  BY <1>1 DEF DefineAs, Machine
<1> HIDE DEF v, d
<1>4. d \in Machine
  BY <1>1, <1>2, <1>3 DEF Machine
<1> QED
  BY <1>3, <1>4 DEF Coherent, Agree, d

\* A spilled register belongs to nobody afterwards.
LEMMA SpillCoherent ==
    ASSUME NEW n, Coherent(n), NEW r \in Registers
    PROVE  Coherent(Spill(n, r))
<1>1. n.sym[r] \in MaybeSymbol /\ r \in MaybeRegister
  BY CoherentRanges DEF MaybeRegister
<1>2. CASE n.sym[r] = None
  BY <1>2 DEF Spill
<1>3. CASE n.sym[r] # None
  <2>1. Coherent(Store(n, r, n.sym[r]))
    BY <1>1, <1>3, StoreCoherent DEF MaybeSymbol
  <2> QED
    BY <1>1, <1>3, <2>1, DeallocateCoherent DEF Spill
<1> QED
  BY <1>2, <1>3

IsPool(pool) == pool \in SUBSET Registers /\ pool # {}

LEMMA RegistersArePool == IsPool(Registers)
BY DEF IsPool, Registers

\* Every set of registers has a first one.
LEMMA FirstInPool ==
    ASSUME NEW pool, IsPool(pool)
    PROVE  First(pool) \in pool /\ First(pool) \in Registers
<1>1. \E r \in pool : \A q \in pool : Order[r] <= Order[q]
  <2>1. CASE "eax" \in pool
    BY <2>1 DEF IsPool, Registers, Order
  <2>2. CASE "eax" \notin pool /\ "ecx" \in pool
    BY <2>2 DEF IsPool, Registers, Order
  <2>3. CASE pool = {"edx"}
    BY <2>3 DEF Order
  <2> QED
    BY <2>1, <2>2, <2>3 DEF IsPool, Registers
<1> QED
  BY <1>1 DEF First, IsPool

\* allocate returns a register of the pool, a free one if there is one.
LEMMA AllocatedInPool ==
    ASSUME NEW n, NEW pool, IsPool(pool)
    PROVE  /\ Allocated(n, pool) \in Registers
           /\ Allocated(n, pool) \in pool
           /\ FreeIn(n, pool) # {} => n.sym[Allocated(n, pool)] = None
           /\ FreeIn(n, pool) = {} => Allocated(n, pool) = First(pool)
<1>1. FreeIn(n, pool) # {} => IsPool(FreeIn(n, pool))
  BY DEF FreeIn, IsPool
<1>2. FreeIn(n, pool) # {} => First(FreeIn(n, pool)) \in FreeIn(n, pool)
  BY <1>1, FirstInPool
<1> QED
  BY <1>2, FirstInPool DEF Allocated, FreeIn, IsPool

\* allocate, whether it finds a free register or spills one.
LEMMA AllocateCoherent ==
    ASSUME NEW n, Coherent(n), NEW pool, IsPool(pool)
    PROVE  Coherent(Allocate(n, pool))
<1>1. First(pool) \in Registers
  BY FirstInPool
<1> QED
  BY <1>1, SpillCoherent, DeallocateCoherent DEF Allocate, MaybeRegister

LEMMA AssignNewCoherent ==
    ASSUME NEW n, Coherent(n), NEW s \in Symbols, NEW pool, IsPool(pool)
    PROVE  Coherent(AssignNew(n, s, pool))
<1>1. Coherent(Allocate(n, pool))
  BY AllocateCoherent
<1>2. Allocated(n, pool) \in Registers
  BY AllocatedInPool
<1> QED
  BY <1>1, <1>2, AssignCoherent, NullDistinct DEF AssignNew, MaybeSymbol, MaybeRegister

LEMMA LoadCoherent ==
    ASSUME NEW n, Coherent(n), NEW s \in Symbols, NEW pool, IsPool(pool)
    PROVE  Coherent(Load(n, s, pool))
<1>1. Coherent(AssignNew(n, s, pool)) /\ Allocated(n, pool) \in MaybeRegister
  BY AssignNewCoherent, AllocatedInPool DEF MaybeRegister
<1> QED
  BY <1>1, LoadIntoCoherent DEF Load

\* getreg, whether the destination takes over a register or gets a new one.
LEMMA GetRegCoherent ==
    ASSUME NEW n, Coherent(n), NEW dst \in Symbols, NEW src \in Symbols
    PROVE  Coherent(GetReg(n, dst, src))
<1>1. Coherent(Assign(n, dst, n.reg[src])) \/ n.reg[src] = None
  BY AssignCoherent, CoherentRanges DEF MaybeSymbol
<1>2. Coherent(Load(n, src, Registers))
  BY LoadCoherent, RegistersArePool
<1>3. Coherent(AssignNew(n, dst, Registers))
  BY AssignNewCoherent, RegistersArePool
<1>4. Coherent(LoadInto(AssignNew(n, dst, Registers), src, AssignNew(n, dst, Registers).reg[dst]))
  BY <1>3, CoherentRanges, LoadIntoCoherent
<1>5. CASE src = dst
  BY <1>2, <1>5 DEF GetReg
<1>6. CASE src # dst /\ n.reg[src] # None
  BY <1>1, <1>6 DEF GetReg
<1>7. CASE src # dst /\ n.reg[src] = None
  BY <1>4, <1>7 DEF GetReg
<1> QED
  BY <1>5, <1>6, <1>7

LEMMA SaveCoherent ==
    ASSUME NEW n, Coherent(n), NEW s \in Symbols
    PROVE  Coherent(Save(n, s))
<1>1. Coherent(Store(n, n.reg[s], s))
  BY CoherentRanges, StoreCoherent
<1> QED
  BY <1>1, ReleaseCoherent DEF Save

-----------------------------------------------------------------------------
(* What the primitives guarantee about the emitted code: which values can  *)
(* still be read, and from where.                                          *)

NonTemps == Symbols \ Temps

(***************************************************************************)
(* The machine in the middle of a statement.  The values of the            *)
(* temporaries in kept, and of everything that is not a temporary, can be  *)
(* read; the registers belong to symbols in owners or to nobody; register  *)
(* flux (or None) has been given to a symbol whose value it does not       *)
(* contain yet.                                                            *)
(***************************************************************************)
Sound(n, kept, owners, flux) ==
    /\ Coherent(n)
    /\ n.stale = {} /\ kept \subseteq Temps
    /\ NonTemps \subseteq n.mv
    /\ \A t \in kept : (\A r \in Registers : n.sym[r] # t) => t \in n.mv
    /\ \A r \in Registers : r # flux /\ n.sym[r] # None => n.sym[r] \in n.rv[r]
    /\ \A r \in Registers : n.sym[r] \in owners \cup {None}
    /\ flux \in Registers => n.sym[flux] \notin kept

\* A function of the compiler starts with a sound machine.
LEMMA EmptySound == Sound(Empty, {}, {}, None)
BY EmptyCoherent, NullDistinct DEF Sound, Empty, NonTemps

\* What is needed less, or claimed less, is still sound.
LEMMA SoundWeaker ==
    ASSUME NEW n, NEW kept, NEW owners, NEW flux, Sound(n, kept, owners, flux),
           NEW kept2, kept2 \subseteq kept, NEW owners2, owners \subseteq owners2
    PROVE  Sound(n, kept2, owners2, flux)
BY DEF Sound

LEMMA NullNotKept ==
    ASSUME NEW n, NEW kept, NEW owners, NEW flux, Sound(n, kept, owners, flux)
    PROVE  None \notin kept
BY NullDistinct DEF Sound, Symbols

\* Every operand that is kept, or is no temporary, is printed as a place that
\* contains its value.
LEMMA SoundCurrent ==
    ASSUME NEW n, NEW kept, NEW owners, NEW flux, Sound(n, kept, owners, flux),
           NEW s \in Symbols, s \in kept \cup NonTemps,
           flux \in Registers => n.sym[flux] # s
    PROVE  /\ Current(n, s)
           /\ n.reg[s] # None => n.reg[s] \in Registers /\ s \in n.rv[n.reg[s]]
           /\ n.reg[s] = None => s \in n.mv
<1>1. \A r \in Registers : n.sym[r] = s <=> n.reg[s] = r
  BY DEF Sound, Coherent, Agree
<1>2. n.reg[s] \in MaybeRegister
  BY CoherentRanges DEF Sound
<1>3. n.reg[s] # None => n.reg[s] \in Registers /\ s \in n.rv[n.reg[s]]
  BY <1>1, <1>2, NullDistinct DEF Sound, MaybeRegister
<1>4. n.reg[s] = None => s \in n.mv
  BY <1>1, NullDistinct DEF Sound
<1> QED
  BY <1>3, <1>4 DEF Current

\* assign, seen through Register::_symbol alone.
LEMMA AssignEffect ==
    ASSUME NEW n, Coherent(n), NEW s \in MaybeSymbol, NEW r \in Registers
    PROVE  LET p == Assign(n, s, r) IN
           /\ \A a \in Registers :
                 p.sym[a] = IF a = r THEN s
                            ELSE IF n.sym[a] = s THEN None ELSE n.sym[a]
           /\ p.rv = n.rv /\ p.mv = n.mv /\ p.stale = n.stale
<1> DEFINE q == PointSymbol(n, s, r)
           p == PointRegister(q, s, r)
<1>1. n \in Machine /\ n.sym \in [Registers -> MaybeSymbol]
                    /\ n.reg \in [Symbols -> MaybeRegister]
  BY DEF Coherent, Machine, MaybeSymbol, MaybeRegister
<1>2. q \in Machine /\ q.rv = n.rv /\ q.mv = n.mv /\ q.stale = n.stale
  BY <1>1, NullDistinct DEF Machine, PointSymbol, MaybeSymbol, MaybeRegister
<1>3. p.rv = q.rv /\ p.mv = q.mv /\ p.stale = q.stale
  BY <1>2 DEF Machine, PointRegister
<1>4. ASSUME NEW a \in Registers
      PROVE  p.sym[a] = IF a = r THEN s
                        ELSE IF n.sym[a] = s THEN None ELSE n.sym[a]
  <2>1. q.sym[a] = (IF s # None /\ a = n.reg[s] THEN None ELSE n.sym[a])
    BY <1>1 DEF PointSymbol, Machine
  <2>2. p.sym[a] = (IF a = r THEN s ELSE q.sym[a])
    BY <1>2, NullDistinct DEF PointRegister, Machine
  <2>3. s # None => (a = n.reg[s] <=> n.sym[a] = s)
    BY DEF Coherent, Agree, MaybeSymbol
  <2> QED
    BY <2>1, <2>2, <2>3
<1> QED
  BY <1>2, <1>3, <1>4 DEF Assign

LEMMA DeallocateEffect ==
    ASSUME NEW n, Coherent(n), NEW r \in Registers
    PROVE  LET p == Deallocate(n, r) IN
           /\ \A a \in Registers : p.sym[a] = IF a = r THEN None ELSE n.sym[a]
           /\ p.rv = n.rv /\ p.mv = n.mv /\ p.stale = n.stale
BY AssignEffect DEF Deallocate, MaybeSymbol

LEMMA DeallocateNothing ==
    ASSUME NEW n
    PROVE  Deallocate(n, None) = n
BY DEF Deallocate, Assign, PointSymbol, PointRegister

\* A released symbol is in no register any more; its value may be lost.
LEMMA ReleaseEffect ==
    ASSUME NEW n, Coherent(n), NEW s \in Symbols
    PROVE  LET p == Release(n, s) IN
           /\ \A a \in Registers : p.sym[a] = IF n.sym[a] = s THEN None ELSE n.sym[a]
           /\ p.rv = n.rv /\ p.mv = n.mv /\ p.stale = n.stale
<1>1. \A a \in Registers : n.sym[a] = s <=> n.reg[s] = a
  BY DEF Coherent, Agree
<1>2. CASE n.reg[s] = None
  BY <1>1, <1>2, DeallocateNothing, NullDistinct DEF Release
<1>3. CASE n.reg[s] \in Registers
  BY <1>1, <1>3, DeallocateEffect DEF Release
<1> QED
  BY <1>2, <1>3, CoherentRanges DEF MaybeRegister

LEMMA ReleaseSound ==
    ASSUME NEW n, NEW kept, NEW owners, NEW flux, Sound(n, kept, owners, flux),
           NEW s \in Symbols
    PROVE  /\ Sound(Release(n, s), kept \ {s}, owners \ {s}, flux)
           /\ flux \in Registers /\ n.sym[flux] = s => Sound(Release(n, s), kept \ {s}, owners \ {s}, None)
<1> DEFINE p == Release(n, s)
<1>1. Coherent(n) /\ Coherent(p)
  BY ReleaseCoherent DEF Sound
<1>2. /\ \A a \in Registers : p.sym[a] = IF n.sym[a] = s THEN None ELSE n.sym[a]
      /\ p.rv = n.rv /\ p.mv = n.mv /\ p.stale = n.stale
  BY <1>1, ReleaseEffect
<1>3. None \notin kept
  BY NullNotKept
<1> HIDE DEF p
<1>4. Sound(p, kept \ {s}, owners \ {s}, flux)
  BY <1>1, <1>2, <1>3, NullDistinct DEF Sound
<1>5. flux \in Registers /\ n.sym[flux] = s => Sound(p, kept \ {s}, owners \ {s}, None)
  BY <1>1, <1>2, <1>3, NullDistinct DEF Sound
<1> QED
  BY <1>4, <1>5 DEF p

\* A register that is in flux must not be spilled: what it contains is not the
\* value of its symbol.
LEMMA SpillSound ==
    ASSUME NEW n, NEW kept, NEW owners, NEW flux, Sound(n, kept, owners, flux),
           NEW r \in Registers, r # flux
    PROVE  LET p == Spill(n, r) IN
           /\ Sound(p, kept, owners, flux)
           /\ \A a \in Registers : p.sym[a] = IF a = r THEN None ELSE n.sym[a]
           /\ p.rv = n.rv /\ n.mv \subseteq p.mv
<1> DEFINE p == Spill(n, r)
           q == Store(n, r, n.sym[r])
<1>1. Coherent(n) /\ Coherent(p)
  BY SpillCoherent DEF Sound
<1>2. CASE n.sym[r] = None
  BY <1>2 DEF Spill
<1>3. CASE n.sym[r] # None
  <2>1. n.sym[r] \in Symbols /\ n.sym[r] \in n.rv[r]
    BY <1>1, <1>3, CoherentRanges DEF Sound, MaybeSymbol
  <2>2. Coherent(q)
    BY <1>1, <2>1, StoreCoherent DEF MaybeRegister
  <2>3. q.sym = n.sym /\ q.rv = n.rv /\ q.stale = n.stale /\ q.mv = n.mv \cup {n.sym[r]}
    BY <1>1, <2>1 DEF Store, Coherent, Machine
  <2>4. /\ \A a \in Registers : p.sym[a] = IF a = r THEN None ELSE q.sym[a]
        /\ p.rv = q.rv /\ p.mv = q.mv /\ p.stale = q.stale
    BY <1>3, <2>2, DeallocateEffect DEF Spill
  <2>5. None \notin kept
    BY NullNotKept
  <2> HIDE DEF p, q
  <2>6. Sound(p, kept, owners, flux)
    BY <1>1, <2>1, <2>3, <2>4, <2>5, NullDistinct DEF Sound
  <2> QED
    BY <2>3, <2>4, <2>6 DEF p
<1> QED
  BY <1>2, <1>3

\* allocate makes a register of the pool free and loses no value.
LEMMA AllocateSound ==
    ASSUME NEW n, NEW kept, NEW owners, NEW flux, Sound(n, kept, owners, flux),
           NEW pool, IsPool(pool), flux \notin pool
    PROVE  LET p == Allocate(n, pool)
               r == Allocated(n, pool) IN
           /\ Sound(p, kept, owners, flux)
           /\ r \in pool /\ r \in Registers
           /\ \A a \in Registers : p.sym[a] = IF a = r THEN None ELSE n.sym[a]
           /\ p.rv = n.rv /\ n.mv \subseteq p.mv
<1> DEFINE p == Allocate(n, pool)
           r == Allocated(n, pool)
           q == Spill(n, r)
<1>1. r \in pool /\ r \in Registers /\ Coherent(n)
  BY AllocatedInPool DEF Sound
<1>2. CASE FreeIn(n, pool) # {}
  <2>1. p = n /\ n.sym[r] = None
    BY <1>2, AllocatedInPool DEF Allocate
  <2> QED
    BY <1>1, <2>1
<1>3. CASE FreeIn(n, pool) = {}
  <2>1. p = Deallocate(q, r)
    BY <1>3, AllocatedInPool DEF Allocate
  <2>2. /\ Sound(q, kept, owners, flux)
        /\ \A a \in Registers : q.sym[a] = IF a = r THEN None ELSE n.sym[a]
        /\ q.rv = n.rv /\ n.mv \subseteq q.mv
    BY <1>1, SpillSound
  <2>3. Coherent(q) /\ Coherent(p)
    BY <1>1, <2>1, <2>2, DeallocateCoherent DEF Sound, MaybeRegister
  <2>4. /\ \A a \in Registers : p.sym[a] = IF a = r THEN None ELSE q.sym[a]
        /\ p.rv = q.rv /\ p.mv = q.mv /\ p.stale = q.stale
    BY <1>1, <2>1, <2>3, DeallocateEffect
  <2> HIDE DEF p, q
  <2>5. Sound(p, kept, owners, flux)
    BY <2>2, <2>3, <2>4 DEF Sound
  <2> QED
    BY <1>1, <2>2, <2>4, <2>5 DEF p
<1> QED
  BY <1>2, <1>3

\* A symbol whose value is not needed gets a new register, now in flux.
LEMMA AssignNewSound ==
    ASSUME NEW n, NEW kept, NEW owners, Sound(n, kept, owners, None),
           NEW s \in Symbols, s \notin kept
    PROVE  LET p == AssignNew(n, s, Registers)
               r == Allocated(n, Registers) IN
           /\ Sound(p, kept, owners \cup {s}, r)
           /\ Sound(p, kept, owners \cup {s}, p.reg[s])
           /\ p.reg[s] \in Registers /\ p.sym[p.reg[s]] = s
           /\ r \in Registers /\ p.sym[r] = s /\ p.reg[s] = r
           /\ \A a \in Registers : p.sym[a] \in {n.sym[a], s, None}
<1> DEFINE q == Allocate(n, Registers)
           r == Allocated(n, Registers)
           p == Assign(q, s, r)
<1>1. /\ Sound(q, kept, owners, None) /\ r \in Registers
      /\ \A a \in Registers : q.sym[a] = IF a = r THEN None ELSE n.sym[a]
  BY AllocateSound, RegistersArePool, NullDistinct
<1>2. Coherent(q) /\ Coherent(p)
  BY <1>1, AssignCoherent, NullDistinct DEF Sound, MaybeSymbol, MaybeRegister
<1>3. /\ \A a \in Registers :
            p.sym[a] = IF a = r THEN s ELSE IF q.sym[a] = s THEN None ELSE q.sym[a]
      /\ p.rv = q.rv /\ p.mv = q.mv /\ p.stale = q.stale
  BY <1>1, <1>2, AssignEffect DEF MaybeSymbol
<1>4. p.reg[s] = r
  BY <1>1, <1>2, <1>3 DEF Coherent, Agree
<1> HIDE DEF p, q, r
<1>5. Sound(p, kept, owners \cup {s}, r)
  <2>1. None \notin kept
    BY <1>1, NullNotKept
  <2>2. ASSUME NEW t \in kept, \A a \in Registers : p.sym[a] # t
        PROVE  t \in p.mv
    <3>1. \A a \in Registers : q.sym[a] # t
      BY <1>1, <1>3, <2>1, <2>2
    <3> QED
      BY <1>1, <1>3, <3>1 DEF Sound
  <2>3. ASSUME NEW a \in Registers, a # r, p.sym[a] # None
        PROVE  p.sym[a] \in p.rv[a]
    BY <1>1, <1>3, <2>3, NullDistinct DEF Sound
  <2>4. \A a \in Registers : p.sym[a] \in owners \cup {s} \cup {None}
    BY <1>1, <1>3 DEF Sound
  <2>5. p.stale = {} /\ kept \subseteq Temps /\ NonTemps \subseteq p.mv
    BY <1>1, <1>3 DEF Sound
  <2>6. p.sym[r] \notin kept
    BY <1>1, <1>3
  <2> QED
    BY <1>2, <2>2, <2>3, <2>4, <2>5, <2>6 DEF Sound
<1> QED
  BY <1>1, <1>3, <1>4, <1>5 DEF AssignNew, p, q, r

\* load: the symbol's value is in its register afterwards.
LEMMA LoadSound ==
    ASSUME NEW n, NEW kept, NEW owners, NEW flux, Sound(n, kept, owners, flux),
           NEW s \in Symbols, s \in kept \cup NonTemps,
           flux \in Registers => n.sym[flux] # s,
           NEW pool, IsPool(pool), flux \notin pool
    PROVE  LET p == Load(n, s, pool) IN
           /\ Sound(p, kept, owners \cup {s}, flux)
           /\ p.reg[s] \in Registers /\ s \in p.rv[p.reg[s]]
           /\ flux \in Registers => p.sym[flux] = n.sym[flux]
<1> DEFINE r == Allocated(n, pool)
           q == Allocate(n, pool)
           a == Assign(q, s, r)
           p == LoadInto(a, s, r)
<1>1. CASE n.reg[s] # None
  <2>1. Load(n, s, pool) = n
    BY <1>1 DEF Load
  <2>2. Sound(n, kept, owners \cup {s}, flux)
    BY SoundWeaker
  <2> QED
    BY <1>1, <2>1, <2>2, SoundCurrent
<1>2. CASE n.reg[s] = None
  <2>1. s \in n.mv
    BY <1>2, SoundCurrent
  <2>2. /\ Sound(q, kept, owners, flux) /\ r \in Registers /\ r \in pool
        /\ \A b \in Registers : q.sym[b] = IF b = r THEN None ELSE n.sym[b]
        /\ n.mv \subseteq q.mv
    BY AllocateSound
  <2>3. Coherent(q) /\ Coherent(a) /\ Coherent(p)
    BY <2>2, AssignCoherent, LoadIntoCoherent, NullDistinct DEF Sound, MaybeSymbol, MaybeRegister
  <2>4. \A b \in Registers : n.sym[b] # s
    BY <1>2, NullDistinct DEF Sound, Coherent, Agree
  <2>5. /\ \A b \in Registers : a.sym[b] = IF b = r THEN s ELSE q.sym[b]
        /\ a.rv = q.rv /\ a.mv = q.mv /\ a.stale = q.stale
    BY <2>2, <2>3, <2>4, AssignEffect, NullDistinct DEF MaybeSymbol
  <2>6. /\ p.sym = a.sym /\ p.mv = a.mv /\ p.stale = a.stale
        /\ \A b \in Registers : p.rv[b] = IF b = r THEN {s} ELSE a.rv[b]
    BY <2>1, <2>2, <2>3, <2>5 DEF LoadInto, Coherent, Machine
  <2>7. p.reg[s] = r
    BY <2>2, <2>3, <2>5, <2>6 DEF Coherent, Agree
  <2>8. p = Load(n, s, pool)
    BY <1>2 DEF Load, AssignNew
  <2> HIDE DEF p, a, q, r
  <2>9. Sound(p, kept, owners \cup {s}, flux)
    <3>1. None \notin kept
      BY NullNotKept
    <3>2. ASSUME NEW t \in kept, \A b \in Registers : p.sym[b] # t
          PROVE  t \in p.mv
      <4>1. \A b \in Registers : q.sym[b] # t
        BY <2>2, <2>5, <2>6, <3>1, <3>2
      <4> QED
        BY <2>2, <2>5, <2>6, <4>1 DEF Sound
    <3>3. ASSUME NEW b \in Registers, b # flux, p.sym[b] # None
          PROVE  p.sym[b] \in p.rv[b]
      BY <2>2, <2>5, <2>6, <3>3, NullDistinct DEF Sound
    <3>4. \A b \in Registers : p.sym[b] \in owners \cup {s} \cup {None}
      BY <2>2, <2>5, <2>6 DEF Sound
    <3>5. p.stale = {} /\ kept \subseteq Temps /\ NonTemps \subseteq p.mv
      BY <2>2, <2>5, <2>6 DEF Sound
    <3>6. flux \in Registers => p.sym[flux] \notin kept
      BY <2>2, <2>5, <2>6 DEF Sound
    <3> QED
      BY <2>3, <3>2, <3>3, <3>4, <3>5, <3>6 DEF Sound
  <2> QED
    BY <2>2, <2>5, <2>6, <2>7, <2>8, <2>9
<1> QED
  BY <1>1, <1>2

-----------------------------------------------------------------------------
(* Reads of a place that contains the operand change nothing.              *)

LEMMA StaleUnchanged ==
    ASSUME NEW n, Coherent(n), NEW x, x = n.stale
    PROVE  [n EXCEPT !.stale = x] = n
BY DEF Coherent, Machine

LEMMA ReadOperandsSound ==
    ASSUME NEW n, NEW kept, NEW owners, NEW flux, Sound(n, kept, owners, flux),
           NEW operands \in SUBSET Symbols, operands \subseteq kept \cup NonTemps,
           flux \in Registers => n.sym[flux] \notin operands
    PROVE  ReadOperands(n, operands) = n
<1>1. {s \in operands : ~Current(n, s)} = {}
  BY SoundCurrent
<1>2. n.stale \cup {s \in operands : ~Current(n, s)} = n.stale
  BY <1>1
<1> QED
  BY <1>2, StaleUnchanged DEF ReadOperands, Sound

LEMMA ReadRegisterSound ==
    ASSUME NEW n, Coherent(n), NEW s, NEW r, s \in n.rv[r]
    PROVE  ReadRegister(n, s, r) = n
<1>1. n.stale \cup ({s} \ n.rv[r]) = n.stale
  OBVIOUS
<1> QED
  BY <1>1, StaleUnchanged DEF ReadRegister

LEMMA ReadHomeSound ==
    ASSUME NEW n, NEW kept, NEW owners, NEW flux, Sound(n, kept, owners, flux),
           NEW s \in NonTemps
    PROVE  ReadHome(n, s) = n
<1>1. n.stale \cup ({s} \ n.mv) = n.stale
  BY DEF Sound
<1> QED
  BY <1>1, StaleUnchanged DEF ReadHome, Sound

-----------------------------------------------------------------------------
(* Results.                                                                *)

\* The destination takes the register of the source over: the source's value
\* is still in it, and its own value is not.
LEMMA TakeOverSound ==
    ASSUME NEW n, NEW kept, NEW owners, Sound(n, kept, owners, None),
           NEW dst \in Symbols, dst \notin kept, NEW src \in Symbols, src # dst,
           n.reg[src] # None
    PROVE  LET r == n.reg[src]
               p == Assign(n, dst, r) IN
           /\ Sound(p, kept \ {src}, (owners \ {src}) \cup {dst}, r)
           /\ r \in Registers /\ p.sym[r] = dst /\ p.reg[dst] = r
           /\ src \in p.rv[r]
<1> DEFINE r == n.reg[src]
           p == Assign(n, dst, r)
<1>1. r \in Registers /\ Coherent(n)
  BY CoherentRanges DEF Sound, MaybeRegister
<1>2. \A a \in Registers : n.sym[a] = src <=> a = r
  BY <1>1 DEF Coherent, Agree
<1>3. Coherent(p)
  BY <1>1, AssignCoherent, NullDistinct DEF MaybeSymbol, MaybeRegister
<1>4. /\ \A a \in Registers :
            p.sym[a] = IF a = r THEN dst ELSE IF n.sym[a] = dst THEN None ELSE n.sym[a]
      /\ p.rv = n.rv /\ p.mv = n.mv /\ p.stale = n.stale
  BY <1>1, AssignEffect DEF MaybeSymbol
<1>5. p.reg[dst] = r
  BY <1>1, <1>3, <1>4 DEF Coherent, Agree
<1>6. src \in n.rv[r]
  BY <1>1, <1>2, NullDistinct DEF Sound
<1> HIDE DEF p, r
<1>7. Sound(p, kept \ {src}, (owners \ {src}) \cup {dst}, r)
  <2>1. None \notin kept
    BY NullNotKept
  <2>2. ASSUME NEW t \in kept \ {src}, \A a \in Registers : p.sym[a] # t
        PROVE  t \in p.mv
    <3>1. \A a \in Registers : n.sym[a] # t
      BY <1>2, <1>4, <2>1, <2>2
    <3> QED
      BY <1>4, <3>1 DEF Sound
  <2>3. ASSUME NEW a \in Registers, a # r, p.sym[a] # None
        PROVE  p.sym[a] \in p.rv[a]
    BY <1>4, <2>3, NullDistinct DEF Sound
  <2>4. \A a \in Registers : p.sym[a] \in (owners \ {src}) \cup {dst} \cup {None}
    BY <1>2, <1>4 DEF Sound
  <2>5. p.stale = {} /\ kept \ {src} \subseteq Temps /\ NonTemps \subseteq p.mv
    BY <1>4 DEF Sound
  <2>6. r \in Registers => p.sym[r] \notin kept \ {src}
    BY <1>4
  <2> QED
    BY <1>3, <2>2, <2>3, <2>4, <2>5, <2>6 DEF Sound
<1> QED
  BY <1>1, <1>4, <1>5, <1>6, <1>7 DEF p, r

\* Loading into a register in flux.
LEMMA LoadFluxSound ==
    ASSUME NEW n, NEW kept, NEW owners, NEW r \in Registers, Sound(n, kept, owners, r),
           NEW s \in Symbols, s \in n.mv
    PROVE  LET p == LoadInto(n, s, r) IN
           /\ Sound(p, kept, owners, r)
           /\ n.sym[r] = s => Sound(p, kept, owners, None)
           /\ p.sym = n.sym /\ p.reg = n.reg /\ s \in p.rv[r] /\ p.mv = n.mv
           /\ \A a \in Registers : a # r => p.rv[a] = n.rv[a]
<1> DEFINE p == LoadInto(n, s, r)
<1>1. Coherent(n) /\ Coherent(p)
  BY LoadIntoCoherent DEF Sound, MaybeRegister
<1>2. /\ p.sym = n.sym /\ p.reg = n.reg /\ p.mv = n.mv /\ p.stale = n.stale
      /\ \A a \in Registers : p.rv[a] = IF a = r THEN {s} ELSE n.rv[a]
  <2>1. {s} \cap n.mv = {s}
    OBVIOUS
  <2>2. p = [n EXCEPT !.rv[r] = {s}]
    BY <2>1 DEF LoadInto
  <2> HIDE DEF p
  <2> QED
    BY <1>1, <2>2 DEF Coherent, Machine
<1> HIDE DEF p
<1>3. Sound(p, kept, owners, r)
  BY <1>1, <1>2 DEF Sound
<1>4. n.sym[r] = s => Sound(p, kept, owners, None)
  BY <1>1, <1>2, NullDistinct DEF Sound
<1> QED
  BY <1>2, <1>3, <1>4 DEF p

\* getreg, for a source whose value is wanted and a destination whose is not.
LEMMA GetRegSound ==
    ASSUME NEW n, NEW kept, NEW owners, Sound(n, kept, owners, None),
           NEW dst \in Symbols, dst \notin kept, NEW src \in Symbols, src # dst,
           src \in kept \cup NonTemps
    PROVE  LET p == GetReg(n, dst, src)
               r == p.reg[dst] IN
           /\ Sound(p, kept \ {src}, (owners \ {src}) \cup {dst}, r)
           /\ r \in Registers /\ p.sym[r] = dst /\ src \in p.rv[r]
<1>1. CASE n.reg[src] # None
  BY <1>1, TakeOverSound DEF GetReg
<1>2. CASE n.reg[src] = None
  <2> DEFINE a == AssignNew(n, dst, Registers)
             r == Allocated(n, Registers)
             p == LoadInto(a, src, r)
  <2>1. /\ Sound(a, kept, owners \cup {dst}, r)
        /\ r \in Registers /\ a.sym[r] = dst /\ a.reg[dst] = r
        /\ \A b \in Registers : a.sym[b] \in {n.sym[b], dst, None}
    BY AssignNewSound
  <2>2. \A b \in Registers : n.sym[b] # src
    BY <1>2, NullDistinct DEF Sound, Coherent, Agree
  <2>3. \A b \in Registers : a.sym[b] # src
    BY <2>1, <2>2, NullDistinct
  <2>4. src \in a.mv
    BY <2>1, <2>3 DEF Sound
  <2>5. /\ Sound(p, kept, owners \cup {dst}, r)
        /\ p.sym = a.sym /\ p.reg = a.reg /\ src \in p.rv[r]
    BY <2>1, <2>4, LoadFluxSound
  <2>6. p = GetReg(n, dst, src)
    BY <1>2, <2>1 DEF GetReg
  <2> HIDE DEF p, a, r
  <2>7. Sound(p, kept \ {src}, (owners \ {src}) \cup {dst}, r)
    BY <2>3, <2>5 DEF Sound
  <2> QED
    BY <2>1, <2>5, <2>6, <2>7
<1> QED
  BY <1>1, <1>2

\* A computation into the register in flux makes its symbol's value available.
LEMMA DefineSound ==
    ASSUME NEW n, NEW kept, NEW owners, NEW r \in Registers, Sound(n, kept, owners, r),
           NEW s \in Temps, n.sym[r] = s
    PROVE  Sound(Define(n, s, r), kept \cup {s}, owners, None)
<1> DEFINE p == Define(n, s, r)
<1>1. s \in Symbols /\ s \notin NonTemps /\ s \notin kept
  BY DEF Symbols, NonTemps, Sound
<1>2. Coherent(n) /\ Coherent(p)
  BY <1>1, DefineCoherent DEF Sound, MaybeRegister
<1>3. /\ p.sym = n.sym /\ p.mv = n.mv \ {s} /\ p.stale = n.stale
      /\ \A a \in Registers : p.rv[a] = IF a = r THEN {s} ELSE n.rv[a] \ {s}
  BY <1>2 DEF Define, Coherent, Machine
<1>4. \A a \in Registers : n.sym[a] = s => a = r
  BY <1>1, <1>2 DEF Coherent, Agree
<1> HIDE DEF p
<1> QED
  BY <1>1, <1>2, <1>3, <1>4, NullDistinct DEF Sound, p

-----------------------------------------------------------------------------
(* The generator.                                                          *)

LEMMA OperandsAreSymbols ==
    ASSUME live \in SUBSET Temps
    PROVE  /\ Operands \subseteq Symbols /\ NextResults \subseteq Symbols
           /\ Variables \cup NextResults \subseteq Symbols
           /\ Operands \cup Arrays \subseteq Symbols
BY DEF Operands, NextResults, Symbols

\* The registers the code names are registers.
LEMMA NamedRegisters == {"eax", "ecx", "edx"} \subseteq Registers /\ Registers \subseteq MaybeRegister
BY DEF Registers, MaybeRegister

-----------------------------------------------------------------------------
(* Each kind of statement keeps the descriptors coherent.                  *)

LEMMA BranchCoherent ==
    ASSUME NEW n, Coherent(n), NEW left \in Symbols, NEW right \in Symbols
    PROVE  Coherent(BranchCode(n, left, right))
BY LoadCoherent, RegistersArePool, ReadOperandsCoherent, ReleaseCoherent DEF BranchCode

LEMMA ReturnCoherent ==
    ASSUME NEW n, Coherent(n), NEW expr \in Symbols
    PROVE  Coherent(ReturnCode(n, expr))
<1> DEFINE a == CASE n.reg[expr] = None  -> LoadInto(n, expr, "eax")
                  [] n.reg[expr] = "eax" -> n
                  [] OTHER               -> Move(n, n.reg[expr], "eax")
<1>1. Coherent(a)
  BY LoadIntoCoherent, MoveCoherent, CoherentRanges, NamedRegisters, NullDistinct
     DEF MaybeRegister
<1> HIDE DEF a
<1>2. Coherent(Deallocate(Release(ReadRegister(a, expr, "eax"), expr), "eax"))
  BY <1>1, ReadRegisterCoherent, ReleaseCoherent, DeallocateCoherent, NamedRegisters
<1> QED
  BY <1>2 DEF ReturnCode, a

LEMMA CompareCoherent ==
    ASSUME NEW n, Coherent(n), NEW result \in Symbols,
           NEW left \in Symbols, NEW right \in Symbols
    PROVE  Coherent(CompareCode(n, result, left, right))
BY BranchCoherent, AssignNewCoherent, RegistersArePool, CoherentRanges, DefineCoherent,
   SaveCoherent DEF CompareCode

LEMMA ArithmeticCoherent ==
    ASSUME NEW n, Coherent(n), NEW result \in Symbols,
           NEW left \in Symbols, NEW right \in Symbols
    PROVE  Coherent(ArithmeticCode(n, result, left, right))
BY GetRegCoherent, ReadRegisterCoherent, ReadOperandsCoherent, CoherentRanges,
   DefineCoherent, ReleaseCoherent, SaveCoherent DEF ArithmeticCode

LEMMA DivisorCoherent ==
    ASSUME NEW n, Coherent(n), NEW right \in Symbols
    PROVE  Coherent(DivisorCode(n, right))
BY SpillCoherent, AssignCoherent, LoadIntoCoherent, NamedRegisters, NullDistinct
   DEF DivisorCode, MaybeSymbol

LEMMA DividendCoherent ==
    ASSUME NEW n, Coherent(n), NEW left \in Symbols
    PROVE  Coherent(DividendCode(n, left))
BY SpillCoherent, LoadIntoCoherent, MoveCoherent, CoherentRanges, NamedRegisters,
   NullDistinct DEF DividendCode, MaybeRegister

LEMMA DivideCoherent ==
    ASSUME NEW n, Coherent(n), NEW quotient \in BOOLEAN, NEW result \in Symbols,
           NEW left \in Symbols, NEW right \in Symbols
    PROVE  Coherent(DivideCode(n, quotient, result, left, right))
BY DivisorCoherent, DividendCoherent, SpillCoherent, ClobberCoherent,
   ReadRegisterCoherent, ReadOperandsCoherent, DefineCoherent, ReleaseCoherent,
   CoherentRanges, DeallocateCoherent, AssignCoherent, SaveCoherent,
   NamedRegisters, NullDistinct DEF DivideCode, MaybeSymbol

LEMMA NegateCoherent ==
    ASSUME NEW n, Coherent(n), NEW result \in Symbols, NEW expr \in Symbols
    PROVE  Coherent(NegateCode(n, result, expr))
BY GetRegCoherent, ReadRegisterCoherent, CoherentRanges, DefineCoherent, SaveCoherent
   DEF NegateCode

LEMMA ExtendCoherent ==
    ASSUME NEW n, Coherent(n), NEW result \in Symbols, NEW expr \in Symbols
    PROVE  Coherent(ExtendCode(n, result, expr))
BY AssignNewCoherent, RegistersArePool, ReadOperandsCoherent, CoherentRanges,
   DefineCoherent, SaveCoherent DEF ExtendCode

LEMMA CopyCoherent ==
    ASSUME NEW n, Coherent(n), NEW result \in Symbols, NEW expr \in Symbols
    PROVE  Coherent(CopyCode(n, result, expr))
<1>1. ASSUME NEW k, Coherent(k)
      PROVE  Coherent([k EXCEPT !.mv = @ \cup {result}])
  BY <1>1 DEF Coherent, Agree, Machine
<1>2. Coherent([Define(n, result, None) EXCEPT !.mv = @ \cup {result}])
  BY <1>1, DefineCoherent DEF MaybeRegister
<1>3. Coherent(Save(DefineAs(ReadRegister(GetReg(n, result, expr), expr,
                                          GetReg(n, result, expr).reg[result]),
                             result, expr), result))
  BY GetRegCoherent, ReadRegisterCoherent, CoherentRanges, DefineAsCoherent, SaveCoherent
<1> QED
  BY <1>2, <1>3 DEF CopyCode

LEMMA AddressCoherent ==
    ASSUME NEW n, Coherent(n), NEW s \in Symbols, NEW array \in Symbols,
           NEW index \in Symbols
    PROVE  /\ Coherent(LocalAddressCode(n, s, array, index))
           /\ Coherent(GlobalAddressCode(n, s, array, index))
           /\ Coherent(PointerAddressCode(n, s, array, index))
<1>1. Coherent(LocalAddressCode(n, s, array, index))
  BY AssignNewCoherent, RegistersArePool, CoherentRanges, LoadIntoCoherent,
     ReadRegisterCoherent, ReadOperandsCoherent, ReleaseCoherent DEF LocalAddressCode
<1>2. Coherent(GlobalAddressCode(n, s, array, index))
  BY GetRegCoherent, CoherentRanges, ReadRegisterCoherent, ReadHomeCoherent
     DEF GlobalAddressCode
<1>3. Coherent(PointerAddressCode(n, s, array, index))
  BY GetRegCoherent, CoherentRanges, ReadRegisterCoherent, ReadOperandsCoherent
     DEF PointerAddressCode
<1> QED
  BY <1>1, <1>2, <1>3

LEMMA ArraysAreSymbols == Arrays \subseteq Symbols
BY DEF Symbols

LEMMA IndexCoherent ==
    ASSUME NEW n, Coherent(n), NEW result \in Symbols, NEW array \in Arrays,
           NEW index \in Symbols
    PROVE  Coherent(IndexCode(n, result, array, index))
<1> DEFINE a == CASE array \in GlobalArrays  -> GlobalAddressCode(n, result, array, index)
                  [] array \in PointerParams -> PointerAddressCode(n, result, array, index)
                  [] array \in LocalArrays   -> LocalAddressCode(n, result, array, index)
<1>1. Coherent(a)
  BY AddressCoherent, ArraysAreSymbols DEF Arrays
<1> HIDE DEF a
<1>2. Coherent(Save(Release(Define(a, result, a.reg[result]), array), result))
  BY <1>1, ArraysAreSymbols, CoherentRanges, DefineCoherent, ReleaseCoherent, SaveCoherent
<1> QED
  BY <1>2 DEF IndexCode, a

LEMMA UpdateCoherent ==
    ASSUME NEW n, Coherent(n), NEW array \in Arrays,
           NEW index \in Symbols, NEW expr \in Symbols
    PROVE  Coherent(UpdateCode(n, array, index, expr))
<1> DEFINE a == IF array \in LocalArrays
                THEN LocalAddressCode(n, array, array, index)
                ELSE GlobalAddressCode(n, array, array, index)
           b == Clobber(a, a.reg[array])
           pool == Registers \ {b.reg[array]}
           c == Load(b, expr, pool)
           d == IF expr \in Numbers THEN b
                ELSE Release(ReadRegister(c, expr, c.reg[expr]), expr)
<1>1. Coherent(a)
  BY AddressCoherent, ArraysAreSymbols
<1>2. Coherent(b)
  <2> HIDE DEF a
  <2> QED
    BY <1>1, ArraysAreSymbols, CoherentRanges, ClobberCoherent
<1>3. Coherent(c)
  <2>1. IsPool(pool)
    BY DEF IsPool, Registers
  <2> HIDE DEF b, pool
  <2> QED
    BY <1>2, <2>1, LoadCoherent
<1>4. Coherent(d)
  <2> HIDE DEF b, c
  <2> QED
    BY <1>2, <1>3, CoherentRanges, ReadRegisterCoherent, ReleaseCoherent
<1>5. Coherent(Deallocate(d, d.reg[array]))
  <2> HIDE DEF d
  <2> QED
    BY <1>4, ArraysAreSymbols, CoherentRanges, DeallocateCoherent
<1> QED
  BY <1>5 DEF UpdateCode

LEMMA ArgumentCoherent ==
    ASSUME NEW n, Coherent(n), NEW arg \in Symbols
    PROVE  Coherent(ArgumentCode(n, arg))
BY AssignNewCoherent, RegistersArePool, AllocatedInPool, NamedRegisters, LoadIntoCoherent,
   LoadCoherent, ReadOperandsCoherent, ReleaseCoherent DEF ArgumentCode

LEMMA InvokeCoherent ==
    ASSUME NEW n, Coherent(n), NEW result \in MaybeSymbol
    PROVE  Coherent(InvokeCode(n, result))
BY SpillCoherent, ClobberCoherent, AssignCoherent, DefineCoherent, SaveCoherent,
   NamedRegisters, NullDistinct DEF InvokeCode, MaybeSymbol

LEMMA BlockEndCoherent ==
    ASSUME NEW n, Coherent(n)
    PROVE  Coherent(BlockEndCode(n))
BY NullDistinct DEF Coherent, Agree, Machine, BlockEndCode

LEMMA SettledCoherent ==
    ASSUME NEW n, Coherent(n), NEW temps
    PROVE  Coherent(Settled(n, temps))
<1> DEFINE v == [r \in Registers |-> IF n.sym[r] = None THEN {} ELSE n.rv[r]]
           d == Settled(n, temps)
<1>1. n \in Machine /\ v \in [Registers -> SUBSET Symbols]
  BY DEF Coherent, Machine
<1>2. /\ d = [n EXCEPT !.rv = v, !.mv = @ \ (Temps \ temps)]
      /\ d.sym = n.sym /\ d.reg = n.reg
  BY <1>1 DEF Settled, Machine
<1> HIDE DEF v, d
<1>3. d \in Machine
  BY <1>1, <1>2 DEF Machine
<1> QED
  BY <1>2, <1>3 DEF Coherent, Agree, d

-----------------------------------------------------------------------------
(* The steps.                                                              *)

LEMMA UsedTyped ==
    ASSUME live \in SUBSET Temps, NEW operands, NEW results, Used(operands, results)
    PROVE  live' \in SUBSET Temps
BY DEF Used

\* Every step keeps the types and the agreement of the descriptors.
LEMMA StepCoherent ==
    ASSUME TypeOK, Agree(m), [Next]_vars
    PROVE  TypeOK' /\ Agree(m)'
<1> USE DEF TypeOK
<1>1. Coherent(m)
  BY DEF Coherent
<1>2. ASSUME live' \in SUBSET Temps, phase' \in {"statements", "arguments", "transferred"},
             args' \in Seq(Symbols), NEW n, Coherent(n), m' = Settled(n, live')
      PROVE  TypeOK' /\ Agree(m)'
  BY <1>2, SettledCoherent DEF Coherent
<1>3. CASE Compare
  <2>1. PICK left \in Operands, right \in Operands, result \in NextResults :
           /\ Used({left, right}, {result})
           /\ m' = Settled(CompareCode(m, result, left, right), live')
    BY <1>3 DEF Compare
  <2> QED
    BY <1>1, <1>2, <1>3, <2>1, UsedTyped, OperandsAreSymbols, CompareCoherent
       DEF Compare, InBlock
<1>4. CASE Arithmetic
  <2>1. PICK left \in Operands, right \in Operands, result \in NextResults :
           /\ Used({left, right}, {result})
           /\ m' = Settled(ArithmeticCode(m, result, left, right), live')
    BY <1>4 DEF Arithmetic
  <2> QED
    BY <1>1, <1>2, <1>4, <2>1, UsedTyped, OperandsAreSymbols, ArithmeticCoherent
       DEF Arithmetic, InBlock
<1>5. CASE Divide
  <2>1. PICK left \in Operands, right \in Operands, result \in NextResults,
             quotient \in BOOLEAN :
           /\ Used({left, right}, {result})
           /\ m' = Settled(DivideCode(m, quotient, result, left, right), live')
    BY <1>5 DEF Divide
  <2> QED
    BY <1>1, <1>2, <1>5, <2>1, UsedTyped, OperandsAreSymbols, DivideCoherent
       DEF Divide, InBlock
<1>6. CASE Negate
  <2>1. PICK expr \in Operands, result \in NextResults :
           /\ Used({expr}, {result})
           /\ m' = Settled(NegateCode(m, result, expr), live')
    BY <1>6 DEF Negate
  <2> QED
    BY <1>1, <1>2, <1>6, <2>1, UsedTyped, OperandsAreSymbols, NegateCoherent
       DEF Negate, InBlock
<1>7. CASE Extend
  <2>1. PICK expr \in Variables, result \in NextResults :
           /\ Used({expr}, {result})
           /\ m' = Settled(ExtendCode(m, result, expr), live')
    BY <1>7 DEF Extend
  <2> QED
    BY <1>1, <1>2, <1>7, <2>1, UsedTyped, OperandsAreSymbols, ExtendCoherent
       DEF Extend, InBlock
<1>8. CASE Copy
  <2>1. PICK expr \in Operands, result \in Variables \cup NextResults :
           /\ Used({expr}, {result})
           /\ m' = Settled(CopyCode(m, result, expr), live')
    BY <1>8 DEF Copy
  <2> QED
    BY <1>1, <1>2, <1>8, <2>1, UsedTyped, OperandsAreSymbols, CopyCoherent
       DEF Copy, InBlock
<1>9. CASE Index
  <2>1. PICK array \in Arrays, index \in Operands, result \in NextResults :
           /\ Used({index}, {result})
           /\ m' = Settled(IndexCode(m, result, array, index), live')
    BY <1>9 DEF Index
  <2> QED
    BY <1>1, <1>2, <1>9, <2>1, UsedTyped, OperandsAreSymbols, IndexCoherent
       DEF Index, InBlock
<1>10. CASE Update
  <2>1. PICK array \in Arrays, index \in Operands, expr \in Operands :
           /\ Used({index, expr}, {})
           /\ m' = Settled(UpdateCode(m, array, index, expr), live')
    BY <1>10 DEF Update
  <2> QED
    BY <1>1, <1>2, <1>10, <2>1, UsedTyped, OperandsAreSymbols, UpdateCoherent
       DEF Update, InBlock
<1>11. CASE Branch
  <2>1. PICK left \in Operands, right \in Operands :
           /\ Used({left, right}, {})
           /\ m' = Settled(BranchCode(m, left, right), live')
    BY <1>11 DEF Branch
  <2> QED
    BY <1>1, <1>2, <1>11, <2>1, UsedTyped, OperandsAreSymbols, BranchCoherent
       DEF Branch
<1>12. CASE Jump
  BY <1>12 DEF Jump
<1>13. CASE Return
  <2>1. PICK expr \in Operands : m' = Settled(ReturnCode(m, expr), live')
    BY <1>13 DEF Return
  <2>2. live' \in SUBSET Temps
    BY <1>13 DEF Return
  <2> QED
    BY <1>1, <1>2, <1>13, <2>1, <2>2, OperandsAreSymbols, ReturnCoherent DEF Return
<1>14. CASE Call
  <2>1. PICK n \in 0..MaxArguments : args' \in [1..n -> Operands \cup Arrays]
    BY <1>14 DEF Call
  <2>2. args' \in [1..n -> Symbols]
    BY <2>1, OperandsAreSymbols
  <2>3. args' \in Seq(Symbols)
    BY <2>2, MaxArgumentsNat
  <2> QED
    BY <1>14, <2>3 DEF Call
<1>15. CASE LoadArgument
  <2> DEFINE arg == args[Len(args)]
  <2>1. arg \in Symbols /\ args' \in Seq(Symbols)
    BY <1>15 DEF LoadArgument
  <2>2. Used({arg}, {}) /\ m' = Settled(ArgumentCode(m, arg), live')
    BY <1>15 DEF LoadArgument
  <2> QED
    BY <1>1, <1>2, <1>15, <2>1, <2>2, UsedTyped, ArgumentCoherent DEF LoadArgument
<1>16. CASE Invoke
  <2>1. PICK result \in NextResults \cup {None} :
           /\ m' = Settled(InvokeCode(m, result), live')
           /\ Used({}, {result} \ {None})
    BY <1>16 DEF Invoke
  <2>2. result \in MaybeSymbol
    BY OperandsAreSymbols DEF MaybeSymbol
  <2> QED
    BY <1>1, <1>2, <1>16, <2>1, <2>2, UsedTyped, InvokeCoherent DEF Invoke
<1>17. CASE BlockEnd
  <2>1. live' \in SUBSET Temps
    BY <1>17 DEF BlockEnd
  <2> QED
    BY <1>1, <1>2, <1>17, <2>1, BlockEndCoherent DEF BlockEnd
<1>18. CASE UNCHANGED vars
  BY <1>18 DEF vars, Agree
<1> QED
  BY <1>3, <1>4, <1>5, <1>6, <1>7, <1>8, <1>9, <1>10, <1>11, <1>12, <1>13,
     <1>14, <1>15, <1>16, <1>17, <1>18 DEF Next

LEMMA InitCoherent ==
    ASSUME Init
    PROVE  TypeOK /\ Agree(m)
BY EmptyCoherent DEF Init, TypeOK, Coherent

\* Whatever is compiled, the generator's state has the types of the code's.
THEOREM TypeCorrect == Spec => []TypeOK
<1>1. Init => TypeOK /\ Agree(m)
  BY InitCoherent
<1>2. (TypeOK /\ Agree(m)) /\ [Next]_vars => (TypeOK /\ Agree(m))'
  BY StepCoherent
<1> QED
  BY <1>1, <1>2, PTL DEF Spec

\* Whatever is compiled, a register's symbol and a symbol's register are
\* inverses: assign (generator.cpp) never leaves one half behind.
THEOREM DescriptorsAlwaysAgree == Spec => []DescriptorsAgree
<1>1. Init => TypeOK /\ Agree(m)
  BY InitCoherent
<1>2. (TypeOK /\ Agree(m)) /\ [Next]_vars => (TypeOK /\ Agree(m))'
  BY StepCoherent
<1>3. TypeOK /\ Agree(m) => DescriptorsAgree
  BY DEF DescriptorsAgree
<1> QED
  BY <1>1, <1>2, <1>3, PTL DEF Spec

-----------------------------------------------------------------------------
(* Temporaries that are used once, and in their block.                     *)

\* The operands there are when these temporaries are live.
Source(temps) == Variables \cup Numbers \cup temps

LEMMA SourceFacts ==
    ASSUME NEW temps \in SUBSET Temps, NEW s \in Source(temps)
    PROVE  s \in Symbols /\ s \in temps \cup NonTemps /\ (s \in Temps => s \in temps)
BY KindsDisjoint DEF Source, NonTemps, Symbols

LEMMA ResultFacts ==
    ASSUME NEW temps \in SUBSET Temps, NEW t \in Temps \ temps
    PROVE  /\ t \in Symbols /\ t \notin Source(temps) /\ t \notin NonTemps
           /\ t \notin Variables /\ t \notin Arrays
BY KindsDisjoint DEF Source, NonTemps, Symbols

LEMMA ArrayFacts ==
    ASSUME NEW a \in Arrays
    PROVE  a \in Symbols /\ a \in NonTemps /\ a \notin Numbers
BY KindsDisjoint DEF Symbols, NonTemps

\* A temporary is not written back.
LEMMA SaveTemp ==
    ASSUME NEW n, NEW t \in Temps
    PROVE  Save(n, t) = n
BY KindsDisjoint DEF Save

\* cmpl, with both operands given up afterwards.
LEMMA BranchSound ==
    ASSUME NEW n, NEW temps, Sound(n, temps, temps, None),
           NEW left \in Source(temps), NEW right \in Source(temps)
    PROVE  Sound(BranchCode(n, left, right),
                 temps \ {left, right}, temps \ {left, right}, None)
<1> DEFINE a == Load(n, left, Registers)
           b == ReadOperands(a, {left, right})
           c == Release(b, left)
           d == Release(c, right)
<1>1. /\ left \in Symbols /\ left \in temps \cup NonTemps
      /\ right \in Symbols /\ right \in temps \cup NonTemps
  BY SourceFacts DEF Sound
<1>2. Sound(a, temps, temps \cup {left}, None)
  BY <1>1, LoadSound, RegistersArePool, NullDistinct
<1>3. b = a
  <2> HIDE DEF a
  <2> QED
    BY <1>1, <1>2, ReadOperandsSound, NullDistinct
<1> HIDE DEF a, b
<1>4. Sound(c, temps \ {left}, (temps \cup {left}) \ {left}, None)
  BY <1>1, <1>2, <1>3, ReleaseSound
<1> HIDE DEF c
<1>5. Sound(d, (temps \ {left}) \ {right}, ((temps \cup {left}) \ {left}) \ {right}, None)
  BY <1>1, <1>4, ReleaseSound
<1>6. /\ (temps \ {left}) \ {right} = temps \ {left, right}
      /\ ((temps \cup {left}) \ {left}) \ {right} = temps \ {left, right}
  OBVIOUS
<1> QED
  BY <1>5, <1>6 DEF BranchCode, a, b, c, d

\* The comparison's operands are released before the result gets a register.
LEMMA CompareSound ==
    ASSUME NEW n, NEW temps, Sound(n, temps, temps, None),
           NEW left \in Source(temps), NEW right \in Source(temps),
           NEW result \in Temps \ temps
    PROVE  LET after == (temps \ {left, right}) \cup {result}
           IN  Sound(CompareCode(n, result, left, right), after, after, None)
<1> DEFINE a == BranchCode(n, left, right)
           b == AssignNew(a, result, Registers)
           c == Define(b, result, b.reg[result])
           rest == temps \ {left, right}
<1>1. result \in Symbols /\ result \notin rest
  BY ResultFacts DEF Sound
<1>2. Sound(a, rest, rest, None)
  BY BranchSound
<1> HIDE DEF a
<1>3. /\ Sound(b, rest, rest \cup {result}, b.reg[result])
      /\ b.reg[result] \in Registers /\ b.sym[b.reg[result]] = result
  BY <1>1, <1>2, AssignNewSound
<1> HIDE DEF b
<1>4. Sound(c, rest \cup {result}, rest \cup {result}, None)
  BY <1>3, DefineSound
<1> QED
  BY <1>4, SaveTemp DEF CompareCode, a, b, c

\* The right operand is read when the result has already taken the left
\* operand's register over: it is neither that register nor lost.
LEMMA ArithmeticSound ==
    ASSUME NEW n, NEW temps, Sound(n, temps, temps, None),
           NEW left \in Source(temps), NEW right \in Source(temps),
           left = right => left \notin Temps,
           NEW result \in Temps \ temps
    PROVE  LET after == (temps \ {left, right}) \cup {result}
           IN  Sound(ArithmeticCode(n, result, left, right), after, after, None)
<1> DEFINE a == GetReg(n, result, left)
           r == a.reg[result]
           b == ReadRegister(a, left, r)
           c == ReadOperands(b, {right})
           d == Define(c, result, c.reg[result])
           e == Release(d, right)
           after == (temps \ {left, right}) \cup {result}
<1>1. /\ left \in Symbols /\ left \in temps \cup NonTemps
      /\ right \in Symbols /\ right \in temps \cup NonTemps
      /\ result \in Symbols /\ result \notin temps /\ result # left /\ result # right
      /\ right \in (temps \ {left}) \cup NonTemps
  BY SourceFacts, ResultFacts DEF Sound, NonTemps
<1>2. /\ Sound(a, temps \ {left}, (temps \ {left}) \cup {result}, r)
      /\ r \in Registers /\ a.sym[r] = result /\ left \in a.rv[r]
  BY <1>1, GetRegSound
<1> HIDE DEF a, r
<1>3. b = a
  BY <1>2, ReadRegisterSound DEF Sound
<1>4. c = a
  BY <1>1, <1>2, <1>3, ReadOperandsSound
<1> HIDE DEF b, c
<1>5. Sound(d, (temps \ {left}) \cup {result}, (temps \ {left}) \cup {result}, None)
  BY <1>2, <1>4, DefineSound DEF r
<1> HIDE DEF d
<1>6. Sound(e, ((temps \ {left}) \cup {result}) \ {right},
               ((temps \ {left}) \cup {result}) \ {right}, None)
  BY <1>1, <1>5, ReleaseSound
<1>7. ((temps \ {left}) \cup {result}) \ {right} = after
  BY <1>1
<1> HIDE DEF e
<1>8. Sound(Save(e, result), after, after, None)
  BY <1>6, <1>7, SaveTemp
<1> QED
  BY <1>8 DEF ArithmeticCode, a, b, c, d, e, r

LEMMA NegateSound ==
    ASSUME NEW n, NEW temps, Sound(n, temps, temps, None),
           NEW expr \in Source(temps), NEW result \in Temps \ temps
    PROVE  LET after == (temps \ {expr}) \cup {result}
           IN  Sound(NegateCode(n, result, expr), after, after, None)
<1> DEFINE a == GetReg(n, result, expr)
           r == a.reg[result]
           b == ReadRegister(a, expr, r)
           after == (temps \ {expr}) \cup {result}
<1>1. /\ expr \in Symbols /\ expr \in temps \cup NonTemps
      /\ result \in Symbols /\ result \notin temps /\ result # expr
  BY SourceFacts, ResultFacts DEF Sound
<1>2. /\ Sound(a, temps \ {expr}, after, r)
      /\ r \in Registers /\ a.sym[r] = result /\ expr \in a.rv[r]
  BY <1>1, GetRegSound
<1> HIDE DEF a, r
<1>3. b = a
  BY <1>2, ReadRegisterSound DEF Sound
<1>4. Sound(Define(b, result, b.reg[result]), after, after, None)
  BY <1>2, <1>3, DefineSound DEF r
<1>5. Sound(Save(Define(b, result, b.reg[result]), result), after, after, None)
  BY <1>4, SaveTemp
<1> QED
  BY <1>5 DEF NegateCode, a, b, r

\* movsbl reads a variable, whatever register the result is given.
LEMMA ExtendSound ==
    ASSUME NEW n, NEW temps, Sound(n, temps, temps, None),
           NEW expr \in Variables, NEW result \in Temps \ temps
    PROVE  LET after == (temps \ {expr}) \cup {result}
           IN  Sound(ExtendCode(n, result, expr), after, after, None)
<1> DEFINE a == AssignNew(n, result, Registers)
           r == a.reg[result]
           b == ReadOperands(a, {expr})
           after == (temps \ {expr}) \cup {result}
<1>1. /\ expr \in Symbols /\ expr \in NonTemps /\ expr \notin temps
      /\ result \in Symbols /\ result \notin temps /\ result # expr
  BY ResultFacts, KindsDisjoint DEF Sound, NonTemps, Symbols
<1>2. /\ Sound(a, temps, temps \cup {result}, r)
      /\ r \in Registers /\ a.sym[r] = result
  BY <1>1, AssignNewSound
<1> HIDE DEF a, r
<1>3. b = a
  BY <1>1, <1>2, ReadOperandsSound
<1>4. Sound(Define(b, result, b.reg[result]), temps \cup {result}, temps \cup {result}, None)
  BY <1>2, <1>3, DefineSound DEF r
<1>5. after = temps \cup {result}
  BY <1>1
<1>6. Sound(Save(Define(b, result, b.reg[result]), result), after, after, None)
  BY <1>4, <1>5, SaveTemp
<1> QED
  BY <1>6 DEF ExtendCode, a, b, r

\* The divisor, if it is an immediate, is brought into ecx.
LEMMA DivisorSound ==
    ASSUME NEW n, NEW temps, Sound(n, temps, temps, None), NEW right \in Source(temps)
    PROVE  Sound(DivisorCode(n, right), temps, temps \cup {right}, None)
<1> DEFINE a == Spill(n, "ecx")
           b == Assign(a, right, "ecx")
           c == LoadInto(b, right, "ecx")
<1>1. CASE ~(right \in Numbers /\ n.reg[right] # "ecx")
  BY <1>1, SoundWeaker DEF DivisorCode
<1>2. CASE right \in Numbers /\ n.reg[right] # "ecx"
  <2>1. "ecx" \in Registers /\ "ecx" # None /\ right \in Symbols /\ right \in NonTemps
        /\ right \notin temps
    BY <1>2, NullDistinct, KindsDisjoint DEF Registers, NonTemps, Symbols, Sound
  <2>2. /\ Sound(a, temps, temps, None)
        /\ \A q \in Registers : a.sym[q] = IF q = "ecx" THEN None ELSE n.sym[q]
    BY <2>1, SpillSound
  <2>3. Coherent(a) /\ Coherent(b)
    BY <2>1, <2>2, AssignCoherent, NullDistinct DEF Sound, MaybeSymbol, MaybeRegister
  <2>4. /\ \A q \in Registers :
              b.sym[q] = IF q = "ecx" THEN right
                         ELSE IF a.sym[q] = right THEN None ELSE a.sym[q]
        /\ b.rv = a.rv /\ b.mv = a.mv /\ b.stale = a.stale
    BY <2>1, <2>3, AssignEffect DEF MaybeSymbol
  <2> HIDE DEF a, b
  <2>5. Sound(b, temps, temps \cup {right}, "ecx")
    <3>1. None \notin temps
      BY NullNotKept
    <3>2. ASSUME NEW t \in temps, \A q \in Registers : b.sym[q] # t
          PROVE  t \in b.mv
      <4>1. \A q \in Registers : a.sym[q] # t
        BY <2>1, <2>2, <2>4, <3>1, <3>2
      <4> QED
        BY <2>2, <2>4, <4>1 DEF Sound
    <3>3. ASSUME NEW q \in Registers, q # "ecx", b.sym[q] # None
          PROVE  b.sym[q] \in b.rv[q]
      BY <2>2, <2>4, <3>3, NullDistinct DEF Sound
    <3>4. \A q \in Registers : b.sym[q] \in temps \cup {right} \cup {None}
      BY <2>2, <2>4 DEF Sound
    <3>5. b.stale = {} /\ temps \subseteq Temps /\ NonTemps \subseteq b.mv
      BY <2>2, <2>4 DEF Sound
    <3>6. b.sym["ecx"] \notin temps
      BY <2>1, <2>4
    <3> QED
      BY <2>3, <3>2, <3>3, <3>4, <3>5, <3>6 DEF Sound
  <2>6. right \in b.mv /\ b.sym["ecx"] = right
    BY <2>1, <2>4, <2>5 DEF Sound
  <2>7. Sound(c, temps, temps \cup {right}, None)
    BY <2>1, <2>5, <2>6, LoadFluxSound
  <2> QED
    BY <1>2, <2>7 DEF DivisorCode, a, b, c
<1> QED
  BY <1>1, <1>2

\* What is in a register that belongs to nobody does not matter.
LEMMA FreeRegisterSound ==
    ASSUME NEW n, NEW kept, NEW owners, Sound(n, kept, owners, None),
           NEW r \in Registers, n.sym[r] = None, NEW v \in SUBSET Symbols
    PROVE  LET p == [n EXCEPT !.rv[r] = v] IN
           /\ Sound(p, kept, owners, None)
           /\ p.sym = n.sym /\ p.reg = n.reg /\ p.mv = n.mv
           /\ \A a \in Registers : p.rv[a] = IF a = r THEN v ELSE n.rv[a]
<1> DEFINE p == [n EXCEPT !.rv[r] = v]
<1>1. Coherent(n) /\ Coherent(p)
  BY DEF Sound, Coherent, Machine, Agree
<1>2. /\ p.sym = n.sym /\ p.reg = n.reg /\ p.mv = n.mv /\ p.stale = n.stale
      /\ \A a \in Registers : p.rv[a] = IF a = r THEN v ELSE n.rv[a]
  BY <1>1 DEF Coherent, Machine
<1> HIDE DEF p
<1>3. Sound(p, kept, owners, None)
  BY <1>1, <1>2 DEF Sound
<1> QED
  BY <1>2, <1>3 DEF p

\* The dividend's value is in eax, which belongs to it or to nobody.
LEMMA DividendSound ==
    ASSUME NEW n, NEW temps, NEW owners, Sound(n, temps, owners, None),
           NEW left \in Source(temps)
    PROVE  LET p == DividendCode(n, left) IN
           /\ Sound(p, temps, owners, None)
           /\ left \in p.rv["eax"] /\ p.sym["eax"] \in {left, None}
<1> DEFINE a == Spill(n, "eax")
<1>1. "eax" \in Registers /\ "eax" # None /\ left \in Symbols
      /\ left \in temps \cup NonTemps /\ Coherent(n)
  BY NullDistinct, SourceFacts DEF Registers, Sound
<1>2. /\ Sound(a, temps, owners, None)
      /\ \A q \in Registers : a.sym[q] = IF q = "eax" THEN None ELSE n.sym[q]
      /\ a.rv = n.rv /\ n.mv \subseteq a.mv
  BY <1>1, SpillSound
<1>3. \A v \in SUBSET Symbols :
         LET p == [a EXCEPT !.rv["eax"] = v] IN
         /\ Sound(p, temps, owners, None)
         /\ p.sym["eax"] = None /\ p.rv["eax"] = v
  BY <1>1, <1>2, FreeRegisterSound
<1>4. CASE n.reg[left] = None
  <2>1. left \in n.mv
    BY <1>1, <1>4, SoundCurrent, NullDistinct
  <2> DEFINE v == {left} \cap a.mv
  <2>2. v \in SUBSET Symbols /\ left \in v
    BY <1>1, <1>2, <2>1
  <2>3. DividendCode(n, left) = [a EXCEPT !.rv["eax"] = v]
    BY <1>1, <1>4 DEF DividendCode, LoadInto
  <2> HIDE DEF a, v
  <2> QED
    BY <1>3, <2>2, <2>3
<1>5. CASE n.reg[left] = "eax"
  <2>1. left \in n.rv["eax"]
    BY <1>1, <1>5, SoundCurrent, NullDistinct
  <2>2. n.sym["eax"] = left
    BY <1>1, <1>5 DEF Coherent, Agree
  <2> QED
    BY <1>1, <1>5, <2>1, <2>2 DEF DividendCode
<1>6. CASE n.reg[left] # None /\ n.reg[left] # "eax"
  <2>1. n.reg[left] \in Registers /\ left \in n.rv[n.reg[left]]
    BY <1>1, <1>6, SoundCurrent, NullDistinct
  <2>2. a.rv[n.reg[left]] \in SUBSET Symbols /\ left \in a.rv[n.reg[left]]
    BY <1>1, <1>2, <2>1 DEF Coherent, Machine
  <2>3. DividendCode(n, left) = [a EXCEPT !.rv["eax"] = a.rv[n.reg[left]]]
    BY <1>6 DEF DividendCode, Move
  <2> QED
    BY <1>3, <2>2, <2>3
<1> QED
  BY <1>4, <1>5, <1>6

\* idivl overwrites eax and edx: the result is in one of them, and neither
\* belongs to a temporary that is still to be used.
LEMMA QuotientSound ==
    ASSUME NEW n, NEW temps, NEW owners, Sound(n, temps, owners, None),
           NEW left \in Symbols, NEW result \in Temps \ temps, result \notin owners,
           n.sym["eax"] \in {left, None}, n.sym["edx"] = None,
           NEW to, NEW other,
           (to = "eax" /\ other = "edx") \/ (to = "edx" /\ other = "eax")
    PROVE  LET p == Define(Clobber(n, other), result, to) IN
           /\ Sound(p, temps \ {left}, owners, "eax")
           /\ p.sym = n.sym /\ p.reg = n.reg /\ p.rv[to] = {result} /\ result \notin p.mv
<1> DEFINE a == Clobber(n, other)
           p == Define(a, result, to)
<1>1. /\ to \in Registers /\ other \in Registers /\ "eax" \in Registers
      /\ result \in Symbols /\ result \notin NonTemps /\ result \notin temps
  BY ResultFacts DEF Registers, Sound
<1>2. Coherent(n) /\ Coherent(a) /\ Coherent(p)
  BY <1>1, ClobberCoherent, DefineCoherent DEF Sound, MaybeRegister
<1>3. /\ a.sym = n.sym /\ a.reg = n.reg /\ a.mv = n.mv /\ a.stale = n.stale
      /\ \A q \in Registers : a.rv[q] = IF q = other THEN {} ELSE n.rv[q]
  BY <1>1, <1>2 DEF Clobber, Coherent, Machine
<1>4. /\ p.sym = a.sym /\ p.reg = a.reg /\ p.mv = a.mv \ {result} /\ p.stale = a.stale
      /\ \A q \in Registers : p.rv[q] = IF q = to THEN {result} ELSE a.rv[q] \ {result}
  BY <1>1, <1>2 DEF Define, Coherent, Machine
<1>5. None \notin temps
  BY NullNotKept
<1> HIDE DEF a, p
<1>6. Sound(p, temps \ {left}, owners, "eax")
  <2>1. ASSUME NEW t \in temps \ {left}, \A q \in Registers : p.sym[q] # t
        PROVE  t \in p.mv
    BY <1>1, <1>3, <1>4, <2>1 DEF Sound
  <2>2. ASSUME NEW q \in Registers, q # "eax", p.sym[q] # None
        PROVE  p.sym[q] \in p.rv[q]
    <3>1. q = "ecx"
      BY <1>3, <1>4, <2>2 DEF Registers
    <3>2. n.sym[q] \in n.rv[q]
      BY <1>3, <1>4, <2>2, NullDistinct DEF Sound
    <3>3. n.sym[q] # result
      BY <1>1, NullDistinct DEF Sound
    <3>4. q # to /\ q # other
      BY <3>1
    <3>5. p.rv[q] = n.rv[q] \ {result} /\ p.sym[q] = n.sym[q]
      BY <1>3, <1>4, <2>2, <3>4
    <3> QED
      BY <3>2, <3>3, <3>5
  <2>3. \A q \in Registers : p.sym[q] \in owners \cup {None}
    BY <1>3, <1>4 DEF Sound
  <2>4. p.stale = {} /\ temps \ {left} \subseteq Temps /\ NonTemps \subseteq p.mv
    BY <1>1, <1>3, <1>4 DEF Sound
  <2>5. p.sym["eax"] \notin temps \ {left}
    BY <1>3, <1>4, <1>5
  <2> QED
    BY <1>2, <2>1, <2>2, <2>3, <2>4, <2>5 DEF Sound
<1> QED
  BY <1>1, <1>3, <1>4, <1>6 DEF a, p

\* A register that belongs to nobody is not in flux.
LEMMA FluxFree ==
    ASSUME NEW n, NEW kept, NEW owners, NEW r \in Registers,
           Sound(n, kept, owners, r), n.sym[r] = None
    PROVE  Sound(n, kept, owners, None)
BY NullDistinct DEF Sound

\* A temporary is assigned to a free register that already contains its value.
LEMMA PlaceSound ==
    ASSUME NEW n, NEW kept, NEW owners, Sound(n, kept, owners, None),
           NEW r \in Registers, n.sym[r] = None,
           NEW s \in Temps, s \notin kept, s \in n.rv[r]
    PROVE  Sound(Assign(n, s, r), kept \cup {s}, owners \cup {s}, None)
<1> DEFINE p == Assign(n, s, r)
<1>1. s \in Symbols /\ s # None
  BY NullDistinct DEF Symbols
<1>2. Coherent(n) /\ Coherent(p)
  BY <1>1, AssignCoherent, NullDistinct DEF Sound, MaybeSymbol, MaybeRegister
<1>3. /\ \A a \in Registers :
            p.sym[a] = IF a = r THEN s ELSE IF n.sym[a] = s THEN None ELSE n.sym[a]
      /\ p.rv = n.rv /\ p.mv = n.mv /\ p.stale = n.stale
  BY <1>1, <1>2, AssignEffect DEF MaybeSymbol
<1>4. None \notin kept
  BY NullNotKept
<1> HIDE DEF p
<1>5. ASSUME NEW t \in kept \cup {s}, \A a \in Registers : p.sym[a] # t
      PROVE  t \in p.mv
  <2>1. t # s
    BY <1>3, <1>5
  <2>2. \A a \in Registers : n.sym[a] # t
    BY <1>3, <1>4, <1>5, <2>1
  <2> QED
    BY <1>3, <2>1, <2>2 DEF Sound
<1>6. ASSUME NEW a \in Registers, p.sym[a] # None
      PROVE  p.sym[a] \in p.rv[a]
  BY <1>3, <1>6, NullDistinct DEF Sound
<1>7. \A a \in Registers : p.sym[a] \in owners \cup {s} \cup {None}
  BY <1>3 DEF Sound
<1>8. p.stale = {} /\ kept \cup {s} \subseteq Temps /\ NonTemps \subseteq p.mv
  BY <1>3 DEF Sound
<1> QED
  BY <1>2, <1>5, <1>6, <1>7, <1>8, NullDistinct DEF Sound, p

\* Division: the dividend in eax, edx free, the divisor anywhere else, and a
\* temporary that was in one of them kept in memory.
LEMMA DivideSound ==
    ASSUME NEW n, NEW temps, Sound(n, temps, temps, None),
           NEW left \in Source(temps), NEW right \in Source(temps),
           NEW result \in Temps \ temps, NEW quotient \in BOOLEAN
    PROVE  LET after == (temps \ {left, right}) \cup {result}
           IN  Sound(DivideCode(n, quotient, result, left, right), after, after, None)
<1> DEFINE a0 == DivisorCode(n, right)
           a1 == DividendCode(a0, left)
           a2 == Spill(a1, "edx")
           a3 == Clobber(a2, "edx")
           b  == ReadOperands(ReadRegister(a3, left, "eax"), {right})
           to    == IF quotient THEN "eax" ELSE "edx"
           other == IF quotient THEN "edx" ELSE "eax"
           p  == Define(Clobber(b, other), result, to)
           c  == Release(p, right)
           d  == Deallocate(c, c.reg[left])
           e  == Assign(d, result, to)
           owners == temps \cup {right}
           after == (temps \ {left, right}) \cup {result}
<1>1. /\ "eax" \in Registers /\ "edx" \in Registers /\ None # "eax" /\ None # "edx"
      /\ left \in Symbols /\ right \in Symbols /\ right \in temps \cup NonTemps
      /\ result \in Temps /\ result \notin owners /\ result \notin temps
      /\ left # None /\ right # None
  BY NullDistinct, SourceFacts, ResultFacts DEF Registers, Sound
<1>2. /\ (to = "eax" /\ other = "edx") \/ (to = "edx" /\ other = "eax")
      /\ to \in Registers
  BY <1>1
<1> HIDE DEF to, other
<1>3. Sound(a0, temps, owners, None)
  BY DivisorSound
<1> HIDE DEF a0
<1>4. /\ Sound(a1, temps, owners, None)
      /\ left \in a1.rv["eax"] /\ a1.sym["eax"] \in {left, None}
  BY <1>3, DividendSound
<1> HIDE DEF a1
<1>5. /\ Sound(a2, temps, owners, None)
      /\ left \in a2.rv["eax"] /\ a2.sym["eax"] \in {left, None} /\ a2.sym["edx"] = None
  BY <1>1, <1>4, SpillSound
<1> HIDE DEF a2
<1>6. /\ Sound(a3, temps, owners, None)
      /\ left \in a3.rv["eax"] /\ a3.sym["eax"] \in {left, None} /\ a3.sym["edx"] = None
  <2>1. a3 = [a2 EXCEPT !.rv["edx"] = {}]
    BY DEF Clobber
  <2> HIDE DEF a3
  <2> QED
    BY <1>1, <1>5, <2>1, FreeRegisterSound
<1> HIDE DEF a3
<1>7. b = a3
  <2>1. ReadRegister(a3, left, "eax") = a3
    BY <1>6, ReadRegisterSound DEF Sound
  <2>2. ReadOperands(a3, {right}) = a3
    BY <1>1, <1>6, ReadOperandsSound, NullDistinct
  <2> QED
    BY <2>1, <2>2
<1> HIDE DEF b
<1> HIDE DEF owners
<1>8. /\ Sound(p, temps \ {left}, owners, "eax")
      /\ p.sym = a3.sym /\ p.rv[to] = {result}
  <2>1. /\ Sound(b, temps, owners, None)
        /\ b.sym["eax"] \in {left, None} /\ b.sym["edx"] = None
    BY <1>6, <1>7
  <2>2. result \in Temps \ temps
    BY <1>1
  <2> QED
    BY <1>1, <1>2, <1>7, <2>1, <2>2, QuotientSound
<1> HIDE DEF p
<1>9. /\ Sound(c, (temps \ {left}) \ {right}, owners \ {right}, "eax")
      /\ c.rv = p.rv
      /\ \A q \in Registers : c.sym[q] = IF p.sym[q] = right THEN None ELSE p.sym[q]
  <2>1. Coherent(p)
    BY <1>8 DEF Sound
  <2>2. Sound(c, (temps \ {left}) \ {right}, owners \ {right}, "eax")
    BY <1>1, <1>8, ReleaseSound
  <2> QED
    BY <1>1, <2>1, <2>2, ReleaseEffect
<1>10. d = Release(c, left)
  BY DEF Release
<1> HIDE DEF c, d
<1>11. /\ Sound(d, ((temps \ {left}) \ {right}) \ {left}, (owners \ {right}) \ {left}, "eax")
       /\ d.rv = c.rv
       /\ \A q \in Registers : d.sym[q] = IF c.sym[q] = left THEN None ELSE c.sym[q]
  <2>1. Coherent(c)
    BY <1>9 DEF Sound
  <2>2. Sound(d, ((temps \ {left}) \ {right}) \ {left}, (owners \ {right}) \ {left}, "eax")
    BY <1>1, <1>9, <1>10, ReleaseSound
  <2> QED
    BY <1>1, <1>10, <2>1, <2>2, ReleaseEffect
<1>12. d.sym["eax"] = None /\ d.sym["edx"] = None
  BY <1>1, <1>6, <1>8, <1>9, <1>11
<1>13. /\ ((temps \ {left}) \ {right}) \ {left} = temps \ {left, right}
       /\ (owners \ {right}) \ {left} = temps \ {left, right}
  BY DEF owners
<1>14. Sound(d, temps \ {left, right}, temps \ {left, right}, None)
  BY <1>1, <1>11, <1>12, <1>13, FluxFree
<1>15. d.sym[to] = None /\ result \in d.rv[to]
  BY <1>2, <1>8, <1>9, <1>11, <1>12
<1>16. Sound(e, after, after, None)
  BY <1>1, <1>2, <1>14, <1>15, PlaceSound
<1> HIDE DEF e, after
<1>17. Sound(Save(e, result), after, after, None)
  BY <1>1, <1>16, SaveTemp
<1> QED
  BY <1>17 DEF DivideCode, a0, a1, a2, a3, b, p, c, d, e, to, other, after

\* The value returned is in eax, whatever eax held before.
LEMMA ReturnSound ==
    ASSUME NEW n, NEW temps, Sound(n, temps, temps, None), NEW expr \in Source(temps)
    PROVE  Sound(ReturnCode(n, expr), {}, Symbols, None)
<1> DEFINE a == CASE n.reg[expr] = None  -> LoadInto(n, expr, "eax")
                  [] n.reg[expr] = "eax" -> n
                  [] OTHER               -> Move(n, n.reg[expr], "eax")
           b == ReadRegister(a, expr, "eax")
           c == Release(b, expr)
<1>1. /\ "eax" \in Registers /\ "eax" # None /\ expr \in Symbols
      /\ expr \in temps \cup NonTemps /\ Coherent(n)
  BY NullDistinct, SourceFacts DEF Registers, Sound
<1>2. Sound(n, {}, Symbols, "eax")
  BY <1>1, CoherentRanges DEF Sound, MaybeSymbol
<1>3. Sound(a, {}, Symbols, "eax") /\ expr \in a.rv["eax"]
  <2>1. CASE n.reg[expr] = None
    <3>1. expr \in n.mv
      BY <1>1, <2>1, SoundCurrent, NullDistinct
    <3>2. a = LoadInto(n, expr, "eax")
      BY <1>1, <2>1
    <3> HIDE DEF a
    <3> QED
      BY <1>1, <1>2, <3>1, <3>2, LoadFluxSound
  <2>2. CASE n.reg[expr] = "eax"
    <3>1. a = n
      BY <1>1, <2>2
    <3> HIDE DEF a
    <3> QED
      BY <1>1, <1>2, <2>2, <3>1, SoundCurrent, NullDistinct
  <2>3. CASE n.reg[expr] # None /\ n.reg[expr] # "eax"
    <3>1. n.reg[expr] \in Registers /\ expr \in n.rv[n.reg[expr]]
      BY <1>1, <2>3, SoundCurrent, NullDistinct
    <3>2. a = Move(n, n.reg[expr], "eax")
      BY <1>1, <2>3
    <3> HIDE DEF a
    <3>3. Coherent(a)
      BY <1>1, <3>1, <3>2, MoveCoherent DEF MaybeRegister
    <3>4. /\ a.sym = n.sym /\ a.mv = n.mv /\ a.stale = n.stale
          /\ \A q \in Registers :
                a.rv[q] = IF q = "eax" THEN n.rv[n.reg[expr]] ELSE n.rv[q]
      BY <1>1, <3>2 DEF Move, Coherent, Machine
    <3> QED
      BY <1>1, <1>2, <3>1, <3>3, <3>4 DEF Sound
  <2> QED
    BY <2>1, <2>2, <2>3
<1> HIDE DEF a
<1>4. b = a
  BY <1>3, ReadRegisterSound DEF Sound
<1> HIDE DEF b
<1>5. Sound(c, {}, Symbols, "eax")
  <2>1. Sound(c, {} \ {expr}, Symbols \ {expr}, "eax")
    BY <1>1, <1>3, <1>4, ReleaseSound
  <2>2. {} \ {expr} = {}
    OBVIOUS
  <2> HIDE DEF c
  <2> QED
    BY <2>1, <2>2, SoundWeaker
<1> HIDE DEF c
<1>6. Coherent(c) /\ Coherent(Deallocate(c, "eax"))
  BY <1>1, <1>5, DeallocateCoherent DEF Sound, MaybeRegister
<1>7. Sound(Deallocate(c, "eax"), {}, Symbols, None)
  BY <1>1, <1>5, <1>6, DeallocateEffect, NullDistinct DEF Sound
<1> QED
  BY <1>7 DEF ReturnCode, a, b, c

-----------------------------------------------------------------------------
(* Copies.                                                                 *)

\* An immediate is stored straight into the variable's home.
LEMMA CopyNumberSound ==
    ASSUME NEW n, NEW temps, Sound(n, temps, temps, None), NEW result \in Variables
    PROVE  Sound([Define(n, result, None) EXCEPT !.mv = @ \cup {result}],
                 temps, temps, None)
<1> DEFINE a == Define(n, result, None)
           p == [a EXCEPT !.mv = @ \cup {result}]
<1>1. result \in Symbols /\ result \notin temps /\ result # None /\ result \in NonTemps
  BY KindsDisjoint, NullDistinct DEF Symbols, Sound, NonTemps
<1>2. Coherent(n) /\ Coherent(a)
  BY <1>1, DefineCoherent DEF Sound, MaybeRegister
<1>3. /\ a.sym = n.sym /\ a.mv = n.mv \ {result} /\ a.stale = n.stale
      /\ \A q \in Registers : a.rv[q] = n.rv[q] \ {result}
  BY <1>2, NullDistinct DEF Define, Coherent, Machine
<1> HIDE DEF a
<1>4. Coherent(p) /\ p.sym = a.sym /\ p.mv = a.mv \cup {result} /\ p.stale = a.stale
      /\ p.rv = a.rv
  BY <1>1, <1>2 DEF Coherent, Agree, Machine
<1> HIDE DEF p
<1>5. ASSUME NEW q \in Registers, p.sym[q] # None
      PROVE  p.sym[q] \in p.rv[q]
  BY <1>1, <1>3, <1>4, <1>5, NullDistinct DEF Sound
<1> QED
  BY <1>1, <1>3, <1>4, <1>5, NullDistinct DEF Sound, p, a

\* A variable is written back and its register given up.
LEMMA WriteBackSound ==
    ASSUME NEW n, NEW kept, NEW owners, NEW r \in Registers, Sound(n, kept, owners, r),
           NEW x \in Variables, n.sym[r] = x, NEW s \in Symbols, s \in n.rv[r], s # x
    PROVE  Sound(Save(DefineAs(n, x, s), x), kept, owners \ {x}, None)
<1> DEFINE a == DefineAs(n, x, s)
           b == Store(a, a.reg[x], x)
           c == Release(b, x)
<1>1. x \in Symbols /\ x \in NonTemps /\ x \notin kept /\ Coherent(n)
  BY KindsDisjoint DEF Symbols, NonTemps, Sound
<1>2. /\ Coherent(a) /\ a.sym = n.sym /\ a.reg = n.reg
      /\ a.mv = n.mv \ {x} /\ a.stale = n.stale
      /\ \A q \in Registers :
            a.rv[q] = IF s \in n.rv[q] THEN n.rv[q] \cup {x} ELSE n.rv[q] \ {x}
  <2>1. x # s /\ s \in Symbols
    OBVIOUS
  <2>2. Coherent(a)
    BY <1>1, <2>1, DefineAsCoherent
  <2> QED
    BY <1>1, <2>1, <2>2 DEF DefineAs, Coherent, Machine
<1>3. n.reg[x] = r /\ \A q \in Registers : n.sym[q] = x => q = r
  BY <1>1 DEF Coherent, Agree
<1> HIDE DEF a
<1>4. Coherent(b)
  BY <1>1, <1>2, <1>3, StoreCoherent DEF MaybeRegister
<1>5. b.sym = a.sym /\ b.mv = a.mv \cup {x} /\ b.stale = a.stale /\ b.rv = a.rv
  BY <1>2, <1>3 DEF Store, Coherent, Machine
<1> HIDE DEF b
<1>6. Sound(b, kept, owners, r)
  <2>1. ASSUME NEW q \in Registers, q # r, b.sym[q] # None
        PROVE  b.sym[q] \in b.rv[q]
    <3>1. n.sym[q] # x /\ n.sym[q] \in n.rv[q] /\ b.sym[q] = n.sym[q]
      BY <1>2, <1>3, <1>5, <2>1 DEF Sound
    <3>2. n.sym[q] \in a.rv[q]
      BY <1>2, <3>1
    <3> QED
      BY <1>5, <3>1, <3>2
  <2>2. ASSUME NEW t \in kept, \A q \in Registers : b.sym[q] # t
        PROVE  t \in b.mv
    BY <1>1, <1>2, <1>5, <2>2 DEF Sound
  <2> QED
    BY <1>1, <1>2, <1>4, <1>5, <2>1, <2>2 DEF Sound
<1>7. Sound(c, kept \ {x}, owners \ {x}, None)
  BY <1>1, <1>2, <1>5, <1>6, ReleaseSound
<1>8. kept \ {x} = kept
  BY <1>1
<1> QED
  BY <1>7, <1>8 DEF Save, a, b, c

\* The value of a temporary is made the one its register in flux contains.
LEMMA TakeValueSound ==
    ASSUME NEW n, NEW kept, NEW owners, NEW r \in Registers, Sound(n, kept, owners, r),
           NEW s \in Temps, n.sym[r] = s, NEW t \in Symbols, t \in n.rv[r], s # t
    PROVE  Sound(DefineAs(n, s, t), kept \cup {s}, owners, None)
<1> DEFINE a == DefineAs(n, s, t)
<1>1. s \in Symbols /\ s \notin NonTemps /\ s # None /\ Coherent(n)
  BY NullDistinct DEF Symbols, NonTemps, Sound
<1>2. Coherent(a)
  BY <1>1, DefineAsCoherent
<1>3. /\ a.sym = n.sym /\ a.mv = n.mv \ {s} /\ a.stale = n.stale
      /\ \A q \in Registers :
            a.rv[q] = IF t \in n.rv[q] THEN n.rv[q] \cup {s} ELSE n.rv[q] \ {s}
  BY <1>1, <1>2 DEF DefineAs, Coherent, Machine
<1>4. \A q \in Registers : n.sym[q] = s => q = r
  BY <1>1 DEF Coherent, Agree
<1> HIDE DEF a
<1>5. ASSUME NEW q \in Registers, a.sym[q] # None
      PROVE  a.sym[q] \in a.rv[q]
  <2>1. CASE q = r
    BY <1>3, <2>1
  <2>2. CASE q # r
    BY <1>3, <1>4, <1>5, <2>2 DEF Sound
  <2> QED
    BY <2>1, <2>2
<1>6. ASSUME NEW u \in kept \cup {s}, \A q \in Registers : a.sym[q] # u
      PROVE  u \in a.mv
  BY <1>3, <1>6 DEF Sound
<1>7. \A q \in Registers : a.sym[q] \in owners \cup {None}
  BY <1>3 DEF Sound
<1>8. a.stale = {} /\ kept \cup {s} \subseteq Temps /\ NonTemps \subseteq a.mv
  BY <1>1, <1>3 DEF Sound
<1> QED
  BY <1>2, <1>5, <1>6, <1>7, <1>8, NullDistinct DEF Sound, a

\* A variable copied to itself is loaded, stored and given up.
LEMMA CopyToItselfSound ==
    ASSUME NEW n, NEW temps, Sound(n, temps, temps, None), NEW x \in Variables
    PROVE  Sound(CopyCode(n, x, x), temps, temps, None)
<1> DEFINE a == Load(n, x, Registers)
           b == Store(a, a.reg[x], x)
<1>1. /\ x \in Symbols /\ x \in NonTemps /\ x \notin temps /\ x \notin Numbers
      /\ IsPool(Registers) /\ None \notin Registers
  BY KindsDisjoint, RegistersArePool, NullDistinct DEF Symbols, NonTemps, Sound
<1>2. Sound(a, temps, temps \cup {x}, None) /\ a.reg[x] \in Registers /\ x \in a.rv[a.reg[x]]
  BY <1>1, LoadSound
<1>3. CopyCode(n, x, x) = Release(b, x)
  <2>1. GetReg(n, x, x) = a
    BY DEF GetReg
  <2>2. ReadRegister(a, x, a.reg[x]) = a
    BY <1>2, ReadRegisterSound DEF Sound
  <2>3. DefineAs(a, x, x) = a
    BY DEF DefineAs
  <2> HIDE DEF a
  <2> QED
    BY <1>1, <2>1, <2>2, <2>3 DEF CopyCode, Save
<1> HIDE DEF a
<1>4. Coherent(a) /\ Coherent(b)
  BY <1>1, <1>2, StoreCoherent DEF Sound, MaybeRegister
<1>5. /\ b.sym = a.sym /\ b.rv = a.rv /\ b.stale = a.stale /\ b.mv = a.mv \cup {x}
  BY <1>2, <1>4 DEF Store, Coherent, Machine
<1> HIDE DEF b
<1>6. Sound(b, temps, temps \cup {x}, None)
  BY <1>2, <1>4, <1>5, NullDistinct DEF Sound
<1>7. Sound(Release(b, x), temps \ {x}, (temps \cup {x}) \ {x}, None)
  BY <1>1, <1>6, ReleaseSound
<1>8. temps \ {x} = temps /\ (temps \cup {x}) \ {x} = temps
  BY <1>1
<1> QED
  BY <1>3, <1>7, <1>8

\* A copy: to a variable through a register or as an immediate, to a temporary
\* by taking the source's register over.
LEMMA CopySound ==
    ASSUME NEW n, NEW temps, Sound(n, temps, temps, None),
           NEW expr \in Source(temps), NEW result \in Variables \cup (Temps \ temps)
    PROVE  LET after == (temps \ {expr}) \cup ({result} \cap Temps)
           IN  Sound(CopyCode(n, result, expr), after, after, None)
<1> DEFINE after == (temps \ {expr}) \cup ({result} \cap Temps)
           a == GetReg(n, result, expr)
           b == ReadRegister(a, expr, a.reg[result])
<1>1. /\ expr \in Symbols /\ expr \in temps \cup NonTemps /\ result \in Symbols
      /\ result \notin temps /\ temps \in SUBSET Temps
      /\ result \in Variables => result \notin Temps
      /\ expr \in Temps => expr \in temps
      /\ expr \in Numbers => expr \notin temps
      /\ expr \in Variables => expr \notin temps
  BY SourceFacts, KindsDisjoint DEF Sound, Symbols
<1>2. CASE expr \in Numbers /\ result \in Variables
  <2>1. CopyCode(n, result, expr) = [Define(n, result, None) EXCEPT !.mv = @ \cup {result}]
    BY <1>2 DEF CopyCode
  <2>2. after = temps
    BY <1>1, <1>2
  <2> HIDE DEF after
  <2> QED
    BY <1>2, <2>1, <2>2, CopyNumberSound DEF after
<1>3. CASE result = expr
  <2>1. result \in Variables /\ after = temps
    BY <1>1, <1>3
  <2> HIDE DEF after
  <2> QED
    BY <1>3, <2>1, CopyToItselfSound DEF after
<1>4. CASE result # expr /\ ~(expr \in Numbers /\ result \in Variables)
  <2>1. CopyCode(n, result, expr) = Save(DefineAs(b, result, expr), result)
    BY <1>4 DEF CopyCode
  <2> DEFINE r == a.reg[result]
  <2>2. /\ Sound(a, temps \ {expr}, (temps \ {expr}) \cup {result}, r)
        /\ r \in Registers /\ a.sym[r] = result /\ expr \in a.rv[r]
    BY <1>1, <1>4, GetRegSound
  <2>3. b = a
    BY <2>2, ReadRegisterSound DEF Sound
  <2> HIDE DEF a, b, r
  <2>4. CASE result \in Variables
    <3>1. Sound(Save(DefineAs(a, result, expr), result), temps \ {expr},
                ((temps \ {expr}) \cup {result}) \ {result}, None)
      BY <1>1, <1>4, <2>2, <2>4, WriteBackSound
    <3>2. ((temps \ {expr}) \cup {result}) \ {result} = after /\ temps \ {expr} = after
      BY <1>1, <2>4
    <3> QED
      BY <2>1, <2>3, <3>1, <3>2
  <2>5. CASE result \in Temps
    <3>1. Sound(DefineAs(a, result, expr), (temps \ {expr}) \cup {result},
                (temps \ {expr}) \cup {result}, None)
      BY <1>1, <1>4, <2>2, <2>5, TakeValueSound
    <3>2. Save(DefineAs(a, result, expr), result) = DefineAs(a, result, expr)
      BY <2>5, SaveTemp
    <3>3. (temps \ {expr}) \cup {result} = after
      BY <2>5
    <3> QED
      BY <2>1, <2>3, <3>1, <3>2, <3>3
  <2> QED
    BY <2>4, <2>5
<1> QED
  BY <1>2, <1>3, <1>4

-----------------------------------------------------------------------------
(* Arrays.                                                                 *)

\* A symbol in a register in flux, after another one has been released.
LEMMA ReleaseOther ==
    ASSUME NEW n, NEW kept, NEW owners, NEW r \in Registers, Sound(n, kept, owners, r),
           NEW s \in Symbols, n.sym[r] = s, NEW x \in Symbols, x # s
    PROVE  /\ Sound(Release(n, x), kept \ {x}, owners \ {x}, r)
           /\ Release(n, x).sym[r] = s /\ Release(n, x).reg[s] = r
<1> DEFINE p == Release(n, x)
<1>1. Sound(p, kept \ {x}, owners \ {x}, r)
  BY ReleaseSound
<1>2. p.sym[r] = s
  BY ReleaseEffect DEF Sound
<1> HIDE DEF p
<1>3. p.reg[s] = r
  BY <1>1, <1>2 DEF Sound, Coherent, Agree
<1> QED
  BY <1>1, <1>2, <1>3 DEF p

\* The address of an element is in the register of s, in flux because it is
\* not the value of s; the index has been used.
AddressReady(p, temps, s, index) ==
    /\ Sound(p, temps \ {index}, (temps \ {index}) \cup {s}, p.reg[s])
    /\ p.reg[s] \in Registers /\ p.sym[p.reg[s]] = s

LEMMA AddressFacts ==
    ASSUME NEW temps \in SUBSET Temps, NEW array \in Arrays,
           NEW index \in Source(temps), NEW s, s \notin Source(temps)
    PROVE  /\ index \in Symbols /\ index \in temps \cup NonTemps /\ index # s
           /\ s \notin temps /\ array \in Symbols /\ array \in NonTemps
<1>1. temps \subseteq Source(temps)
  BY DEF Source
<1> QED
  BY <1>1, SourceFacts, ArrayFacts

LEMMA LocalAddressSound ==
    ASSUME NEW n, NEW temps, Sound(n, temps, temps, None), NEW array \in Arrays,
           NEW index \in Source(temps), NEW s \in Symbols, s \notin Source(temps)
    PROVE  AddressReady(LocalAddressCode(n, s, array, index), temps, s, index)
<1> DEFINE a == AssignNew(n, s, Registers)
           b == LoadInto(a, array, a.reg[s])
           d == ReadRegister(b, array, b.reg[s])
           c == ReadOperands(d, {index})
           r == a.reg[s]
<1>1. /\ index \in Symbols /\ index \in temps \cup NonTemps /\ index # s
      /\ s \notin temps /\ array \in Symbols /\ array \in NonTemps
  BY AddressFacts DEF Sound
<1>2. /\ Sound(a, temps, temps \cup {s}, r)
      /\ r \in Registers /\ a.sym[r] = s
  BY <1>1, AssignNewSound
<1>3. array \in a.mv
  BY <1>1, <1>2 DEF Sound
<1>4. b = LoadInto(a, array, r)
  OBVIOUS
<1> HIDE DEF a, b, r
<1>5. /\ Sound(b, temps, temps \cup {s}, r)
      /\ b.sym = a.sym /\ b.reg = a.reg /\ array \in b.rv[r]
  BY <1>1, <1>2, <1>3, <1>4, LoadFluxSound
<1>6. d = b
  BY <1>5, ReadRegisterSound DEF Sound, r
<1> HIDE DEF d
<1>7. c = b
  BY <1>1, <1>2, <1>5, <1>6, ReadOperandsSound
<1> HIDE DEF c
<1>8. /\ Sound(Release(c, index), temps \ {index}, (temps \cup {s}) \ {index}, r)
      /\ Release(c, index).sym[r] = s /\ Release(c, index).reg[s] = r
  BY <1>1, <1>2, <1>5, <1>7, ReleaseOther
<1>9. (temps \cup {s}) \ {index} = (temps \ {index}) \cup {s}
  BY <1>1
<1>10. LocalAddressCode(n, s, array, index) = Release(c, index)
  BY DEF LocalAddressCode, a, b, c, d
<1> QED
  BY <1>2, <1>8, <1>9, <1>10 DEF AddressReady

\* The index is loaded first, and the array's address added to it.
LEMMA GlobalAddressSound ==
    ASSUME NEW n, NEW temps, Sound(n, temps, temps, None), NEW array \in Arrays,
           NEW index \in Source(temps), NEW s \in Symbols, s \notin Source(temps)
    PROVE  AddressReady(GlobalAddressCode(n, s, array, index), temps, s, index)
<1> DEFINE a == GetReg(n, s, index)
<1>1. /\ index \in Symbols /\ index \in temps \cup NonTemps /\ index # s
      /\ s \notin temps /\ array \in NonTemps
  BY AddressFacts DEF Sound
<1>2. /\ Sound(a, temps \ {index}, (temps \ {index}) \cup {s}, a.reg[s])
      /\ a.reg[s] \in Registers /\ a.sym[a.reg[s]] = s /\ index \in a.rv[a.reg[s]]
  BY <1>1, GetRegSound
<1> HIDE DEF a
<1>3. ReadRegister(a, index, a.reg[s]) = a
  BY <1>2, ReadRegisterSound DEF Sound
<1>4. ReadHome(a, array) = a
  BY <1>1, <1>2, ReadHomeSound
<1>5. GlobalAddressCode(n, s, array, index) = a
  BY <1>3, <1>4 DEF GlobalAddressCode, a
<1> QED
  BY <1>2, <1>5 DEF AddressReady

LEMMA PointerAddressSound ==
    ASSUME NEW n, NEW temps, Sound(n, temps, temps, None), NEW array \in Arrays,
           NEW index \in Source(temps), NEW s \in Symbols, s \notin Source(temps),
           s # array
    PROVE  AddressReady(PointerAddressCode(n, s, array, index), temps, s, index)
<1> DEFINE a == GetReg(n, s, index)
<1>1. /\ index \in Symbols /\ index \in temps \cup NonTemps /\ index # s
      /\ s \notin temps /\ array \in NonTemps /\ array \in Symbols
  BY AddressFacts DEF Sound
<1>2. /\ Sound(a, temps \ {index}, (temps \ {index}) \cup {s}, a.reg[s])
      /\ a.reg[s] \in Registers /\ a.sym[a.reg[s]] = s /\ index \in a.rv[a.reg[s]]
  BY <1>1, GetRegSound
<1> HIDE DEF a
<1>3. ReadRegister(a, index, a.reg[s]) = a
  BY <1>2, ReadRegisterSound DEF Sound
<1>4. ReadOperands(a, {array}) = a
  BY <1>1, <1>2, ReadOperandsSound
<1>5. PointerAddressCode(n, s, array, index) = a
  BY <1>3, <1>4 DEF PointerAddressCode, a
<1> QED
  BY <1>2, <1>5 DEF AddressReady

\* The element replaces its address in the register of the result.
LEMMA IndexSound ==
    ASSUME NEW n, NEW temps, Sound(n, temps, temps, None), NEW array \in Arrays,
           NEW index \in Source(temps), NEW result \in Temps \ temps
    PROVE  LET after == (temps \ {index}) \cup {result}
           IN  Sound(IndexCode(n, result, array, index), after, after, None)
<1> DEFINE a == CASE array \in GlobalArrays  -> GlobalAddressCode(n, result, array, index)
                  [] array \in PointerParams -> PointerAddressCode(n, result, array, index)
                  [] array \in LocalArrays   -> LocalAddressCode(n, result, array, index)
           b == Define(a, result, a.reg[result])
           after == (temps \ {index}) \cup {result}
<1>1. /\ result \in Symbols /\ result \notin Source(temps) /\ result # array
      /\ array \in Symbols /\ array \notin after
  BY ResultFacts, SourceFacts, ArrayFacts DEF NonTemps, Sound
<1>2. AddressReady(a, temps, result, index)
  <2>1. CASE array \in GlobalArrays
    <3>1. a = GlobalAddressCode(n, result, array, index)
      BY <2>1, KindsDisjoint
    <3> HIDE DEF a
    <3> QED
      BY <1>1, <3>1, GlobalAddressSound
  <2>2. CASE array \in PointerParams
    <3>1. a = PointerAddressCode(n, result, array, index)
      BY <2>2, KindsDisjoint
    <3> HIDE DEF a
    <3> QED
      BY <1>1, <3>1, PointerAddressSound
  <2>3. CASE array \in LocalArrays
    <3>1. a = LocalAddressCode(n, result, array, index)
      BY <2>3, KindsDisjoint
    <3> HIDE DEF a
    <3> QED
      BY <1>1, <3>1, LocalAddressSound
  <2> HIDE DEF a
  <2> QED
    BY <2>1, <2>2, <2>3 DEF Arrays
<1>3. IndexCode(n, result, array, index) = Save(Release(b, array), result)
  BY DEF IndexCode
<1> HIDE DEF a
<1>4. Sound(b, after, after, None)
  BY <1>1, <1>2, DefineSound DEF AddressReady
<1> HIDE DEF b
<1>5. Sound(Release(b, array), after \ {array}, after \ {array}, None)
  BY <1>1, <1>4, ReleaseSound
<1>6. after \ {array} = after
  BY <1>1
<1> QED
  BY <1>3, <1>5, <1>6, SaveTemp

\* The expression is loaded while the address is in flux in the array's
\* register, which the pool leaves out.
LEMMA UpdateSound ==
    ASSUME NEW n, NEW temps, Sound(n, temps, temps, None), NEW array \in Arrays,
           NEW index \in Source(temps), NEW expr \in Source(temps),
           index = expr => index \notin Temps
    PROVE  LET after == temps \ {index, expr}
           IN  Sound(UpdateCode(n, array, index, expr), after, after, None)
<1> DEFINE a == IF array \in LocalArrays
                THEN LocalAddressCode(n, array, array, index)
                ELSE GlobalAddressCode(n, array, array, index)
           b == Clobber(a, a.reg[array])
           pool == Registers \ {b.reg[array]}
           c == Load(b, expr, pool)
           e == ReadRegister(c, expr, c.reg[expr])
           d == IF expr \in Numbers THEN b ELSE Release(e, expr)
           r == a.reg[array]
           kept == temps \ {index}
           owners == kept \cup {array}
           after == temps \ {index, expr}
<1>1. /\ array \in Symbols /\ array \notin Source(temps) /\ array \notin temps
      /\ index \in Symbols /\ expr \in Symbols /\ expr # array
      /\ expr \in kept \cup NonTemps /\ temps \subseteq Temps
      /\ expr \in Numbers => expr \notin temps
  BY SourceFacts, ArrayFacts, KindsDisjoint DEF Source, NonTemps, Sound
<1>2. AddressReady(a, temps, array, index)
  <2>1. CASE array \in LocalArrays
    BY <1>1, <2>1, LocalAddressSound
  <2>2. CASE array \notin LocalArrays
    BY <1>1, <2>2, GlobalAddressSound
  <2> HIDE DEF a
  <2> QED
    BY <2>1, <2>2
<1>3. UpdateCode(n, array, index, expr) = Release(d, array)
  BY DEF UpdateCode, Release
<1> HIDE DEF a
<1>4. Sound(a, kept, owners, r) /\ r \in Registers /\ a.sym[r] = array
  BY <1>2 DEF AddressReady
<1>5. Sound(b, kept, owners, r) /\ b.sym[r] = array /\ b.reg[array] = r
  <2>1. Coherent(a) /\ Coherent(b)
    BY <1>4, ClobberCoherent DEF Sound, MaybeRegister
  <2>2. /\ b.sym = a.sym /\ b.reg = a.reg /\ b.mv = a.mv /\ b.stale = a.stale
        /\ \A q \in Registers : q # r => b.rv[q] = a.rv[q]
    BY <1>4, <2>1 DEF Clobber, Coherent, Machine
  <2> HIDE DEF b, r
  <2>3. Sound(b, kept, owners, r)
    BY <1>4, <2>1, <2>2 DEF Sound
  <2> QED
    BY <1>1, <1>4, <2>2, <2>3 DEF Sound, Coherent, Agree
<1> HIDE DEF b, r
<1>6. Sound(d, after, after \cup {array}, r) /\ d.sym[r] = array
  <2>1. CASE expr \in Numbers
    <3>1. d = b /\ after = kept /\ after \cup {array} = owners
      BY <1>1, <2>1
    <3> HIDE DEF d
    <3> QED
      BY <1>5, <3>1
  <2>2. CASE expr \notin Numbers
    <3>1. IsPool(pool) /\ r \notin pool
      <4>1. pool \subseteq Registers /\ pool # {}
        BY <1>5 DEF Registers
      <4> QED
        BY <1>5, <4>1 DEF IsPool
    <3> HIDE DEF pool, kept, owners, after
    <3>2. /\ Sound(c, kept, owners \cup {expr}, r)
          /\ c.reg[expr] \in Registers /\ expr \in c.rv[c.reg[expr]]
          /\ c.sym[r] = array
      BY <1>1, <1>4, <1>5, <3>1, LoadSound
    <3> HIDE DEF c
    <3>3. e = c
      BY <3>2, ReadRegisterSound DEF Sound
    <3>4. d = Release(c, expr)
      BY <2>2, <3>3
    <3> HIDE DEF d, e
    <3>5. /\ Sound(d, kept \ {expr}, (owners \cup {expr}) \ {expr}, r)
          /\ d.sym[r] = array
      <4>1. Sound(d, kept \ {expr}, (owners \cup {expr}) \ {expr}, r)
        BY <1>1, <3>2, <3>4, ReleaseSound
      <4>2. Coherent(c) /\ array \in Symbols /\ expr \in Symbols /\ array # expr
        BY <1>1, <3>2 DEF Sound
      <4>3. d.sym[r] = array
        BY <1>4, <3>2, <3>4, <4>2, ReleaseEffect
      <4> QED
        BY <4>1, <4>3
    <3>6. kept \ {expr} = after /\ (owners \cup {expr}) \ {expr} \subseteq after \cup {array}
      BY DEF kept, owners, after
    <3> QED
      BY <3>5, <3>6, SoundWeaker
  <2> QED
    BY <2>1, <2>2
<1> HIDE DEF d
<1>7. Sound(Release(d, array), after \ {array}, (after \cup {array}) \ {array}, None)
  BY <1>1, <1>4, <1>6, ReleaseSound
<1>8. after \ {array} = after /\ (after \cup {array}) \ {array} = after
  BY <1>1
<1> QED
  BY <1>3, <1>7, <1>8

-----------------------------------------------------------------------------
(* Calls, and the end of a statement or a block.                           *)

\* An argument is on the stack and its register given up.
LEMMA ArgumentSound ==
    ASSUME NEW n, NEW temps, Sound(n, temps, temps, None),
           NEW arg \in Source(temps) \cup Arrays
    PROVE  Sound(ArgumentCode(n, arg), temps \ {arg}, temps \ {arg}, None)
<1> DEFINE a == CASE arg \in LocalArrays ->
                       LoadInto(AssignNew(n, arg, Registers), arg, Allocated(n, Registers))
                  [] arg \in Numbers \cup GlobalArrays -> n
                  [] OTHER -> Load(n, arg, Registers)
           owners == temps \cup {arg}
<1>1. /\ arg \in Symbols /\ arg \in temps \cup NonTemps
      /\ arg \in Arrays => arg \in NonTemps /\ arg \notin temps
      /\ IsPool(Registers) /\ None \notin Registers
  BY SourceFacts, ArrayFacts, RegistersArePool, NullDistinct DEF Sound, NonTemps
<1>2. Sound(a, temps, owners, None)
  <2>1. CASE arg \in LocalArrays
    <3> DEFINE p == AssignNew(n, arg, Registers)
               r == Allocated(n, Registers)
    <3>1. arg \in Arrays /\ arg \notin Numbers \cup GlobalArrays
      BY <2>1, KindsDisjoint DEF Arrays
    <3>4. a = LoadInto(p, arg, r)
      BY <2>1, <3>1
    <3>2. Sound(p, temps, owners, r) /\ r \in Registers /\ p.sym[r] = arg
      BY <1>1, <3>1, AssignNewSound
    <3> HIDE DEF a, p, r
    <3>3. arg \in p.mv
      BY <1>1, <3>1, <3>2 DEF Sound
    <3> QED
      BY <1>1, <3>2, <3>3, <3>4, LoadFluxSound
  <2>2. CASE arg \in Numbers \cup GlobalArrays
    <3>1. a = n
      BY <2>2, KindsDisjoint DEF Arrays
    <3> HIDE DEF a
    <3> QED
      BY <3>1, SoundWeaker
  <2>3. CASE arg \notin LocalArrays /\ arg \notin Numbers \cup GlobalArrays
    <3>1. a = Load(n, arg, Registers)
      BY <2>3
    <3> HIDE DEF a
    <3> QED
      BY <1>1, <3>1, LoadSound
  <2> HIDE DEF a
  <2> QED
    BY <2>1, <2>2, <2>3
<1>3. ArgumentCode(n, arg) = Release(ReadOperands(a, {arg}), arg)
  BY DEF ArgumentCode
<1> HIDE DEF a
<1>4. ReadOperands(a, {arg}) = a
  BY <1>1, <1>2, ReadOperandsSound
<1>5. Sound(Release(a, arg), temps \ {arg}, owners \ {arg}, None)
  BY <1>1, <1>2, ReleaseSound
<1>6. owners \ {arg} = temps \ {arg}
  OBVIOUS
<1> QED
  BY <1>3, <1>4, <1>5, <1>6

\* Overwriting a register that belongs to nobody.
LEMMA ClobberFreeSound ==
    ASSUME NEW n, NEW kept, NEW owners, Sound(n, kept, owners, None),
           NEW r \in Registers, n.sym[r] = None
    PROVE  Sound(Clobber(n, r), kept, owners, None) /\ Clobber(n, r).sym = n.sym
<1>1. {} \in SUBSET Symbols
  OBVIOUS
<1>2. Clobber(n, r) = [n EXCEPT !.rv[r] = {}]
  BY DEF Clobber
<1> QED
  BY <1>1, <1>2, FreeRegisterSound

\* Everything in a register is spilled before the call, and survives it.
LEMMA InvokeSound ==
    ASSUME NEW n, NEW temps, Sound(n, temps, temps, None),
           NEW result \in (Temps \ temps) \cup {None}
    PROVE  LET after == temps \cup ({result} \ {None})
           IN  Sound(InvokeCode(n, result), after, after, None)
<1> DEFINE a1 == Spill(n, "eax")
           a2 == Spill(a1, "ecx")
           a3 == Spill(a2, "edx")
           b1 == Clobber(a3, "eax")
           b2 == Clobber(b1, "ecx")
           b3 == Clobber(b2, "edx")
           c == Assign(b3, result, "eax")
           d == Define(c, result, "eax")
<1>1. /\ "eax" \in Registers /\ "ecx" \in Registers /\ "edx" \in Registers
      /\ None # "eax" /\ None # "ecx" /\ None # "edx"
  BY NullDistinct DEF Registers
<1>2. /\ Sound(a1, temps, temps, None)
      /\ a1.sym["eax"] = None
  BY <1>1, SpillSound
<1> HIDE DEF a1
<1>3. /\ Sound(a2, temps, temps, None)
      /\ a2.sym["eax"] = None /\ a2.sym["ecx"] = None
  BY <1>1, <1>2, SpillSound
<1> HIDE DEF a2
<1>4. /\ Sound(a3, temps, temps, None)
      /\ a3.sym["eax"] = None /\ a3.sym["ecx"] = None /\ a3.sym["edx"] = None
  BY <1>1, <1>3, SpillSound
<1> HIDE DEF a3
<1>5. Sound(b1, temps, temps, None) /\ b1.sym = a3.sym
  BY <1>1, <1>4, ClobberFreeSound
<1> HIDE DEF b1
<1>6. Sound(b2, temps, temps, None) /\ b2.sym = a3.sym
  BY <1>1, <1>4, <1>5, ClobberFreeSound
<1> HIDE DEF b2
<1>7. Sound(b3, temps, temps, None) /\ b3.sym = a3.sym
  BY <1>1, <1>4, <1>6, ClobberFreeSound
<1>8. InvokeCode(n, result) = IF result = None THEN b3 ELSE Save(d, result)
  BY DEF InvokeCode, a1, a2, a3, b1, b2
<1> HIDE DEF b3
<1>9. CASE result = None
  BY <1>7, <1>8, <1>9
<1>10. CASE result # None
  <2>1. result \in Temps /\ result \notin temps /\ result \in Symbols
    BY <1>10 DEF Symbols
  <2>2. Coherent(b3) /\ Coherent(c)
    BY <1>1, <1>7, <2>1, AssignCoherent DEF Sound, MaybeSymbol, MaybeRegister
  <2>3. /\ \A q \in Registers : b3.sym[q] = None
        /\ \A q \in Registers : c.sym[q] = IF q = "eax" THEN result ELSE None
        /\ c.rv = b3.rv /\ c.mv = b3.mv /\ c.stale = b3.stale
    <3>1. \A q \in Registers : b3.sym[q] = None
      BY <1>4, <1>7 DEF Registers
    <3> QED
      BY <1>1, <2>1, <2>2, <3>1, AssignEffect DEF MaybeSymbol
  <2> HIDE DEF c
  <2>4. Sound(c, temps, temps \cup {result}, "eax")
    <3>1. ASSUME NEW t \in temps PROVE t \in c.mv
      <4>1. t # None
        BY <1>7, NullNotKept
      <4>2. \A q \in Registers : b3.sym[q] # t
        BY <2>3, <4>1
      <4> QED
        BY <1>7, <2>3, <4>2 DEF Sound
    <3>2. \A q \in Registers : c.sym[q] \in (temps \cup {result}) \cup {None}
      BY <2>3
    <3>3. c.sym["eax"] \notin temps
      BY <1>1, <2>1, <2>3
    <3> QED
      BY <1>7, <2>2, <2>3, <3>1, <3>2, <3>3 DEF Sound
  <2>5. Sound(d, temps \cup {result}, temps \cup {result}, None)
    BY <1>1, <2>1, <2>3, <2>4, DefineSound
  <2> HIDE DEF d
  <2>6. Save(d, result) = d
    BY <2>1, SaveTemp
  <2>7. temps \cup ({result} \ {None}) = temps \cup {result}
    BY <1>10
  <2> QED
    BY <1>8, <1>10, <2>5, <2>6, <2>7
<1> QED
  BY <1>9, <1>10

\* At a label only what is in memory is left.
LEMMA BlockEndSound ==
    ASSUME NEW n, Sound(n, {}, Symbols, None)
    PROVE  Sound(BlockEndCode(n), {}, {}, None)
<1> DEFINE p == BlockEndCode(n)
<1>1. Coherent(p)
  BY BlockEndCoherent DEF Sound
<1>2. /\ \A r \in Registers : p.sym[r] = None
      /\ p.mv = n.mv /\ p.stale = n.stale
  BY DEF BlockEndCode, Sound, Coherent, Machine
<1> HIDE DEF p
<1>3. Sound(p, {}, {}, None)
  BY <1>1, <1>2 DEF Sound
<1> QED
  BY <1>3 DEF p

\* What is forgotten between statements was not needed.
LEMMA SettledSound ==
    ASSUME NEW n, NEW temps, NEW owners, Sound(n, temps, owners, None)
    PROVE  Sound(Settled(n, temps), temps, owners, None)
<1> DEFINE p == Settled(n, temps)
<1>1. Coherent(n) /\ Coherent(p)
  BY SettledCoherent DEF Sound
<1>2. /\ p.sym = n.sym /\ p.stale = n.stale /\ p.mv = n.mv \ (Temps \ temps)
      /\ \A r \in Registers : p.rv[r] = IF n.sym[r] = None THEN {} ELSE n.rv[r]
  BY <1>1 DEF Settled, Coherent, Machine
<1> HIDE DEF p
<1>3. Sound(p, temps, owners, None)
  BY <1>1, <1>2 DEF Sound, NonTemps
<1> QED
  BY <1>3 DEF p

-----------------------------------------------------------------------------
(* The theorems: what the runs of Generator.cfg show on small instances    *)
(* holds for any symbols and argument lists of any length.                 *)

\* Temporaries are used at most once, in the block that defines them.
UsedOnceInBlock == ~TempsCrossBlocks /\ ~TempsReused

\* What the arguments of a call are while it is being generated.
ArgumentsFit ==
    /\ \A i \in DOMAIN args : args[i] \in Operands \cup Arrays
    /\ \A i, j \in DOMAIN args : args[i] = args[j] /\ i # j => args[i] \notin Temps
    /\ phase # "arguments" => args = <<>>

\* After a transfer of control a register may still belong to something else.
MachineSound == Sound(m, live, IF phase = "transferred" THEN Symbols ELSE live, None)

IInv == TypeOK /\ ArgumentsFit /\ MachineSound

-----------------------------------------------------------------------------

LEMMA InitSound ==
    ASSUME Init
    PROVE  IInv
<1>1. TypeOK
  BY InitCoherent
<1>2. MachineSound
  BY EmptySound DEF Init, MachineSound
<1>3. ArgumentsFit
  BY DEF Init, ArgumentsFit
<1> QED
  BY <1>1, <1>2, <1>3 DEF IInv

\* The operands are gone and the results are there.
LEMMA UsedOnce ==
    ASSUME UsedOnceInBlock, NEW operands, NEW results, Used(operands, results)
    PROVE  live' = (live \ operands) \cup (results \cap Temps)
BY DEF Used, UsedOnceInBlock

\* A result that is a temporary.
LEMMA NextResultTemp ==
    ASSUME NEW result \in NextResults
    PROVE  result \in Temps \ live /\ {result} \cap Temps = {result}
BY DEF NextResults

\* A statement that leaves the machine sound, with the registers given up.
LEMMA SettledStep ==
    ASSUME NEW n, Sound(n, live', live', None), m' = Settled(n, live'),
           TypeOK'
    PROVE  MachineSound'
<1>1. Sound(m', live', live', None)
  BY SettledSound
<1>2. live' \subseteq Symbols
  BY DEF TypeOK, Symbols
<1> QED
  BY <1>1, <1>2, SoundWeaker DEF MachineSound

\* Nothing is on the way to the stack while a statement is generated.
LEMMA NoArguments ==
    ASSUME ArgumentsFit, phase # "arguments", args' = args, phase' # "arguments"
    PROVE  ArgumentsFit'
BY DEF ArgumentsFit

LEMMA StatementSound ==
    ASSUME UsedOnceInBlock, IInv, TypeOK', phase = "statements",
           Compare \/ Arithmetic \/ Divide \/ Negate \/ Extend \/ Copy
    PROVE  MachineSound'
<1>1. Sound(m, live, live, None) /\ live \in SUBSET Temps
  BY DEF IInv, MachineSound, TypeOK
<1>2. Operands = Source(live)
  BY DEF Operands, Source
<1>3. ASSUME NEW left \in Operands, NEW right \in Operands, Fit(left, right)
      PROVE  left = right => left \notin Temps
  BY <1>3 DEF Fit, UsedOnceInBlock
<1>4. CASE Compare
  <2>1. PICK left \in Operands, right \in Operands, result \in NextResults :
           /\ Used({left, right}, {result})
           /\ m' = Settled(CompareCode(m, result, left, right), live')
    BY <1>4 DEF Compare
  <2>2. live' = (live \ {left, right}) \cup {result} /\ result \in Temps \ live
    BY <2>1, UsedOnce, NextResultTemp
  <2>3. Sound(CompareCode(m, result, left, right), live', live', None)
    BY <1>1, <1>2, <2>2, CompareSound
  <2> QED
    BY <2>1, <2>3, SettledStep
<1>5. CASE Arithmetic
  <2>1. PICK left \in Operands, right \in Operands, result \in NextResults :
           /\ Fit(left, right)
           /\ Used({left, right}, {result})
           /\ m' = Settled(ArithmeticCode(m, result, left, right), live')
    BY <1>5 DEF Arithmetic
  <2>2. live' = (live \ {left, right}) \cup {result} /\ result \in Temps \ live
    BY <2>1, UsedOnce, NextResultTemp
  <2>3. left = right => left \notin Temps
    BY <1>3, <2>1
  <2>4. Sound(ArithmeticCode(m, result, left, right), live', live', None)
    BY <1>1, <1>2, <2>2, <2>3, ArithmeticSound
  <2> QED
    BY <2>1, <2>4, SettledStep
<1>6. CASE Divide
  <2>1. PICK left \in Operands, right \in Operands, result \in NextResults,
             quotient \in BOOLEAN :
           /\ Used({left, right}, {result})
           /\ m' = Settled(DivideCode(m, quotient, result, left, right), live')
    BY <1>6 DEF Divide
  <2>2. live' = (live \ {left, right}) \cup {result} /\ result \in Temps \ live
    BY <2>1, UsedOnce, NextResultTemp
  <2>3. Sound(DivideCode(m, quotient, result, left, right), live', live', None)
    BY <1>1, <1>2, <2>2, DivideSound
  <2> QED
    BY <2>1, <2>3, SettledStep
<1>7. CASE Negate
  <2>1. PICK expr \in Operands, result \in NextResults :
           /\ Used({expr}, {result})
           /\ m' = Settled(NegateCode(m, result, expr), live')
    BY <1>7 DEF Negate
  <2>2. live' = (live \ {expr}) \cup {result} /\ result \in Temps \ live
    BY <2>1, UsedOnce, NextResultTemp
  <2>3. Sound(NegateCode(m, result, expr), live', live', None)
    BY <1>1, <1>2, <2>2, NegateSound
  <2> QED
    BY <2>1, <2>3, SettledStep
<1>8. CASE Extend
  <2>1. PICK expr \in Variables, result \in NextResults :
           /\ Used({expr}, {result})
           /\ m' = Settled(ExtendCode(m, result, expr), live')
    BY <1>8 DEF Extend
  <2>2. live' = (live \ {expr}) \cup {result} /\ result \in Temps \ live
    BY <2>1, UsedOnce, NextResultTemp
  <2>3. Sound(ExtendCode(m, result, expr), live', live', None)
    BY <1>1, <2>2, ExtendSound
  <2> QED
    BY <2>1, <2>3, SettledStep
<1>9. CASE Copy
  <2>1. PICK expr \in Operands, result \in Variables \cup NextResults :
           /\ Used({expr}, {result})
           /\ m' = Settled(CopyCode(m, result, expr), live')
    BY <1>9 DEF Copy
  <2>2. /\ live' = (live \ {expr}) \cup ({result} \cap Temps)
        /\ result \in Variables \cup (Temps \ live)
    BY <2>1, UsedOnce DEF NextResults
  <2>3. Sound(CopyCode(m, result, expr), live', live', None)
    BY <1>1, <1>2, <2>2, CopySound
  <2> QED
    BY <2>1, <2>3, SettledStep
<1> QED
  BY <1>4, <1>5, <1>6, <1>7, <1>8, <1>9

LEMMA ArrayStatementSound ==
    ASSUME UsedOnceInBlock, IInv, TypeOK', phase = "statements", Index \/ Update
    PROVE  MachineSound'
<1>1. Sound(m, live, live, None) /\ live \in SUBSET Temps
  BY DEF IInv, MachineSound, TypeOK
<1>2. Operands = Source(live)
  BY DEF Operands, Source
<1>3. CASE Index
  <2>1. PICK array \in Arrays, index \in Operands, result \in NextResults :
           /\ Used({index}, {result})
           /\ m' = Settled(IndexCode(m, result, array, index), live')
    BY <1>3 DEF Index
  <2>2. live' = (live \ {index}) \cup {result} /\ result \in Temps \ live
    BY <2>1, UsedOnce, NextResultTemp
  <2>3. Sound(IndexCode(m, result, array, index), live', live', None)
    BY <1>1, <1>2, <2>2, IndexSound
  <2> QED
    BY <2>1, <2>3, SettledStep
<1>4. CASE Update
  <2>1. PICK array \in Arrays, index \in Operands, expr \in Operands :
           /\ Fit(index, expr)
           /\ Used({index, expr}, {})
           /\ m' = Settled(UpdateCode(m, array, index, expr), live')
    BY <1>4 DEF Update
  <2>2. live' = live \ {index, expr}
    BY <2>1, UsedOnce
  <2>3. index = expr => index \notin Temps
    BY <2>1 DEF Fit, UsedOnceInBlock
  <2>4. Sound(UpdateCode(m, array, index, expr), live', live', None)
    BY <1>1, <1>2, <2>2, <2>3, UpdateSound
  <2> QED
    BY <2>1, <2>4, SettledStep
<1> QED
  BY <1>3, <1>4

LEMMA TransferSound ==
    ASSUME UsedOnceInBlock, IInv, TypeOK', Branch \/ Jump \/ Return \/ BlockEnd
    PROVE  MachineSound'
<1>1. /\ Sound(m, live, IF phase = "transferred" THEN Symbols ELSE live, None)
      /\ live \in SUBSET Temps /\ live \subseteq Symbols
  BY DEF IInv, MachineSound, TypeOK, Symbols
<1>2. Operands = Source(live)
  BY DEF Operands, Source
<1>3. CASE Branch
  <2>1. PICK left \in Operands, right \in Operands :
           /\ Used({left, right}, {})
           /\ m' = Settled(BranchCode(m, left, right), live')
    BY <1>3 DEF Branch
  <2>2. live' = live \ {left, right} /\ Sound(m, live, live, None)
    BY <1>1, <1>3, <2>1, UsedOnce DEF Branch
  <2>3. Sound(BranchCode(m, left, right), live', live', None)
    BY <1>2, <2>2, BranchSound
  <2> QED
    BY <2>1, <2>3, SettledStep
<1>4. CASE Jump
  <2>1. m' = m /\ live' = live /\ phase' = "transferred" /\ Sound(m, live, live, None)
    BY <1>1, <1>4 DEF Jump
  <2>2. Sound(m, live, Symbols, None)
    BY <1>1, <2>1, SoundWeaker
  <2> QED
    BY <2>1, <2>2 DEF MachineSound
<1>5. CASE Return
  <2>1. PICK expr \in Operands : m' = Settled(ReturnCode(m, expr), live')
    BY <1>5 DEF Return
  <2>2. live' = {} /\ phase' = "transferred" /\ Sound(m, live, live, None)
    BY <1>1, <1>5 DEF Return
  <2>3. Sound(ReturnCode(m, expr), {}, Symbols, None)
    BY <1>2, <2>2, ReturnSound
  <2>4. Sound(m', {}, Symbols, None)
    BY <2>1, <2>2, <2>3, SettledSound
  <2> QED
    BY <2>2, <2>4 DEF MachineSound
<1>6. CASE BlockEnd
  <2>1. live' = {} /\ m' = Settled(BlockEndCode(m), live')
    BY <1>6 DEF BlockEnd, UsedOnceInBlock
  <2>2. Sound(m, {}, Symbols, None)
    BY <1>1, SoundWeaker
  <2>3. Sound(BlockEndCode(m), live', live', None)
    BY <2>1, <2>2, BlockEndSound
  <2> QED
    BY <2>1, <2>3, SettledStep
<1> QED
  BY <1>3, <1>4, <1>5, <1>6

LEMMA CallSound ==
    ASSUME UsedOnceInBlock, IInv, TypeOK', Call \/ LoadArgument \/ Invoke
    PROVE  MachineSound'
<1>1. /\ Sound(m, live, IF phase = "transferred" THEN Symbols ELSE live, None)
      /\ live \in SUBSET Temps
  BY DEF IInv, MachineSound, TypeOK
<1>2. Operands = Source(live)
  BY DEF Operands, Source
<1>3. CASE Call
  BY <1>1, <1>3 DEF Call, MachineSound
<1>4. CASE LoadArgument
  <2> DEFINE arg == args[Len(args)]
  <2>1. arg \in Source(live) \cup Arrays
    BY <1>2, <1>4 DEF LoadArgument, IInv, TypeOK, ArgumentsFit
  <2>2. Used({arg}, {}) /\ m' = Settled(ArgumentCode(m, arg), live')
    BY <1>4 DEF LoadArgument
  <2>3. Sound(m, live, live, None)
    BY <1>1, <1>4 DEF LoadArgument
  <2> HIDE DEF arg
  <2>4. live' = live \ {arg}
    BY <2>2, UsedOnce
  <2>5. Sound(ArgumentCode(m, arg), live', live', None)
    BY <2>1, <2>3, <2>4, ArgumentSound
  <2> QED
    BY <2>2, <2>5, SettledStep
<1>5. CASE Invoke
  <2>1. PICK result \in NextResults \cup {None} :
           /\ Used({}, {result} \ {None})
           /\ m' = Settled(InvokeCode(m, result), live')
    BY <1>5 DEF Invoke
  <2>2. Sound(m, live, live, None)
    BY <1>1, <1>5 DEF Invoke
  <2>3. result \in (Temps \ live) \cup {None}
    BY <2>1 DEF NextResults
  <2>4. live' = live \cup ({result} \ {None})
    <3>1. live' = (live \ {}) \cup (({result} \ {None}) \cap Temps)
      BY <2>1, UsedOnce
    <3> QED
      BY <2>3, <3>1
  <2>5. Sound(InvokeCode(m, result), live', live', None)
    BY <2>2, <2>3, <2>4, InvokeSound
  <2> QED
    BY <2>1, <2>5, SettledStep
<1> QED
  BY <1>3, <1>4, <1>5

\* The arguments that are left are still operands, because the one that was
\* loaded is none of them if it is a temporary.
LEMMA ArgumentsStayFit ==
    ASSUME UsedOnceInBlock, IInv, [Next]_vars
    PROVE  ArgumentsFit'
<1> USE DEF IInv
<1>1. CASE Compare \/ Arithmetic \/ Divide \/ Negate \/ Extend \/ Copy \/ Index \/ Update
  BY <1>1, NoArguments
     DEF Compare, Arithmetic, Divide, Negate, Extend, Copy, Index, Update, InBlock
<1>2. CASE Branch \/ Jump \/ Return \/ BlockEnd
  BY <1>2, NoArguments DEF Branch, Jump, Return, BlockEnd
<1>3. CASE Call
  <2>1. PICK n \in 0..MaxArguments : args' \in [1..n -> Operands \cup Arrays]
    BY <1>3 DEF Call
  <2>2. \A i \in DOMAIN args' : args'[i] \in (Operands \cup Arrays)'
    BY <1>3, <2>1 DEF Call, Operands, Arrays
  <2> QED
    BY <1>3, <2>2 DEF Call, ArgumentsFit
<1>4. CASE LoadArgument
  <2> DEFINE last == Len(args)
             arg == args[last]
  <2>1. args \in Seq(Symbols) /\ last \in Nat /\ last > 0
    BY <1>4 DEF LoadArgument, TypeOK
  <2>2. /\ DOMAIN args = 1..last /\ DOMAIN args' = 1..(last - 1)
        /\ \A i \in 1..(last - 1) : args'[i] = args[i]
    BY <1>4, <2>1 DEF LoadArgument
  <2>3. Used({arg}, {}) /\ phase' = "arguments"
    BY <1>4 DEF LoadArgument
  <2>4. live' = live \ {arg}
    BY <2>3, UsedOnce
  <2>5. ASSUME NEW i \in 1..(last - 1)
        PROVE  args[i] \in (Operands \cup Arrays)'
    <3>1. i \in DOMAIN args /\ last \in DOMAIN args /\ i # last
      BY <2>1, <2>2
    <3>2. args[i] \in Operands \cup Arrays
      BY <3>1 DEF ArgumentsFit
    <3>3. args[i] = arg => args[i] \notin Temps
      BY <3>1 DEF ArgumentsFit
    <3> HIDE DEF arg
    <3>4. live \in SUBSET Temps
      BY DEF TypeOK
    <3> QED
      BY <2>4, <3>2, <3>3, <3>4 DEF Operands, Arrays
  <2>6. ASSUME NEW i \in DOMAIN args', NEW j \in DOMAIN args', args'[i] = args'[j], i # j
        PROVE  args'[i] \notin Temps
    BY <2>1, <2>2, <2>6 DEF ArgumentsFit
  <2> QED
    BY <2>2, <2>3, <2>5, <2>6 DEF ArgumentsFit
<1>5. CASE Invoke
  BY <1>5 DEF Invoke, ArgumentsFit
<1>6. CASE UNCHANGED vars
  BY <1>6 DEF vars, ArgumentsFit, Operands, Arrays
<1> QED
  BY <1>1, <1>2, <1>3, <1>4, <1>5, <1>6 DEF Next

LEMMA StepSound ==
    ASSUME UsedOnceInBlock, IInv, [Next]_vars
    PROVE  IInv'
<1>1. TypeOK'
  BY StepCoherent DEF IInv, MachineSound, Sound, Coherent
<1>2. ArgumentsFit'
  BY ArgumentsStayFit
<1>3. MachineSound'
  <2>1. CASE Compare \/ Arithmetic \/ Divide \/ Negate \/ Extend \/ Copy
    BY <1>1, <2>1, StatementSound
       DEF Compare, Arithmetic, Divide, Negate, Extend, Copy, InBlock
  <2>2. CASE Index \/ Update
    BY <1>1, <2>2, ArrayStatementSound DEF Index, Update, InBlock
  <2>3. CASE Branch \/ Jump \/ Return \/ BlockEnd
    BY <1>1, <2>3, TransferSound
  <2>4. CASE Call \/ LoadArgument \/ Invoke
    BY <1>1, <2>4, CallSound
  <2>5. CASE UNCHANGED vars
    BY <2>5 DEF vars, IInv, MachineSound
  <2> QED
    BY <2>1, <2>2, <2>3, <2>4, <2>5 DEF Next
<1> QED
  BY <1>1, <1>2, <1>3 DEF IInv

\* The invariant the properties follow from.
THEOREM MachineAlwaysSound ==
    ASSUME UsedOnceInBlock
    PROVE  Spec => []IInv
<1>1. Init => IInv
  BY InitSound
<1>2. IInv /\ [Next]_vars => IInv'
  BY StepSound
<1> QED
  BY <1>1, <1>2, PTL DEF Spec

\* No emitted instruction reads a register or a home that does not contain the
\* operand's current value.
THEOREM OperandsNeverStale ==
    ASSUME UsedOnceInBlock
    PROVE  Spec => []NoStaleOperand
<1>1. IInv => NoStaleOperand
  BY DEF IInv, MachineSound, Sound, NoStaleOperand
<1> QED
  BY <1>1, MachineAlwaysSound, PTL

\* A register belongs to a symbol only if it contains its value (operator <<).
THEOREM RegistersAlwaysTruthful ==
    ASSUME UsedOnceInBlock
    PROVE  Spec => []RegistersTruthful
<1>1. IInv => RegistersTruthful
  BY NullDistinct DEF IInv, MachineSound, Sound, RegistersTruthful, Truthful
<1> QED
  BY <1>1, MachineAlwaysSound, PTL

\* Spilling never loses a temporary: it is in its register or in its home.
THEOREM LiveTempsAlwaysRecoverable ==
    ASSUME UsedOnceInBlock
    PROVE  Spec => []LiveTempsRecoverable
<1>1. ASSUME IInv, NEW t \in live
      PROVE  Current(m, t)
  <2>1. t \in Symbols /\ None \notin Registers
    BY <1>1, NullDistinct DEF IInv, TypeOK, Symbols
  <2> QED
    BY <1>1, <2>1, SoundCurrent DEF IInv, MachineSound
<1>2. IInv => LiveTempsRecoverable
  BY <1>1 DEF LiveTempsRecoverable
<1> QED
  BY <1>2, MachineAlwaysSound, PTL

\* Every variable's home contains its value after every statement.
THEOREM VariablesAlwaysInMemory ==
    ASSUME UsedOnceInBlock
    PROVE  Spec => []VariablesInMemory
<1>1. IInv => VariablesInMemory
  BY DEF IInv, MachineSound, Sound, NonTemps, VariablesInMemory
<1> QED
  BY <1>1, MachineAlwaysSound, PTL

\* Every generate() gives up the registers of its operands and addresses.
THEOREM OnlyLiveTempsKeepRegisters ==
    ASSUME UsedOnceInBlock
    PROVE  Spec => []OnlyLiveTempsInRegisters
<1>1. IInv => OnlyLiveTempsInRegisters
  BY DEF IInv, MachineSound, Sound, OnlyLiveTempsInRegisters
<1> QED
  BY <1>1, MachineAlwaysSound, PTL
=============================================================================
