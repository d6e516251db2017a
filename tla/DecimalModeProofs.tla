--------------------------- MODULE DecimalModeProofs ---------------------------
(***************************************************************************)
(* What is proved of DecimalMode, for any clients, threads and tasks, and  *)
(* calls nested to any depth: a call runs under its owner's mode, a bare   *)
(* one under its caller's, and no scope outlives its call.  Then, from     *)
(* Labels: what a call makes of an array has each value in its field, and  *)
(* its money has the type its client asked for.                            *)
(***************************************************************************)
EXTENDS DecimalMode, SequenceTheorems, WellFoundedInduction, TLAPS

\* A context in which nothing has started yet has no calls.
FreeIsIdle == \A x \in Contexts : role[x] = "free" => frames[x] = <<>>

\* At every depth of every context the mode in force is its ruler's.
Ruled ==
    \A x \in Contexts : \A k \in 0 .. Len(frames[x]) : \A i \in 0 .. k :
        Rules(x, i, k) => Level(x, k) = ModeOf(x, i)

Inv == TypeOK /\ FreeIsIdle /\ Ruled

\* Only the bare group has no mode.
LEMMA ModeType ==
    ASSUME TypeOK, NEW o \in Owners
    PROVE  /\ mode(o) \in Modes
           /\ mode(o) = None <=> o = Bare
  BY BareAssumption, NoneAssumption DEF mode, Modes, Owners, scoped_decimal_mode

LEMMA LenType == ASSUME TypeOK, NEW x \in Contexts PROVE Len(frames[x]) \in Nat
  BY LenProperties DEF TypeOK

LEMMA FrameType ==
    ASSUME TypeOK, NEW x \in Contexts, NEW i \in 1 .. Len(frames[x])
    PROVE  /\ frames[x][i] \in Frames
           /\ frames[x][i].owner \in Owners
           /\ frames[x][i].token \in Modes
<1>1. frames[x][i] \in Frames
  BY ElementOfSeq DEF TypeOK
<1> QED  BY <1>1 DEF Frames

\* The scope of a call is saved below it and replaced by its owner's mode.
LEMMA EnterRuled ==
    ASSUME Inv, NEW x \in Contexts, NEW kind \in {"rest", "data"}, NEW o \in Owners,
           Enter(x, kind, o), UNCHANGED <<asked, base>>
    PROVE  /\ frames' \in [Contexts -> Seq(Frames)] /\ scoped' \in [Contexts -> Modes]
           /\ Ruled'
<1> DEFINE n == Len(frames[x])
           f == [kind |-> kind, owner |-> o, token |-> scoped[x]]
<1>1. TypeOK /\ n \in Nat /\ f \in Frames /\ frames[x] \in Seq(Frames)
  BY LenType DEF Inv, TypeOK, Frames
<1>2. /\ Append(frames[x], f) \in Seq(Frames)
      /\ Len(Append(frames[x], f)) = n + 1
      /\ \A i \in 1 .. n : Append(frames[x], f)[i] = frames[x][i]
      /\ Append(frames[x], f)[n + 1] = f
  <2> HIDE DEF f
  <2> QED  BY <1>1, AppendProperties
<1>3. frames' = [frames EXCEPT ![x] = Append(frames[x], f)]
  BY DEF Enter
<1>4. /\ frames'[x] = Append(frames[x], f)
      /\ \A y \in Contexts \ {x} : frames'[y] = frames[y]
  BY <1>1, <1>3 DEF TypeOK
<1>5. mode(o) \in Modes /\ (mode(o) = None <=> o = Bare)
  BY <1>1, ModeType
<1>6. /\ scoped'[x] = IF o = Bare THEN scoped[x] ELSE mode(o)
      /\ \A y \in Contexts \ {x} : scoped'[y] = scoped[y]
      /\ scoped' \in [Contexts -> Modes]
  BY <1>1, <1>5 DEF Enter, TypeOK
<1>7. frames' \in [Contexts -> Seq(Frames)]
  BY <1>1, <1>2, <1>3 DEF TypeOK
<1>8. \A p \in Owners : mode(p)' = mode(p)
  BY DEF mode, scoped_decimal_mode
<1>9. ASSUME NEW y \in Contexts, NEW k \in 0 .. Len(frames'[y]), NEW i \in 0 .. k,
             Rules(y, i, k)'
      PROVE  Level(y, k)' = ModeOf(y, i)'
  <2>1. CASE y # x
    <3>1. frames'[y] = frames[y] /\ scoped'[y] = scoped[y]
      BY <1>4, <1>6, <2>1
    <3>2. Rules(y, i, k) /\ Level(y, k)' = Level(y, k)
      BY <1>9, <3>1 DEF Rules, Level
    <3>3. ModeOf(y, i)' = ModeOf(y, i)
      BY <3>1 DEF ModeOf, mode, scoped_decimal_mode
    <3> QED  BY <3>1, <3>2, <3>3 DEF Inv, Ruled
  <2>2. CASE y = x /\ k \in 0 .. n
    <3>0. \A j \in 1 .. k : frames'[x][j] = frames[x][j]
      BY <1>1, <1>2, <1>4, <2>2
    <3>1. Rules(x, i, k)
      BY <1>1, <1>9, <2>2, <3>0 DEF Rules
    <3>2. Level(x, k) = ModeOf(x, i)
      BY <3>1, <2>2 DEF Inv, Ruled
    <3>3. ModeOf(x, i)' = ModeOf(x, i)
      BY <1>1, <1>2, <1>4, <2>2 DEF ModeOf, mode, scoped_decimal_mode
    <3>4. Level(x, k)' = Level(x, k)
      <4>1. CASE k = n
        BY <1>1, <1>2, <1>4, <4>1 DEF Level
      <4>2. CASE k # n
        BY <1>1, <1>2, <1>4, <4>2, <2>2 DEF Level
      <4> QED  BY <4>1, <4>2
    <3> QED  BY <2>2, <3>2, <3>3, <3>4
  <2>3. CASE y = x /\ k = n + 1
    <3>1. Level(x, k)' = scoped'[x]
      BY <1>2, <1>4, <2>3 DEF Level
    <3>2. CASE i = n + 1
      <4>1. o # Bare /\ ModeOf(x, i)' = mode(o)
        BY <1>1, <1>2, <1>4, <1>8, <1>9, <2>3, <3>2 DEF Rules, ModeOf
      <4> QED  BY <1>6, <2>3, <3>1, <4>1
    <3>3. CASE i # n + 1
      <4>1. i \in 0 .. n
        BY <1>1, <2>3, <3>3
      <4>2. o = Bare
        BY <1>1, <1>2, <1>4, <1>9, <2>3, <4>1 DEF Rules
      <4>3. Rules(x, i, n)
        <5>1. \A j \in 1 .. n : frames'[x][j] = frames[x][j]
          BY <1>1, <1>2, <1>4
        <5>2. /\ i > 0 => frames'[x][i].owner # Bare
              /\ \A j \in i + 1 .. n + 1 : frames'[x][j].owner = Bare
          BY <1>9, <2>3 DEF Rules
        <5>3. n \in Nat
          BY <1>1
        <5> QED  BY <4>1, <5>1, <5>2, <5>3 DEF Rules
      <4>4. Level(x, n) = ModeOf(x, i) /\ Level(x, n) = scoped[x]
        BY <1>1, <4>1, <4>3 DEF Inv, Ruled, Level
      <4>5. ModeOf(x, i)' = ModeOf(x, i)
        BY <1>1, <1>2, <1>4, <4>1 DEF ModeOf, mode, scoped_decimal_mode
      <4> QED  BY <1>6, <2>3, <3>1, <4>2, <4>4, <4>5
    <3> QED  BY <3>2, <3>3
  <2> QED  BY <1>1, <1>2, <1>4, <2>1, <2>2, <2>3
<1> QED  BY <1>6, <1>7, <1>9 DEF Ruled

\* What a call saved is what is in force once it has returned.
LEMMA LeaveRuled ==
    ASSUME Inv, NEW x \in Contexts, ~Idle(x), Leave(x), UNCHANGED <<asked, base>>
    PROVE  /\ frames' \in [Contexts -> Seq(Frames)] /\ scoped' \in [Contexts -> Modes]
           /\ Ruled'
<1> DEFINE n == Len(frames[x])
           rest == SubSeq(frames[x], 1, n - 1)
<1>1. TypeOK /\ n \in Nat \ {0} /\ frames[x] \in Seq(Frames)
  BY LenType, EmptySeq DEF Inv, TypeOK, Idle
<1>2. /\ rest \in Seq(Frames)
      /\ Len(rest) = n - 1
      /\ \A j \in 1 .. n - 1 : rest[j] = frames[x][j]
  <2>1. \A j \in 1 .. n - 1 : frames[x][j] \in Frames
    BY <1>1, ElementOfSeq
  <2> QED  BY <1>1, <2>1, SubSeqProperties
<1>3. /\ frames'[x] = rest
      /\ \A y \in Contexts \ {x} : frames'[y] = frames[y]
      /\ frames' \in [Contexts -> Seq(Frames)]
  BY <1>1, <1>2 DEF Leave, TypeOK
<1>4. /\ frames[x][n].owner \in Owners /\ frames[x][n].token \in Modes
      /\ mode(frames[x][n].owner) = None <=> frames[x][n].owner = Bare
  BY <1>1, FrameType, ModeType
<1>5. /\ scoped'[x] = IF frames[x][n].owner = Bare THEN scoped[x] ELSE frames[x][n].token
      /\ \A y \in Contexts \ {x} : scoped'[y] = scoped[y]
      /\ scoped' \in [Contexts -> Modes]
  BY <1>1, <1>4 DEF Leave, Innermost, TypeOK
<1>6. ASSUME NEW y \in Contexts, NEW k \in 0 .. Len(frames'[y]), NEW i \in 0 .. k,
             Rules(y, i, k)'
      PROVE  Level(y, k)' = ModeOf(y, i)'
  <2>1. CASE y # x
    <3>1. frames'[y] = frames[y] /\ scoped'[y] = scoped[y]
      BY <1>3, <1>5, <2>1
    <3>2. Rules(y, i, k) /\ Level(y, k)' = Level(y, k)
      BY <1>6, <3>1 DEF Rules, Level
    <3>3. ModeOf(y, i)' = ModeOf(y, i)
      BY <3>1 DEF ModeOf, mode, scoped_decimal_mode
    <3> QED  BY <3>1, <3>2, <3>3 DEF Inv, Ruled
  <2>2. CASE y = x
    <3>0. k \in 0 .. n - 1 /\ \A j \in 1 .. k : frames'[x][j] = frames[x][j]
      BY <1>1, <1>2, <1>3, <2>2
    <3>1. Rules(x, i, k)
      BY <1>1, <1>6, <2>2, <3>0 DEF Rules
    <3>2. Level(x, k) = ModeOf(x, i)
      BY <1>1, <3>0, <3>1 DEF Inv, Ruled
    <3>3. ModeOf(x, i)' = ModeOf(x, i)
      BY <1>1, <3>0 DEF ModeOf, mode, scoped_decimal_mode
    <3>4. CASE k # n - 1
      <4>1. Level(x, k)' = Level(x, k)
        BY <1>1, <1>2, <1>3, <3>0, <3>4 DEF Level
      <4> QED  BY <2>2, <3>2, <3>3, <4>1
    <3>5. CASE k = n - 1
      <4>1. Level(x, k)' = scoped'[x]
        BY <1>2, <1>3, <3>5 DEF Level
      <4>2. CASE frames[x][n].owner # Bare
        <5>1. Level(x, k) = frames[x][n].token
          BY <1>1, <3>5 DEF Level
        <5> QED  BY <1>5, <2>2, <3>2, <3>3, <4>1, <4>2, <5>1
      <4>3. CASE frames[x][n].owner = Bare
        <5>1. Rules(x, i, n)
          BY <1>1, <3>1, <3>5, <4>3 DEF Rules
        <5>2. i \in 0 .. n
          BY <1>1, <3>5
        <5>3. Level(x, n) = ModeOf(x, i) /\ Level(x, n) = scoped[x]
          BY <1>1, <5>1, <5>2 DEF Inv, Ruled, Level
        <5> QED  BY <1>5, <2>2, <3>3, <4>1, <4>3, <5>3
      <4> QED  BY <4>2, <4>3
    <3> QED  BY <3>4, <3>5
  <2> QED  BY <2>1, <2>2
<1> QED  BY <1>3, <1>5, <1>6 DEF Ruled

\* What is started takes its mode from where it was started.
LEMMA StartRuled ==
    ASSUME Inv, NEW x \in Contexts, NEW y \in Contexts, NEW r, Start(x, y, r),
           UNCHANGED <<asked, frames>>
    PROVE  /\ scoped' \in [Contexts -> Modes] /\ base' \in [Contexts -> Modes]
           /\ Ruled'
<1>1. TypeOK /\ frames'[y] = <<>> /\ frames[y] = <<>> /\ Len(frames[y]) = 0
  BY EmptySeq DEF Inv, FreeIsIdle, Start
<1>2. /\ scoped'[y] = scoped[x] /\ base'[y] = scoped[x]
      /\ \A z \in Contexts \ {y} : scoped'[z] = scoped[z] /\ base'[z] = base[z]
      /\ scoped' \in [Contexts -> Modes] /\ base' \in [Contexts -> Modes]
  BY <1>1 DEF Start, TypeOK
<1>3. ASSUME NEW z \in Contexts, NEW k \in 0 .. Len(frames'[z]), NEW i \in 0 .. k,
             Rules(z, i, k)'
      PROVE  Level(z, k)' = ModeOf(z, i)'
  <2>1. CASE z = y
    BY <1>1, <1>2, <2>1 DEF Level, ModeOf
  <2>2. CASE z # y
    <3>1. Rules(z, i, k) /\ Level(z, k)' = Level(z, k) /\ ModeOf(z, i)' = ModeOf(z, i)
      BY <1>2, <1>3, <2>2 DEF Rules, Level, ModeOf, mode, scoped_decimal_mode
    <3> QED  BY <3>1 DEF Inv, Ruled
  <2> QED  BY <2>1, <2>2
<1> QED  BY <1>2, <1>3 DEF Ruled

\* A step that leaves the scopes alone.
LEMMA RuledKept ==
    ASSUME Ruled, UNCHANGED <<asked, scoped, frames, base>>
    PROVE  Ruled'
  BY DEF Ruled, Rules, Level, ModeOf, mode, scoped_decimal_mode
-----------------------------------------------------------------------------
LEMMA InvInit == Init => Inv
<1> SUFFICES ASSUME Init PROVE Inv
  OBVIOUS
<1>1. <<>> \in Seq(Frames)
  BY EmptySeq
<1>2. TypeOK
  BY <1>1 DEF Init, TypeOK, Modes, Roles
<1>3. FreeIsIdle
  BY DEF Init, FreeIsIdle
<1>4. \A x \in Contexts : Len(frames[x]) = 0 /\ base[x] = scoped[x]
  BY EmptySeq DEF Init
<1>5. Ruled
  BY <1>4 DEF Ruled, Level, ModeOf
<1> QED  BY <1>2, <1>3, <1>5 DEF Inv

LEMMA InvNext == Inv /\ [Next]_vars => Inv'
<1> SUFFICES ASSUME Inv, [Next]_vars PROVE Inv'
  OBVIOUS
<1> USE DEF FreeIsIdle
<1>1. TypeOK /\ FreeIsIdle /\ Ruled
  BY DEF Inv
<1>2. ASSUME NEW x \in Contexts, NEW o \in Owners, CallEndpoint(x, o)
      PROVE  Inv'
  <2>1. Enter(x, "rest", o) /\ UNCHANGED <<asked, decimal_mode, role, base>> /\ role[x] # "free"
    BY <1>2 DEF CallEndpoint
  <2>2. /\ frames' \in [Contexts -> Seq(Frames)] /\ scoped' \in [Contexts -> Modes]
        /\ Ruled'
    BY <2>1, EnterRuled
  <2>3. TypeOK'
    BY <1>1, <2>1, <2>2 DEF TypeOK
  <2>4. \A y \in Contexts \ {x} : frames'[y] = frames[y]
    BY <1>1, <2>1 DEF Enter, TypeOK
  <2> QED  BY <1>1, <2>1, <2>2, <2>3, <2>4 DEF Inv
<1>3. ASSUME NEW x \in Contexts, Handle(x)
      PROVE  Inv'
  <2>1. /\ Enter(x, "data", role[x]) /\ UNCHANGED <<asked, decimal_mode, role, base>>
        /\ role[x] \in Clients
    BY <1>3 DEF Handle
  <2>2. role[x] \in Owners /\ role[x] # "free"
    BY <2>1, RolesAssumption DEF Owners
  <2>3. /\ frames' \in [Contexts -> Seq(Frames)] /\ scoped' \in [Contexts -> Modes]
        /\ Ruled'
    BY <2>1, <2>2, EnterRuled
  <2>4. TypeOK'
    BY <1>1, <2>1, <2>3 DEF TypeOK
  <2>5. \A y \in Contexts \ {x} : frames'[y] = frames[y]
    BY <1>1, <2>1 DEF Enter, TypeOK
  <2> QED  BY <1>1, <2>1, <2>2, <2>3, <2>4, <2>5 DEF Inv
<1>4. ASSUME NEW x \in Contexts, Return(x)
      PROVE  Inv'
  <2>1. Leave(x) /\ ~Idle(x) /\ UNCHANGED <<asked, decimal_mode, role, base>>
    BY <1>4 DEF Return
  <2>2. /\ frames' \in [Contexts -> Seq(Frames)] /\ scoped' \in [Contexts -> Modes]
        /\ Ruled'
    BY <2>1, LeaveRuled
  <2>3. TypeOK'
    BY <1>1, <2>1, <2>2 DEF TypeOK
  <2>4. /\ \A y \in Contexts \ {x} : frames'[y] = frames[y]
        /\ role[x] # "free"
    BY <1>1, <2>1 DEF Leave, TypeOK, Idle
  <2> QED  BY <1>1, <2>1, <2>2, <2>3, <2>4 DEF Inv
<1>5. ASSUME NEW x \in Contexts, NEW y \in Contexts, NEW r \in Roles,
             r # "free", Start(x, y, r), UNCHANGED <<asked, decimal_mode, frames>>
      PROVE  Inv'
  <2>1. /\ scoped' \in [Contexts -> Modes] /\ base' \in [Contexts -> Modes]
        /\ Ruled'
    BY <1>5, StartRuled
  <2>2. role' = [role EXCEPT ![y] = r]
    BY <1>5 DEF Start
  <2>3. TypeOK'
    BY <1>1, <1>5, <2>1, <2>2 DEF TypeOK
  <2>4. FreeIsIdle'
    BY <1>1, <1>5, <2>2 DEF TypeOK
  <2> QED  BY <2>1, <2>3, <2>4 DEF Inv
<1>6. ASSUME NEW x \in Contexts, NEW y \in Contexts, StartHandler(x, y)
      PROVE  Inv'
  <2>1. Start(x, y, "handler") /\ UNCHANGED <<asked, decimal_mode, frames>>
    BY <1>6 DEF StartHandler
  <2>2. "handler" \in Roles
    BY DEF Roles
  <2> QED  BY <1>5, <2>1, <2>2
<1>7. ASSUME NEW x \in Contexts, NEW y \in Contexts, NEW c \in Clients, StartBucket(x, y, c)
      PROVE  Inv'
  <2>1. Start(x, y, c) /\ UNCHANGED <<asked, decimal_mode, frames>>
    BY <1>7 DEF StartBucket
  <2>2. c \in Roles /\ c # "free"
    BY RolesAssumption DEF Roles
  <2> QED  BY <1>5, <2>1, <2>2
<1>8. ASSUME NEW enabled \in BOOLEAN, set_decimal_mode(enabled)
      PROVE  Inv'
  <2>1. decimal_mode' = enabled /\ UNCHANGED <<asked, scoped, frames, role, base>>
    BY <1>8 DEF set_decimal_mode
  <2>2. TypeOK' /\ FreeIsIdle'
    BY <1>1, <2>1 DEF TypeOK
  <2> QED  BY <1>1, <2>1, <2>2, RuledKept DEF Inv
<1>9. CASE UNCHANGED vars
  <2>1. TypeOK' /\ FreeIsIdle' /\ UNCHANGED <<asked, scoped, frames, base>>
    BY <1>1, <1>9 DEF TypeOK, vars
  <2> QED  BY <1>1, <2>1, RuledKept DEF Inv
<1> QED  BY <1>2, <1>3, <1>4, <1>6, <1>7, <1>8, <1>9 DEF Next

\* Every variable keeps its type.
THEOREM TypeCorrect == Spec => []TypeOK
<1>1. Inv => TypeOK
  BY DEF Inv
<1> QED  BY <1>1, InvInit, InvNext, PTL DEF Spec

\* No scope outlives its call: decimal_mode_scope resets what it set, however
\* deep its calls were nested and whatever was started from them.
THEOREM ScopesAreRestored == Spec => []ScopesRestored
<1>1. Inv => ScopesRestored
  <2> SUFFICES ASSUME Inv, NEW x \in Contexts, Idle(x)
               PROVE  scoped[x] = base[x]
    BY DEF ScopesRestored
  <2>1. Len(frames[x]) = 0
    BY EmptySeq DEF Idle
  <2>2. Rules(x, 0, 0)
    BY DEF Rules
  <2>3. Level(x, 0) = ModeOf(x, 0)
    BY <2>1, <2>2 DEF Inv, Ruled
  <2> QED  BY <2>1, <2>3 DEF Level, ModeOf
<1> QED  BY <1>1, InvInit, InvNext, PTL DEF Spec

\* A bare group's numbers follow the nearest client scope around the call.
THEOREM BareFollowsItsCaller == Spec => []BareFollowsCaller
<1>1. Inv => BareFollowsCaller
  <2> SUFFICES ASSUME Inv, NEW x \in Contexts, NEW i \in 0 .. Len(frames[x]),
                      Rules(x, i, Len(frames[x]))
               PROVE  scoped[x] = ModeOf(x, i)
    BY DEF BareFollowsCaller, decimal_mode_enabled
  <2>1. Len(frames[x]) \in Nat
    BY LenType DEF Inv
  <2>2. Level(x, Len(frames[x])) = ModeOf(x, i)
    BY <2>1 DEF Inv, Ruled
  <2> QED  BY <2>2 DEF Level
<1> QED  BY <1>1, InvInit, InvNext, PTL DEF Spec

\* The mode a client's own call parses under is the client's, and neither the
\* process-wide default nor another client's.
OwnMode ==
    \A x \in Contexts : ~Idle(x) /\ Innermost(x).owner # Bare =>
        decimal_mode_enabled(x) = scoped_decimal_mode(Innermost(x).owner)

\* "following the owning Client's decimal_mode and never another Client's": for
\* any nesting of calls, tasks and clients.
THEOREM ClientsKeepTheirMode == Spec => []OwnMode
<1>1. Inv => OwnMode
  <2> SUFFICES ASSUME Inv, NEW x \in Contexts, ~Idle(x), Innermost(x).owner # Bare
               PROVE  decimal_mode_enabled(x) = scoped_decimal_mode(Innermost(x).owner)
    BY DEF OwnMode
  <2> DEFINE n == Len(frames[x])
  <2>1. TypeOK /\ n \in Nat \ {0}
    BY LenType, EmptySeq DEF Inv, TypeOK, Idle
  <2>2. Innermost(x).owner = frames[x][n].owner /\ frames[x][n].owner \in Owners
    BY <2>1, FrameType DEF Innermost
  <2>3. Rules(x, n, n)
    BY <2>1, <2>2 DEF Rules
  <2>4. scoped[x] = mode(frames[x][n].owner)
    BY <2>1, <2>3 DEF Inv, Ruled, Level, ModeOf
  <2>5. mode(frames[x][n].owner) # None
    BY <2>1, <2>2, ModeType
  <2> QED  BY <2>2, <2>4, <2>5 DEF decimal_mode_enabled, mode
<1> QED  BY <1>1, InvInit, InvNext, PTL DEF Spec
-----------------------------------------------------------------------------
(* Flattening.                                                             *)

\* A set of naturals has a least element.
LEMMA Least ==
    ASSUME NEW S \in SUBSET Nat, S # {}
    PROVE  \E x \in S : \A y \in S : x <= y
<1>1. PICK R : IsWellFoundedOn(R, Nat) /\ \A x, y \in Nat : y < x => <<y, x>> \in R
  <2>1. IsWellFoundedOn(OpToRel(<, Nat), Nat)
    BY NatLessThanWellFounded
  <2>2. \A x, y \in Nat : y < x => <<y, x>> \in OpToRel(<, Nat)
    BY Zenon DEF OpToRel
  <2> QED  BY <2>1, <2>2, Zenon
<1>2. PICK x \in S : \A y \in S : ~(<<y, x>> \in R)
  BY <1>1, WFMin
<1>3. \A y \in S : ~(y < x)
  BY <1>1, <1>2
<1>4. \A y \in S : x <= y
  BY <1>3
<1> QED  BY <1>4

\* A function that satisfies the equations of FlattenSeq's is the one it takes.
LEMMA FlattenIs ==
    ASSUME NEW n \in Nat \ {0}, NEW seqs, Len(seqs) = n, NEW g,
           \A i \in 1 .. n : g[i] = IF i = 1 THEN seqs[i] ELSE g[i - 1] \o seqs[i]
    PROVE  FlattenSeq(seqs) = g[n]
<1> DEFINE Eqs(f) == f = [i \in 1 .. n |-> IF i = 1 THEN seqs[i] ELSE f[i - 1] \o seqs[i]]
           f == CHOOSE f : Eqs(f)
           h == [i \in 1 .. n |-> g[i]]
<1>1. Eqs(h)
  <2>1. \A i \in 1 .. n : i # 1 => i - 1 \in 1 .. n
    OBVIOUS
  <2>2. \A i \in 1 .. n : g[i] = IF i = 1 THEN seqs[i] ELSE h[i - 1] \o seqs[i]
    BY <2>1
  <2> QED  BY <2>2
<1>2. Eqs(f)
  <2> HIDE DEF Eqs, h
  <2> QED  BY <1>1
<1>3. FlattenSeq(seqs) = f[n]
  BY DEF FlattenSeq
<1> HIDE DEF f
<1> DEFINE B == {i \in 1 .. n : f[i] # g[i]}
<1>4. ASSUME B # {}
      PROVE  FALSE
  <2>0. B \in SUBSET Nat
    OBVIOUS
  <2>1. PICK m \in B : \A i \in B : m <= i
    <3> HIDE DEF B
    <3> QED  BY <1>4, <2>0, Least
  <2>2. f[1] = seqs[1] /\ g[1] = seqs[1]
    BY <1>2
  <2>3. m # 1 /\ m - 1 \in 1 .. n
    BY <2>1, <2>2
  <2>4. f[m - 1] = g[m - 1]
    BY <2>1, <2>3
  <2>5. f[m] = f[m - 1] \o seqs[m] /\ g[m] = g[m - 1] \o seqs[m]
    BY <1>2, <2>1, <2>3
  <2> QED  BY <2>1, <2>4, <2>5
<1> QED  BY <1>3, <1>4

\* The prefixes of a sequence grow by an element at a time.
LEMMA Growing ==
    ASSUME NEW V, NEW s \in Seq(V), NEW i \in 1 .. Len(s)
    PROVE  SubSeq(s, 1, i) = IF i = 1 THEN <<s[i]>> ELSE SubSeq(s, 1, i - 1) \o <<s[i]>>
<1> DEFINE before == SubSeq(s, 1, i - 1)
           last == <<s[i]>>
<1>1. Len(s) \in Nat /\ 1 \in 1 .. Len(s) /\ i \in 1 .. Len(s) /\ s[i] \in V
  BY LenProperties, ElementOfSeq
<1>2. SubSeq(s, 1, i) = before \o last
  BY <1>1, SubSeqRecursiveSecond
<1>3. last \in Seq(V)
  BY <1>1
<1>4. ASSUME i = 1
      PROVE  before \o last = last
  <2>1. before = <<>>
    BY <1>4, SubSeqEmpty
  <2> HIDE DEF last
  <2> QED  BY <1>3, <2>1, ConcatEmptySeq
<1> QED  BY <1>2, <1>4

\* Splicing an array in which nothing is nested changes nothing.
LEMMA SplicePlain ==
    ASSUME NEW V, NEW s \in Seq(V), s # <<>>, \A v \in V : v.kind # "list"
    PROVE  Splice(s) = s
<1> DEFINE n == Len(s)
           seqs == [i \in DOMAIN s |-> IF s[i].kind = "list" THEN s[i].items ELSE <<s[i]>>]
           g == [i \in 1 .. n |-> SubSeq(s, 1, i)]
<1>1. /\ n \in Nat \ {0} /\ DOMAIN s = 1 .. n
      /\ \A i \in 1 .. n : s[i] \in V /\ s[i].kind # "list"
  BY EmptySeq, LenProperties, ElementOfSeq
<1>2. seqs = [i \in 1 .. n |-> <<s[i]>>]
  BY <1>1
<1>3. Len(seqs) = n
  BY <1>1, <1>2
<1>4. ASSUME NEW i \in 1 .. n
      PROVE  g[i] = IF i = 1 THEN seqs[i] ELSE g[i - 1] \o seqs[i]
  <2>1. g[i] = SubSeq(s, 1, i) /\ seqs[i] = <<s[i]>>
    BY <1>2
  <2>2. i # 1 => g[i - 1] = SubSeq(s, 1, i - 1)
    BY <1>1
  <2>3. SubSeq(s, 1, i) = IF i = 1 THEN <<s[i]>> ELSE SubSeq(s, 1, i - 1) \o <<s[i]>>
    BY Growing
  <2> HIDE DEF g, seqs
  <2> QED  BY <2>1, <2>2, <2>3
<1>6. FlattenSeq(seqs) = g[n]
  <2> HIDE DEF seqs, g
  <2> QED  BY <1>1, <1>3, <1>4, FlattenIs
<1>7. g[n] = s
  BY <1>1, SubSeqFull
<1> QED  BY <1>6, <1>7 DEF Splice

\* Splicing an array whose end is nested in it takes the end out again.
LEMMA SpliceNested ==
    ASSUME NEW V, NEW s \in Seq(V), \A v \in V : v.kind # "list",
           NEW k \in 1 .. Len(s)
    PROVE  Splice(Nested(s, k)) = s
<1> DEFINE rest == SubSeq(s, k + 1, Len(s))
           array == Nested(s, k)
           seqs == [i \in DOMAIN array |->
                       IF array[i].kind = "list" THEN array[i].items ELSE <<array[i]>>]
           g == [i \in 1 .. k + 1 |-> IF i <= k THEN SubSeq(s, 1, i) ELSE s]
<1>1. /\ Len(s) \in Nat
      /\ \A i \in 1 .. Len(s) : s[i] \in V /\ s[i].kind # "list"
  BY LenProperties, ElementOfSeq
<1>2. /\ Len(array) = k + 1 /\ DOMAIN array = 1 .. k + 1
      /\ \A i \in 1 .. k : array[i] = s[i]
      /\ array[k + 1] = ListOf(rest)
  <2> DEFINE W == V \cup {ListOf(rest)}
             head == SubSeq(s, 1, k)
  <2>1. /\ head \in Seq(W) /\ Len(head) = k
        /\ \A i \in 1 .. k : head[i] = s[i]
    BY <1>1, SubSeqProperties
  <2>2. array = Append(head, ListOf(rest)) /\ ListOf(rest) \in W
    BY DEF Nested
  <2>3. /\ Len(Append(head, ListOf(rest))) = k + 1
        /\ Append(head, ListOf(rest)) \in Seq(W)
        /\ \A i \in 1 .. k : Append(head, ListOf(rest))[i] = head[i]
        /\ Append(head, ListOf(rest))[k + 1] = ListOf(rest)
    <3> HIDE DEF W, head
    <3> QED  BY <2>1, <2>2, AppendProperties
  <2>4. array \in Seq(W) /\ Len(array) = k + 1
    BY <2>2, <2>3
  <2>5. DOMAIN array = 1 .. k + 1
    <3> HIDE DEF W, array
    <3> QED  BY <2>4, LenProperties
  <2> QED  BY <2>1, <2>2, <2>3, <2>5
<1>3. /\ seqs = [i \in 1 .. k + 1 |-> IF i <= k THEN <<s[i]>> ELSE rest]
      /\ Len(seqs) = k + 1
  <2>1. ListOf(rest).kind = "list" /\ ListOf(rest).items = rest
    BY DEF ListOf
  <2> HIDE DEF array, rest
  <2>2. ASSUME NEW i \in 1 .. k + 1
        PROVE  (IF array[i].kind = "list" THEN array[i].items ELSE <<array[i]>>)
                  = IF i <= k THEN <<s[i]>> ELSE rest
    <3>1. CASE i <= k
      <4>1. array[i] = s[i] /\ s[i].kind # "list"
        BY <1>1, <1>2, <3>1
      <4> QED  BY <3>1, <4>1
    <3>2. CASE i = k + 1
      <4>1. array[i].kind = "list" /\ array[i].items = rest
        BY <1>2, <2>1, <3>2
      <4> QED  BY <1>1, <3>2, <4>1
    <3> QED  BY <3>1, <3>2
  <2>3. seqs = [i \in 1 .. k + 1 |-> IF i <= k THEN <<s[i]>> ELSE rest]
    BY <1>2, <2>2
  <2> QED  BY <1>1, <2>3
<1>4. ASSUME NEW i \in 1 .. k + 1
      PROVE  g[i] = IF i = 1 THEN seqs[i] ELSE g[i - 1] \o seqs[i]
  <2>1. CASE i <= k
    <3>1. g[i] = SubSeq(s, 1, i) /\ seqs[i] = <<s[i]>>
      BY <1>3, <2>1
    <3>2. i # 1 => g[i - 1] = SubSeq(s, 1, i - 1)
      BY <1>1, <2>1
    <3>3. SubSeq(s, 1, i) = IF i = 1 THEN <<s[i]>> ELSE SubSeq(s, 1, i - 1) \o <<s[i]>>
      BY <1>1, <2>1, Growing
    <3> HIDE DEF g, seqs
    <3> QED  BY <3>1, <3>2, <3>3
  <2>2. CASE i = k + 1
    <3>1. g[i] = s /\ g[i - 1] = SubSeq(s, 1, k) /\ i # 1
      BY <1>1, <2>2
    <3>2. seqs[i] = rest
      <4> HIDE DEF seqs, rest, array
      <4> QED  BY <1>1, <1>3, <2>2
    <3>3. SubSeq(s, 1, k) \o rest = SubSeq(s, 1, Len(s))
      <4>1. 1 \in 1 .. Len(s) + 1 /\ k \in 1 - 1 .. Len(s) /\ Len(s) \in k .. Len(s)
        BY <1>1
      <4> QED  BY <4>1, ConcatAdjacentSubSeq
    <3>4. SubSeq(s, 1, Len(s)) = s
      BY SubSeqFull
    <3> HIDE DEF g, seqs, rest
    <3> QED  BY <3>1, <3>2, <3>3, <3>4
  <2> QED  BY <2>1, <2>2
<1>6. FlattenSeq(seqs) = g[k + 1]
  <2> DEFINE n == k + 1
  <2>1. n \in Nat \ {0} /\ Len(seqs) = n
    BY <1>1, <1>3
  <2>2. \A i \in 1 .. n : g[i] = IF i = 1 THEN seqs[i] ELSE g[i - 1] \o seqs[i]
    BY <1>4
  <2> HIDE DEF seqs, g, n
  <2>3. FlattenSeq(seqs) = g[n]
    BY <2>1, <2>2, FlattenIs
  <2> QED  BY <2>3 DEF n
<1>7. g[k + 1] = s
  BY <1>1
<1> QED  BY <1>6, <1>7 DEF Splice

\* So flattening, which splices twice, undoes a nesting.
LEMMA FlattenNested ==
    ASSUME NEW V, NEW s \in Seq(V), \A v \in V : v.kind # "list",
           NEW k \in 1 .. Len(s)
    PROVE  flatten(Nested(s, k)) = s
<1>1. s # <<>>
  BY EmptySeq
<1> QED  BY <1>1, SpliceNested, SplicePlain DEF flatten
-----------------------------------------------------------------------------
(* From an array to an object.                                             *)

\* The labels an array that is accepted may lack.
TailOf(layout) == ToSet(SubSeq(layout.labels, required(layout) + 1, Len(layout.labels)))

\* A layout with a label, and a tail that is part of its labels.
Regular(layout) ==
    /\ layout.labels \in Seq(ToSet(layout.labels))
    /\ required(layout) \in 1 .. Len(layout.labels)

\* The fields are what the sender meant them to be, or are of the tail and absent;
\* the data of a notification are objects of their own.
AsSent(object, exact, decimal, tail) ==
    \A l \in DOMAIN object :
        \/ l = "data"
        \/ object[l] = Serialized(Value(Kind(l, exact), l), l, decimal)
        \/ object[l] = Absent /\ l \in tail

\* An array that is in order as far as it goes, and goes as far as it must, gives
\* an object whose fields are in place.
LEMMA Placed ==
    ASSUME NEW layout, Regular(layout), NEW array, NEW exact, NEW decimal,
           NEW args, Elements(layout, array) = args,
           Len(args) \in Nat, required(layout) <= Len(args),
           \A i \in 1 .. Len(layout.labels) : i <= Len(args) =>
               \/ layout.labels[i] = "data"
               \/ args[i] = Value(Kind(layout.labels[i], exact), layout.labels[i])
    PROVE  AsSent(serialize(layout, array, decimal), exact, decimal, TailOf(layout))
<1> DEFINE labels == layout.labels
           n == Len(labels)
           at(l) == CHOOSE i \in DOMAIN labels : labels[i] = l
           object == serialize(layout, array, decimal)
<1>1. n \in Nat /\ DOMAIN labels = 1 .. n /\ required(layout) \in 1 .. n
  BY LenProperties DEF Regular
<1>2. object = [l \in ToSet(labels) \ {PLACEHOLDER} |->
          Serialized(IF at(l) <= Len(args) THEN args[at(l)] ELSE Absent, l, decimal)]
  BY DEF serialize, named
<1> SUFFICES ASSUME NEW l \in ToSet(labels) \ {PLACEHOLDER}, l # "data"
             PROVE  \/ object[l] = Serialized(Value(Kind(l, exact), l), l, decimal)
                    \/ object[l] = Absent /\ l \in TailOf(layout)
  BY <1>2 DEF AsSent
<1> DEFINE i == at(l)
<1>3. i \in 1 .. n /\ labels[i] = l
  BY <1>1 DEF ToSet
<1>4. object[l] = Serialized(IF i <= Len(args) THEN args[i] ELSE Absent, l, decimal)
  BY <1>2
<1> HIDE DEF i, object
<1>5. CASE i <= Len(args)
  BY <1>3, <1>4, <1>5
<1>6. CASE ~(i <= Len(args))
  <2>1. object[l] = Absent
    BY <1>4, <1>6 DEF Serialized, Absent, Value
  <2> DEFINE r == required(layout)
             tail == SubSeq(labels, r + 1, n)
  <2>2. i \in r + 1 .. n /\ r \in Nat
    BY <1>1, <1>3, <1>6
  <2>3. /\ tail \in Seq(ToSet(labels)) /\ Len(tail) = n - r
        /\ \A j \in 1 .. n - r : tail[j] = labels[r + j]
    <3>1. \A j \in r + 1 .. n : labels[j] \in ToSet(labels)
      BY <1>1, <2>2 DEF ToSet
    <3>2. r + 1 \in Int /\ n \in Int /\ r + 1 <= n
      BY <1>1, <2>2
    <3> HIDE DEF labels, r, n
    <3> QED  BY <1>1, <2>2, <3>1, <3>2, SubSeqProperties
  <2>4. DOMAIN tail = 1 .. n - r
    <3> HIDE DEF tail
    <3> QED  BY <2>3, LenProperties
  <2>5. PICK j \in 1 .. n - r : i = r + j
    <3>1. i - r \in 1 .. n - r /\ i = r + (i - r)
      BY <1>1, <2>2
    <3> QED  BY <3>1
  <2>6. l \in ToSet(tail)
    <3>1. tail[j] = l
      BY <1>3, <2>3, <2>5
    <3> HIDE DEF tail
    <3> QED  BY <2>4, <3>1 DEF ToSet
  <2> QED  BY <2>1, <2>6 DEF TailOf
<1> QED  BY <1>5, <1>6

Tailed == {TradingPairTicker, FundingCurrencyTicker, MovementInfo}
Nesting == {FundingInfo, SymbolMarginInfo, BaseMarginInfo, PositionIncreaseInfo, PairInfo}

\* A sequence is one of its elements.
LEMMA OfElements ==
    ASSUME NEW n \in Nat, NEW s, s = [i \in 1 .. n |-> s[i]]
    PROVE  s \in Seq(ToSet(s)) /\ Len(s) = n
<1>1. \A i \in 1 .. n : s[i] \in ToSet(s)
  BY DEF ToSet
<1> DEFINE T == ToSet(s)
<1>2. s \in [1 .. n -> T]
  <2> HIDE DEF T
  <2> QED  BY <1>1 DEF T
<1>3. s \in Seq(T)
  <2> HIDE DEF T
  <2> QED  BY <1>2, SeqDef
<1> QED  BY <1>3

LEMMA TailedRegular ==
    ASSUME NEW layout \in Tailed
    PROVE  /\ Regular(layout) /\ required(layout) < Len(layout.labels)
           /\ layout.flat = FALSE /\ layout # Notification
<1>1. CASE layout = TradingPairTicker
  <2>1. layout.labels = [i \in 1 .. 11 |-> layout.labels[i]]
    BY <1>1 DEF TradingPairTicker, Layout
  <2>2. layout.labels \in Seq(ToSet(layout.labels)) /\ Len(layout.labels) = 11
    BY <2>1, OfElements
  <2> QED  BY <1>1, <2>2 DEF TradingPairTicker, Layout, Regular, required, Notification
<1>2. CASE layout = FundingCurrencyTicker
  <2>1. layout.labels = [i \in 1 .. 17 |-> layout.labels[i]]
    BY <1>2 DEF FundingCurrencyTicker, Layout
  <2>2. layout.labels \in Seq(ToSet(layout.labels)) /\ Len(layout.labels) = 17
    BY <2>1, OfElements
  <2> QED  BY <1>2, <2>2 DEF FundingCurrencyTicker, Layout, Regular, required, Notification
<1>3. CASE layout = MovementInfo
  <2>1. layout.labels = [i \in 1 .. 32 |-> layout.labels[i]]
    BY <1>3 DEF MovementInfo, Layout
  <2>2. layout.labels \in Seq(ToSet(layout.labels)) /\ Len(layout.labels) = 32
    BY <2>1, OfElements
  <2> QED  BY <1>3, <2>2 DEF MovementInfo, Layout, Regular, required, Notification
<1> QED  BY <1>1, <1>2, <1>3 DEF Tailed

LEMMA NestingRegular ==
    ASSUME NEW layout \in Nesting
    PROVE  /\ Regular(layout) /\ 2 < Len(layout.labels)
           /\ required(layout) = Len(layout.labels)
           /\ layout.flat = TRUE /\ layout # Notification
<1>1. CASE layout = FundingInfo \/ layout = SymbolMarginInfo \/ layout = BaseMarginInfo
  <2>1. layout.labels = [i \in 1 .. 6 |-> layout.labels[i]]
    BY <1>1 DEF FundingInfo, SymbolMarginInfo, BaseMarginInfo, Layout
  <2>2. layout.labels \in Seq(ToSet(layout.labels)) /\ Len(layout.labels) = 6
    BY <2>1, OfElements
  <2> QED  BY <1>1, <2>2 DEF FundingInfo, SymbolMarginInfo, BaseMarginInfo, Layout, Regular,
              required, Notification
<1>2. CASE layout = PositionIncreaseInfo
  <2>1. layout.labels = [i \in 1 .. 18 |-> layout.labels[i]]
    BY <1>2 DEF PositionIncreaseInfo, Layout
  <2>2. layout.labels \in Seq(ToSet(layout.labels)) /\ Len(layout.labels) = 18
    BY <2>1, OfElements
  <2> QED  BY <1>2, <2>2 DEF PositionIncreaseInfo, Layout, Regular, required, Notification
<1>3. CASE layout = PairInfo
  <2>1. layout.labels = [i \in 1 .. 11 |-> layout.labels[i]]
    BY <1>3 DEF PairInfo, Layout
  <2>2. layout.labels \in Seq(ToSet(layout.labels)) /\ Len(layout.labels) = 11
    BY <2>1, OfElements
  <2> QED  BY <1>3, <2>2 DEF PairInfo, Layout, Regular, required, Notification
<1> QED  BY <1>1, <1>2, <1>3 DEF Nesting

LEMMA PlainRegular ==
    ASSUME NEW layout \in {Transfer, Notification}
    PROVE  /\ Regular(layout) /\ Len(layout.labels) = 8
           /\ required(layout) = Len(layout.labels) /\ layout.flat = FALSE
<1>1. layout.labels = [i \in 1 .. 8 |-> layout.labels[i]]
  BY DEF Transfer, Notification, Layout
<1>2. layout.labels \in Seq(ToSet(layout.labels)) /\ Len(layout.labels) = 8
  BY <1>1, OfElements
<1> QED  BY <1>2 DEF Transfer, Notification, Layout, Regular, required

ValuesOf(labels) ==
    {Value(kind, l) : kind \in {"int", "float", "Decimal", "text"}, l \in ToSet(labels)}

\* A full array has the value of each label at its position, and nothing nested.
LEMMA FullArray ==
    ASSUME NEW layout, Regular(layout), NEW exact \in BOOLEAN
    PROVE  LET s == Sent(layout.labels, exact)
           IN /\ s \in Seq(ValuesOf(layout.labels)) /\ Len(s) = Len(layout.labels)
              /\ \A i \in 1 .. Len(layout.labels) :
                    s[i] = Value(Kind(layout.labels[i], exact), layout.labels[i])
              /\ \A v \in ValuesOf(layout.labels) : v.kind # "list"
<1> DEFINE labels == layout.labels
           n == Len(labels)
           s == Sent(labels, exact)
           V == ValuesOf(labels)
<1>1. n \in Nat /\ DOMAIN labels = 1 .. n
  BY LenProperties DEF Regular
<1>2. s = [i \in 1 .. n |-> Value(Kind(labels[i], exact), labels[i])]
  BY <1>1 DEF Sent
<1>3. \A l : Kind(l, exact) \in {"int", "float", "Decimal", "text"}
  BY DEF Kind, decoded_float
<1>4. \A i \in 1 .. n : labels[i] \in ToSet(labels)
  BY <1>1 DEF ToSet
<1>5. ASSUME NEW i \in 1 .. n
      PROVE  Value(Kind(labels[i], exact), labels[i]) \in V
  BY <1>3, <1>4 DEF ValuesOf
<1>6. s \in [1 .. n -> V]
  <2> HIDE DEF V
  <2> QED  BY <1>2, <1>5
<1>7. s \in Seq(V) /\ Len(s) = n
  <2> HIDE DEF V, s
  <2> QED  BY <1>1, <1>6, SeqDef
<1>8. \A v \in V : v.kind # "list"
  BY DEF ValuesOf, Value
<1> QED  BY <1>2, <1>7, <1>8

\* What the theorem is about: the objects that come out of a payload.
InPlace(payload, exact, decimal) ==
    /\ \A object \in Objects(payload, decimal) :
          AsSent(object, exact, decimal, TailOf(payload.layout))
    /\ Objects(payload, decimal) = {} => CutShort(payload)

\* Of an array with one object, short arrays aside.
LEMMA OneObject ==
    ASSUME NEW payload, payload.layout # Notification, Regular(payload.layout),
           NEW exact, NEW decimal, NEW args,
           Elements(payload.layout, payload.array) = args, Len(args) \in Nat,
           \A i \in 1 .. Len(payload.layout.labels) : i <= Len(args) =>
               args[i] = Value(Kind(payload.layout.labels[i], exact), payload.layout.labels[i]),
           required(payload.layout) <= Len(args) \/ (~payload.layout.flat /\ payload.array = args)
    PROVE  InPlace(payload, exact, decimal)
<1> DEFINE layout == payload.layout
           array == payload.array
<1>1. required(layout) \in Nat
  BY LenProperties DEF Regular
<1>2. CASE required(layout) <= Len(args)
  <2>1. Objects(payload, decimal) = {serialize(layout, array, decimal)}
    BY <1>2 DEF Objects, Accepts
  <2>2. AsSent(serialize(layout, array, decimal), exact, decimal, TailOf(layout))
    BY <1>2, Placed
  <2> QED  BY <2>1, <2>2 DEF InPlace
<1>3. CASE ~(required(layout) <= Len(args))
  <2>1. Objects(payload, decimal) = {}
    BY <1>3 DEF Objects, Accepts
  <2>2. ~layout.flat /\ Len(array) < required(layout)
    BY <1>1, <1>3
  <2> QED  BY <2>1, <2>2 DEF InPlace, CutShort
<1> QED  BY <1>2, <1>3

\* An array without its optional tail, with part of it, or one short of that.
LEMMA TailedInPlace ==
    ASSUME NEW layout \in Tailed, NEW exact \in BOOLEAN, NEW decimal \in BOOLEAN,
           NEW n \in required(layout) - 1 .. required(layout) + 1
    PROVE  InPlace(Payload(layout, SubSeq(Sent(layout.labels, exact), 1, n), FALSE),
                   exact, decimal)
<1> DEFINE s == Sent(layout.labels, exact)
           m == Len(layout.labels)
           V == ValuesOf(layout.labels)
           array == SubSeq(s, 1, n)
           payload == Payload(layout, array, FALSE)
<1>1. /\ Regular(layout) /\ required(layout) < m /\ layout.flat = FALSE
      /\ layout # Notification
  BY TailedRegular
<1>2. m \in Nat /\ required(layout) \in Nat /\ n \in 0 .. m /\ n \in Int
  BY <1>1, LenProperties DEF Regular
<1>3. /\ s \in Seq(V) /\ Len(s) = m
      /\ \A i \in 1 .. m : s[i] = Value(Kind(layout.labels[i], exact), layout.labels[i])
  BY <1>1, FullArray
<1>4. \A i \in 1 .. n : s[i] \in V
  <2> HIDE DEF s, V
  <2> QED  BY <1>2, <1>3, ElementOfSeq
<1>5. Len(array) = n /\ \A i \in 1 .. n : array[i] = s[i]
  <2> HIDE DEF s, V
  <2>1. /\ Len(array) = IF 1 <= n THEN n - 1 + 1 ELSE 0
        /\ \A i \in 1 .. n - 1 + 1 : array[i] = s[1 + i - 1]
    BY <1>2, <1>4, SubSeqProperties
  <2> QED  BY <1>2, <2>1
<1>6. payload.layout = layout /\ payload.array = array
  BY DEF Payload
<1>7. Elements(layout, array) = array
  BY <1>1 DEF Elements
<1>8. \A i \in 1 .. m : i <= n => array[i] = Value(Kind(layout.labels[i], exact), layout.labels[i])
  BY <1>2, <1>3, <1>5
<1>9. InPlace(payload, exact, decimal)
  <2> HIDE DEF payload, array
  <2> QED  BY <1>1, <1>2, <1>5, <1>6, <1>7, <1>8, OneObject
<1> QED  BY <1>9

\* An array some of whose values come nested.
LEMMA NestingInPlace ==
    ASSUME NEW layout \in Nesting, NEW exact \in BOOLEAN, NEW decimal \in BOOLEAN,
           NEW k \in 1 .. 2
    PROVE  InPlace(Payload(layout, Nested(Sent(layout.labels, exact), k), FALSE),
                   exact, decimal)
<1> DEFINE s == Sent(layout.labels, exact)
           m == Len(layout.labels)
           V == ValuesOf(layout.labels)
           array == Nested(s, k)
           payload == Payload(layout, array, FALSE)
<1>1. /\ Regular(layout) /\ required(layout) = m /\ layout.flat = TRUE
      /\ layout # Notification /\ 2 < m
  BY NestingRegular
<1>2. m \in Nat /\ k \in 1 .. m
  BY <1>1, LenProperties DEF Regular
<1>3. /\ s \in Seq(V) /\ Len(s) = m /\ (\A v \in V : v.kind # "list")
      /\ \A i \in 1 .. m : s[i] = Value(Kind(layout.labels[i], exact), layout.labels[i])
  BY <1>1, FullArray
<1>4. flatten(array) = s
  <2> HIDE DEF s, V
  <2> QED  BY <1>2, <1>3, FlattenNested
<1>5. Elements(layout, array) = s
  BY <1>1, <1>4 DEF Elements
<1>6. payload.layout = layout /\ payload.array = array
  BY DEF Payload
<1>7. InPlace(payload, exact, decimal)
  <2> HIDE DEF payload, array, s
  <2> QED  BY <1>1, <1>2, <1>3, <1>5, <1>6, OneObject
<1> QED  BY <1>7

\* What is nested may be longer than the labels.
LEMMA LongerInPlace ==
    ASSUME NEW exact \in BOOLEAN, NEW decimal \in BOOLEAN, NEW more \in Seq({Value("text", PLACEHOLDER)})
    PROVE  InPlace(Payload(PairInfo, Nested(Sent(PairInfo.labels, exact) \o more, 1), FALSE),
                   exact, decimal)
<1> DEFINE layout == PairInfo
           full == Sent(layout.labels, exact)
           s == full \o more
           m == Len(layout.labels)
           V == ValuesOf(layout.labels) \cup {Value("text", PLACEHOLDER)}
           array == Nested(s, 1)
           payload == Payload(layout, array, FALSE)
<1>1. /\ Regular(layout) /\ required(layout) = m /\ layout.flat = TRUE
      /\ layout # Notification /\ 2 < m
  BY NestingRegular DEF Nesting
<1>2. m \in Nat
  BY <1>1, LenProperties DEF Regular
<1>3. /\ full \in Seq(ValuesOf(layout.labels)) /\ Len(full) = m
      /\ \A v \in ValuesOf(layout.labels) : v.kind # "list"
      /\ \A i \in 1 .. m : full[i] = Value(Kind(layout.labels[i], exact), layout.labels[i])
  BY <1>1, FullArray
<1>4. full \in Seq(V) /\ more \in Seq(V) /\ \A v \in V : v.kind # "list"
  <2>1. ValuesOf(layout.labels) \subseteq V /\ {Value("text", PLACEHOLDER)} \subseteq V
    OBVIOUS
  <2>2. \A v \in {Value("text", PLACEHOLDER)} : v.kind # "list"
    BY DEF Value
  <2> HIDE DEF full, layout
  <2> QED  BY <1>3, <2>1, <2>2, SeqMonotonic
<1>5. /\ s \in Seq(V) /\ Len(s) \in Nat /\ Len(s) >= m
      /\ \A i \in 1 .. m : s[i] = full[i]
  <2> HIDE DEF full, V
  <2> QED  BY <1>2, <1>3, <1>4, ConcatProperties, LenProperties
<1>6. flatten(array) = s
  <2> HIDE DEF s, V
  <2> QED  BY <1>1, <1>2, <1>4, <1>5, FlattenNested
<1>7. Elements(layout, array) = s
  BY <1>1, <1>6 DEF Elements
<1>8. payload.layout = layout /\ payload.array = array
  BY DEF Payload
<1>9. \A i \in 1 .. m : s[i] = Value(Kind(layout.labels[i], exact), layout.labels[i])
  BY <1>3, <1>5
<1>10. InPlace(payload, exact, decimal)
  <2> HIDE DEF payload, array, s, layout
  <2> QED  BY <1>1, <1>2, <1>5, <1>7, <1>8, <1>9, OneObject
<1> QED  BY <1>10
-----------------------------------------------------------------------------
(* Notifications, and objects in an object.                                *)

\* The labels of a notification are not money.
LEMMA NotificationLabels ==
    /\ Notification.labels = <<"mts", "type", "message_id", PLACEHOLDER, "data", "code", "status", "text">>
    /\ \A i \in 1 .. 8 : Notification.labels[i] \notin MONETARY_FIELDS \cup Whole
    /\ "data" \in ToSet(Notification.labels) \ {PLACEHOLDER}
    /\ Notification.flat = FALSE
<1>1. Notification.labels = <<"mts", "type", "message_id", PLACEHOLDER, "data", "code", "status", "text">>
  BY DEF Notification, Layout
<1>2. \A l \in {"mts", "type", "message_id", PLACEHOLDER, "data", "code", "status", "text"} :
         l \notin MONETARY_FIELDS \cup Whole
  BY DEF PLACEHOLDER, MONETARY_FIELDS, Whole
<1>3. \A i \in 1 .. 8 : Notification.labels[i] \in
         {"mts", "type", "message_id", PLACEHOLDER, "data", "code", "status", "text"}
  BY <1>1
<1>4. 5 \in DOMAIN Notification.labels /\ Notification.labels[5] = "data"
  BY <1>1
<1>5. "data" \in ToSet(Notification.labels) /\ "data" # PLACEHOLDER
  BY <1>4 DEF ToSet, PLACEHOLDER
<1>6. Notification.flat = FALSE
  BY DEF Notification, Layout
<1> QED  BY <1>1, <1>2, <1>3, <1>5, <1>6

\* The two layouts without a tail have none.
LEMMA NoTail == TailOf(Transfer) = {} /\ TailOf(Notification) = {}
<1>1. ASSUME NEW layout \in {Transfer, Notification}
      PROVE  TailOf(layout) = {}
  <2>1. required(layout) = 8 /\ Len(layout.labels) = 8
    BY PlainRegular
  <2> DEFINE tail == SubSeq(layout.labels, required(layout) + 1, Len(layout.labels))
  <2>2. tail = <<>>
    BY <2>1, SubSeqEmpty
  <2>3. \A t : t = <<>> => ToSet(t) = {}
    BY DEF ToSet
  <2> QED  BY <2>2, <2>3 DEF TailOf
<1> QED  BY <1>1

\* The object around a notification's data.
LEMMA Outer ==
    ASSUME NEW data, NEW exact \in BOOLEAN, NEW decimal \in BOOLEAN
    PROVE  LET top == serialize(Notification, NotificationOf(data), decimal)
           IN /\ Accepts(Notification, NotificationOf(data))
              /\ AsSent(top, exact, decimal, TailOf(Notification))
              /\ top["data"] = data
              /\ DOMAIN NotificationOf(data) = 1 .. 8 /\ NotificationOf(data)[5] = data
<1> DEFINE labels == Notification.labels
           array == NotificationOf(data)
           at(l) == CHOOSE i \in DOMAIN labels : labels[i] = l
           top == serialize(Notification, array, decimal)
<1>1. /\ Regular(Notification) /\ Len(labels) = 8 /\ required(Notification) = 8
      /\ DOMAIN labels = 1 .. 8
  <2>1. Regular(Notification) /\ Len(labels) = 8 /\ required(Notification) = 8
    BY PlainRegular
  <2> QED  BY <2>1, LenProperties DEF Regular
<1>2. /\ array = [i \in 1 .. 8 |-> IF labels[i] = "data" THEN data ELSE Value("text", labels[i])]
      /\ Len(array) = 8 /\ labels[5] = "data"
  BY <1>1, NotificationLabels DEF NotificationOf
<1>3. Elements(Notification, array) = array
  BY NotificationLabels DEF Elements
<1>4. ASSUME NEW i \in 1 .. 8, labels[i] # "data"
      PROVE  array[i] = Value(Kind(labels[i], exact), labels[i])
  <2>1. array[i] = Value("text", labels[i])
    BY <1>2, <1>4
  <2>2. Kind(labels[i], exact) = "text"
    BY NotificationLabels DEF Kind
  <2> QED  BY <2>1, <2>2
<1>5. AsSent(top, exact, decimal, TailOf(Notification))
  <2> HIDE DEF array
  <2> QED  BY <1>1, <1>2, <1>3, <1>4, Placed
<1>6. top["data"] = data
  <2> DEFINE i == at("data")
  <2>1. i \in 1 .. 8 /\ labels[i] = "data"
    BY <1>1, NotificationLabels DEF ToSet
  <2>2. top["data"] = Serialized(IF i <= 8 THEN array[i] ELSE Absent, "data", decimal)
    <3>1. top = [l \in ToSet(labels) \ {PLACEHOLDER} |->
             Serialized(IF at(l) <= Len(array) THEN array[at(l)] ELSE Absent, l, decimal)]
      <4> HIDE DEF array
      <4> QED  BY <1>3 DEF serialize, named
    <3> HIDE DEF top, array, labels
    <3> QED  BY <1>2, <3>1, NotificationLabels DEF labels
  <2>3. array[i] = data
    BY <1>2, <2>1
  <2>4. "data" \notin MONETARY_FIELDS
    BY NotificationLabels
  <2> HIDE DEF i, array, top
  <2> QED  BY <2>1, <2>2, <2>3, <2>4 DEF Serialized
<1>7. Accepts(Notification, array)
  BY <1>1, <1>2, <1>3 DEF Accepts
<1> QED  BY <1>2, <1>5, <1>6, <1>7

\* A transfer inside it.
LEMMA Inner ==
    ASSUME NEW exact \in BOOLEAN, NEW decimal \in BOOLEAN
    PROVE  LET transfer == Sent(Transfer.labels, exact)
           IN /\ Accepts(Transfer, transfer)
              /\ AsSent(serialize(Transfer, transfer, decimal), exact, decimal, TailOf(Notification))
<1> DEFINE transfer == Sent(Transfer.labels, exact)
<1>1. Regular(Transfer) /\ required(Transfer) = 8 /\ Len(Transfer.labels) = 8 /\ Transfer.flat = FALSE
  BY PlainRegular
<1>2. /\ Len(transfer) = 8
      /\ \A i \in 1 .. 8 : transfer[i] = Value(Kind(Transfer.labels[i], exact), Transfer.labels[i])
  BY <1>1, FullArray
<1>3. Elements(Transfer, transfer) = transfer
  BY <1>1 DEF Elements
<1>4. AsSent(serialize(Transfer, transfer, decimal), exact, decimal, TailOf(Transfer))
  <2> HIDE DEF transfer
  <2> QED  BY <1>1, <1>2, <1>3, Placed
<1>5. Accepts(Transfer, transfer)
  BY <1>1, <1>2, <1>3 DEF Accepts
<1> QED  BY <1>4, <1>5, NoTail

\* A notification whose data are rows of transfers.
LEMMA NotificationInPlace ==
    ASSUME NEW items, NEW is_iterable \in BOOLEAN, NEW exact \in BOOLEAN, NEW decimal \in BOOLEAN,
           \A i \in DOMAIN Rows(items, is_iterable) :
              Rows(items, is_iterable)[i] = Sent(Transfer.labels, exact)
    PROVE  InPlace(Payload(Notification, NotificationOf(ListOf(items)), is_iterable), exact, decimal)
<1> DEFINE array == NotificationOf(ListOf(items))
           payload == Payload(Notification, array, is_iterable)
           top == serialize(Notification, array, decimal)
           rows == Rows(items, is_iterable)
<1>1. payload.layout = Notification /\ payload.array = array /\ payload.is_iterable = is_iterable
  BY DEF Payload
<1>2. /\ Accepts(Notification, array) /\ top["data"] = ListOf(items)
      /\ AsSent(top, exact, decimal, TailOf(Notification))
  BY Outer
<1>3. ListOf(items).kind = "list" /\ ListOf(items).items = items
  BY DEF ListOf
<1>4. top["data"].kind = "list" /\ top["data"].items = items
  BY <1>2, <1>3
<1>5. Objects(payload, decimal)
         = {top} \cup {serialize(Transfer, rows[i], decimal) : i \in DOMAIN rows}
  <2>1. \A i \in DOMAIN rows : Accepts(Transfer, rows[i])
    BY Inner
  <2> HIDE DEF payload, array
  <2> QED  BY <1>1, <1>2, <1>4, <2>1 DEF Objects
<1>6. \A object \in Objects(payload, decimal) :
         AsSent(object, exact, decimal, TailOf(Notification))
  <2> HIDE DEF payload, top
  <2> QED  BY <1>2, <1>5, Inner
<1>7. top \in Objects(payload, decimal)
  BY <1>5
<1>8. InPlace(payload, exact, decimal)
  <2> HIDE DEF payload, top, array
  <2> QED  BY <1>1, <1>6, <1>7 DEF InPlace
<1> QED  BY <1>8

\* One with a row that is too short is refused.
LEMMA CutNotificationInPlace ==
    ASSUME NEW items, NEW is_iterable \in BOOLEAN, NEW exact \in BOOLEAN, NEW decimal \in BOOLEAN,
           NEW i \in DOMAIN Rows(items, is_iterable), Len(Rows(items, is_iterable)[i]) \in 0 .. 7
    PROVE  InPlace(Payload(Notification, NotificationOf(ListOf(items)), is_iterable), exact, decimal)
<1> DEFINE array == NotificationOf(ListOf(items))
           payload == Payload(Notification, array, is_iterable)
           top == serialize(Notification, array, decimal)
           rows == Rows(items, is_iterable)
<1>1. payload.layout = Notification /\ payload.array = array /\ payload.is_iterable = is_iterable
  BY DEF Payload
<1>2. /\ Accepts(Notification, array) /\ top["data"] = ListOf(items) /\ array[5] = ListOf(items)
  BY Outer
<1>3. ListOf(items).kind = "list" /\ ListOf(items).items = items
  BY DEF ListOf
<1>4. top["data"].items = items /\ array[5].items = items
  BY <1>2, <1>3
<1>5. required(Transfer) = 8 /\ Transfer.flat = FALSE
  BY PlainRegular
<1>6. ~Accepts(Transfer, rows[i]) /\ Len(rows[i]) < required(Transfer)
  <2>1. Len(rows[i]) \in 0 .. 7
    OBVIOUS
  <2> HIDE DEF rows
  <2>2. Elements(Transfer, rows[i]) = rows[i]
    BY <1>5 DEF Elements
  <2>3. ~(8 <= Len(rows[i])) /\ Len(rows[i]) < 8
    <3>1. \A n \in 0 .. 7 : ~(8 <= n) /\ n < 8
      OBVIOUS
    <3> QED  BY <2>1, <3>1, Zenon
  <2>4. Accepts(Transfer, rows[i]) <=> 8 <= Len(rows[i])
    BY <1>5, <2>2, Zenon DEF Accepts
  <2> QED  BY <1>5, <2>3, <2>4, Zenon
<1>7. Objects(payload, decimal) = {}
  <2> HIDE DEF payload, array
  <2> QED  BY <1>1, <1>2, <1>4, <1>6 DEF Objects
<1>8. CutShort(payload)
  <2>1. rows = Rows(payload.array[5].items, payload.is_iterable)
    <3> HIDE DEF payload, array
    <3> QED  BY <1>1, <1>4
  <2>2. i \in DOMAIN rows
    OBVIOUS
  <2> HIDE DEF payload, array, rows
  <2> QED  BY <1>1, <1>6, <2>1, <2>2 DEF CutShort
<1>9. InPlace(payload, exact, decimal)
  <2> HIDE DEF payload, array
  <2> QED  BY <1>7, <1>8 DEF InPlace
<1> QED  BY <1>9

\* One without data is refused.
LEMMA NoDataInPlace ==
    ASSUME NEW is_iterable \in BOOLEAN, NEW exact \in BOOLEAN, NEW decimal \in BOOLEAN
    PROVE  InPlace(Payload(Notification, NotificationOf(Absent), is_iterable), exact, decimal)
<1> DEFINE array == NotificationOf(Absent)
           payload == Payload(Notification, array, is_iterable)
           top == serialize(Notification, array, decimal)
<1>1. payload.layout = Notification /\ payload.array = array
  BY DEF Payload
<1>2. /\ Accepts(Notification, array) /\ top["data"] = Absent
      /\ DOMAIN array = 1 .. 8 /\ array[5] = Absent
  BY Outer
<1>3. top["data"].kind # "list"
  BY <1>2 DEF Absent, Value
<1>4. Objects(payload, decimal) = {}
  <2> HIDE DEF payload, array
  <2> QED  BY <1>1, <1>2, <1>3 DEF Objects
<1>5. Absent \in ToSet(array)
  <2> HIDE DEF array
  <2> QED  BY <1>2 DEF ToSet
<1>6. InPlace(payload, exact, decimal)
  <2> HIDE DEF payload, array
  <2> QED  BY <1>1, <1>4, <1>5 DEF InPlace, CutShort
<1> QED  BY <1>6
-----------------------------------------------------------------------------
(* What a call makes of what it gets.                                      *)

\* Every payload of the server's, in either mode.
LEMMA PayloadsInPlace ==
    ASSUME NEW exact \in BOOLEAN, NEW decimal \in BOOLEAN, NEW payload \in Payloads[exact]
    PROVE  InPlace(payload, exact, decimal)
<1> DEFINE sent(layout) == Sent(layout.labels, exact)
           transfer == sent(Transfer)
           short == SubSeq(transfer, 1, 7)
           more == <<Value("text", PLACEHOLDER), Value("text", PLACEHOLDER)>>
           nested == {FundingInfo, SymbolMarginInfo, BaseMarginInfo, PositionIncreaseInfo}
<1>1. \/ \E layout \in Tailed : \E n \in required(layout) - 1 .. required(layout) + 1 :
            payload = Payload(layout, SubSeq(sent(layout), 1, n), FALSE)
      \/ \E layout \in nested : \E k \in 1 .. 2 : payload = Payload(layout, Nested(sent(layout), k), FALSE)
      \/ payload = Payload(PairInfo, Nested(sent(PairInfo) \o more, 1), FALSE)
      \/ \E data \in {transfer, <<ListOf(transfer)>>} :
            payload = Payload(Notification, NotificationOf(ListOf(data)), FALSE)
      \/ \E data \in {<<>>, <<ListOf(transfer), ListOf(transfer)>>} :
            payload = Payload(Notification, NotificationOf(ListOf(data)), TRUE)
      \/ \E data \in {<<>>, short} :
            payload = Payload(Notification, NotificationOf(ListOf(data)), FALSE)
      \/ payload = Payload(Notification, NotificationOf(ListOf(<<ListOf(transfer), ListOf(short)>>)), TRUE)
      \/ \E b \in BOOLEAN : payload = Payload(Notification, NotificationOf(Absent), b)
  <2> DEFINE cut == UNION {{Payload(layout, SubSeq(sent(layout), 1, n), FALSE) :
                   n \in required(layout) - 1 .. required(layout) + 1} : layout \in Tailed}
             flat == UNION {{Payload(layout, Nested(sent(layout), k), FALSE) : k \in 1 .. 2} :
                               layout \in nested}
             long == {Payload(PairInfo, Nested(sent(PairInfo) \o more, 1), FALSE)}
             one == {Payload(Notification, NotificationOf(ListOf(data)), FALSE) :
                       data \in {transfer, <<ListOf(transfer)>>}}
             many == {Payload(Notification, NotificationOf(ListOf(data)), TRUE) :
                        data \in {<<>>, <<ListOf(transfer), ListOf(transfer)>>}}
             less == {Payload(Notification, NotificationOf(ListOf(data)), FALSE) : data \in {<<>>, short}}
             fewer == {Payload(Notification,
                               NotificationOf(ListOf(<<ListOf(transfer), ListOf(short)>>)), TRUE)}
             none == {Payload(Notification, NotificationOf(Absent), b) : b \in BOOLEAN}
  <2>1. Payloads[exact] = cut \cup flat \cup long \cup one \cup many
                           \cup less \cup fewer \cup none
    BY DEF Payloads, Tailed
  <2>2. \/ payload \in cut \/ payload \in flat \/ payload \in long
        \/ payload \in one \/ payload \in many \/ payload \in less \/ payload \in fewer
        \/ payload \in none
    <3> HIDE DEF cut, flat, long, one, many, less, fewer, none
    <3> QED  BY <2>1
  <2>3. payload \in cut =>
           \E layout \in Tailed : \E n \in required(layout) - 1 .. required(layout) + 1 :
              payload = Payload(layout, SubSeq(sent(layout), 1, n), FALSE)
    <3> HIDE DEF sent
    <3> QED  OBVIOUS
  <2>4. payload \in flat =>
           \E layout \in nested : \E k \in 1 .. 2 : payload = Payload(layout, Nested(sent(layout), k), FALSE)
    <3> HIDE DEF sent, nested
    <3> QED  OBVIOUS
  <2>5. payload \in long => payload = Payload(PairInfo, Nested(sent(PairInfo) \o more, 1), FALSE)
    OBVIOUS
  <2>6. payload \in one => \E data \in {transfer, <<ListOf(transfer)>>} :
                              payload = Payload(Notification, NotificationOf(ListOf(data)), FALSE)
    OBVIOUS
  <2>7. payload \in many => \E data \in {<<>>, <<ListOf(transfer), ListOf(transfer)>>} :
                               payload = Payload(Notification, NotificationOf(ListOf(data)), TRUE)
    OBVIOUS
  <2>8. payload \in none => \E b \in BOOLEAN : payload = Payload(Notification, NotificationOf(Absent), b)
    OBVIOUS
  <2>9. payload \in less => \E data \in {<<>>, short} :
                               payload = Payload(Notification, NotificationOf(ListOf(data)), FALSE)
    <3> HIDE DEF short
    <3> QED  OBVIOUS
  <2>10. payload \in fewer =>
            payload = Payload(Notification, NotificationOf(ListOf(<<ListOf(transfer), ListOf(short)>>)), TRUE)
    <3> HIDE DEF short, transfer
    <3> QED  OBVIOUS
  <2> HIDE DEF cut, flat, long, one, many, less, fewer, none, sent, more, transfer, short, nested
  <2> QED  BY <2>2, <2>3, <2>4, <2>5, <2>6, <2>7, <2>8, <2>9, <2>10
<1>2. ASSUME NEW layout \in nested, NEW k \in 1 .. 2,
             payload = Payload(layout, Nested(sent(layout), k), FALSE)
      PROVE  InPlace(payload, exact, decimal)
  <2>1. layout \in Nesting
    BY DEF Nesting
  <2> QED  BY <1>2, <2>1, NestingInPlace
<1>3. ASSUME payload = Payload(PairInfo, Nested(sent(PairInfo) \o more, 1), FALSE)
      PROVE  InPlace(payload, exact, decimal)
  <2>1. more \in Seq({Value("text", PLACEHOLDER)})
    OBVIOUS
  <2> HIDE DEF more
  <2> QED  BY <1>3, <2>1, LongerInPlace
<1>4. ASSUME NEW data \in {transfer, <<ListOf(transfer)>>},
             payload = Payload(Notification, NotificationOf(ListOf(data)), FALSE)
      PROVE  InPlace(payload, exact, decimal)
  <2>1. Len(transfer) = 8
    BY PlainRegular, FullArray
  <2>2. Rows(data, FALSE) = <<transfer>>
    <3> HIDE DEF transfer
    <3>1. CASE data = transfer
      BY <2>1, <3>1 DEF Rows
    <3>2. CASE data = <<ListOf(transfer)>>
      BY <3>2 DEF Rows, ListOf
    <3> QED  BY <3>1, <3>2
  <2>3. \A i \in DOMAIN Rows(data, FALSE) : Rows(data, FALSE)[i] = transfer
    <3> DEFINE rows == Rows(data, FALSE)
    <3>1. \A i \in DOMAIN <<transfer>> : <<transfer>>[i] = transfer
      <4> HIDE DEF transfer
      <4> QED  OBVIOUS
    <3> HIDE DEF transfer, rows
    <3>2. rows = <<transfer>>
      BY <2>2 DEF rows
    <3> QED  BY <3>1, <3>2, Zenon DEF rows
  <2> QED  BY <1>4, <2>3, NotificationInPlace
<1>5. ASSUME NEW data \in {<<>>, <<ListOf(transfer), ListOf(transfer)>>},
             payload = Payload(Notification, NotificationOf(ListOf(data)), TRUE)
      PROVE  InPlace(payload, exact, decimal)
  <2>1. \A i \in DOMAIN Rows(data, TRUE) : Rows(data, TRUE)[i] = transfer
    <3> HIDE DEF transfer
    <3>1. Rows(data, TRUE) = [i \in DOMAIN data |-> data[i].items]
      BY DEF Rows
    <3>2. \A i \in DOMAIN data : data[i] = ListOf(transfer)
      OBVIOUS
    <3>3. ListOf(transfer).items = transfer
      BY DEF ListOf
    <3> QED  BY <3>1, <3>2, <3>3
  <2> QED  BY <1>5, <2>1, NotificationInPlace
<1>6. Len(short) = 7
  <2>1. Len(transfer) = 8 /\ \A i \in 1 .. 7 : transfer[i] \in {transfer[j] : j \in 1 .. 8}
    BY PlainRegular, FullArray
  <2>2. 1 \in 1 .. Len(transfer) + 1 /\ 7 \in 0 .. Len(transfer)
    BY <2>1
  <2>3. transfer \in Seq(ValuesOf(Transfer.labels))
    BY PlainRegular, FullArray DEF ValuesOf
  <2> HIDE DEF transfer
  <2> QED  BY <2>1, <2>3, SubSeqProperties
<1>7. ASSUME NEW data \in {<<>>, short},
             payload = Payload(Notification, NotificationOf(ListOf(data)), FALSE)
      PROVE  InPlace(payload, exact, decimal)
  <2>1. Len(data) \in {0, 7}
    <3> HIDE DEF short
    <3> QED  BY <1>6
  <2>2. Rows(data, FALSE) = <<data>>
    <3> HIDE DEF short
    <3> QED  BY <2>1 DEF Rows
  <2>3. 1 \in DOMAIN Rows(data, FALSE) /\ Rows(data, FALSE)[1] = data
    <3> DEFINE rows == Rows(data, FALSE)
    <3>1. 1 \in DOMAIN <<data>> /\ <<data>>[1] = data
      OBVIOUS
    <3> HIDE DEF short, rows
    <3>2. rows = <<data>>
      BY <2>2 DEF rows
    <3> QED  BY <3>1, <3>2, Zenon DEF rows
  <2>4. Len(Rows(data, FALSE)[1]) \in 0 .. 7
    <3>1. Len(data) \in 0 .. 7
      <4> HIDE DEF short
      <4> QED  BY <2>1
    <3> HIDE DEF short
    <3> QED  BY <2>3, <3>1, Zenon
  <2> HIDE DEF short
  <2> QED  BY <1>7, <2>3, <2>4, CutNotificationInPlace
<1>8. ASSUME payload = Payload(Notification, NotificationOf(ListOf(<<ListOf(transfer), ListOf(short)>>)), TRUE)
      PROVE  InPlace(payload, exact, decimal)
  <2> DEFINE data == <<ListOf(transfer), ListOf(short)>>
  <2>1. /\ 2 \in DOMAIN data /\ data[2] = ListOf(short)
    <3> HIDE DEF short, transfer
    <3> QED  OBVIOUS
  <2>2. 2 \in DOMAIN Rows(data, TRUE) /\ Rows(data, TRUE)[2] = short
    <3> HIDE DEF data, short
    <3> QED  BY <2>1 DEF Rows, ListOf
  <2>3. Len(Rows(data, TRUE)[2]) \in 0 .. 7
    <3>1. Len(short) \in 0 .. 7
      <4> HIDE DEF short
      <4> QED  BY <1>6
    <3> HIDE DEF short, data
    <3> QED  BY <2>2, <3>1, Zenon
  <2> HIDE DEF short, transfer
  <2>4. payload = Payload(Notification, NotificationOf(ListOf(data)), TRUE)
    BY <1>8
  <2> HIDE DEF data
  <2> QED  BY <2>2, <2>3, <2>4, CutNotificationInPlace
<1> QED  BY <1>1, <1>2, <1>3, <1>4, <1>5, <1>7, <1>8, TailedInPlace, NoDataInPlace

\* What a field is made of what was sent for it.
LEMMA SerializedAs ==
    ASSUME NEW l, NEW exact, NEW decimal
    PROVE  LET v == Value(Kind(l, exact), l)
           IN /\ Serialized(v, l, decimal).of = l
              /\ Serialized(v, l, decimal).kind =
                    IF decimal /\ l \in MONETARY_FIELDS /\ v.kind \in {"int", "float"}
                    THEN "Decimal" ELSE Kind(l, exact)
  BY DEF Serialized, Value

\* What the innermost call of a context makes of a payload.
LEMMA ParsedAs ==
    ASSUME TypeOK, NEW x \in Contexts, ~Idle(x), NEW result \in Parse(x)
    PROVE  LET exact == lossless(Innermost(x).owner)
               decimal == decimal_mode_enabled(x)
           IN /\ exact \in BOOLEAN /\ decimal \in BOOLEAN
              /\ result.objects = Objects(result.payload, decimal)
              /\ InPlace(result.payload, exact, decimal)
<1> DEFINE exact == lossless(Innermost(x).owner)
           decimal == decimal_mode_enabled(x)
<1>1. exact \in BOOLEAN /\ decimal \in BOOLEAN
  <2>1. exact \in BOOLEAN
    BY Zenon DEF lossless
  <2>2. decimal \in BOOLEAN
    BY DEF TypeOK, Modes, decimal_mode_enabled
  <2> QED  BY <2>1, <2>2
<1>2. PICK payload \in Payloads[exact] : result = parsed[payload][decimal]
  BY DEF Parse
<1>3. payload \in Payloads[FALSE] \cup Payloads[TRUE]
  <2> HIDE DEF exact
  <2> QED  BY <1>1
<1>4. parsed[payload][decimal] = [objects |-> Objects(payload, decimal), payload |-> payload]
  <2> HIDE DEF exact, decimal
  <2> QED  BY <1>1, <1>3 DEF parsed
<1>5. result.objects = Objects(payload, decimal) /\ result.payload = payload
  BY <1>2, <1>4
<1>6. InPlace(payload, exact, decimal)
  <2> HIDE DEF exact, decimal
  <2> QED  BY <1>1, PayloadsInPlace
<1> QED  BY <1>1, <1>5, <1>6

\* Each value of an object is the one the sender meant for its field, whatever
\* the serializer skips, splices or finds missing, and only an array that lacks
\* more than its tail, or its data, is refused.
THEOREM FieldsStayInPlace == Spec => []FieldsInPlace
<1>1. TypeOK => FieldsInPlace
  <2> SUFFICES ASSUME TypeOK, NEW x \in Contexts, ~Idle(x), NEW result \in Parse(x)
               PROVE  LET layout == result.payload.layout
                          tail == SubSeq(layout.labels, required(layout) + 1, Len(layout.labels))
                      IN /\ \A object \in result.objects : \A l \in DOMAIN object :
                               \/ l = "data"
                               \/ object[l].of = l
                               \/ object[l] = Absent /\ l \in ToSet(tail)
                         /\ result.objects = {} => CutShort(result.payload)
    BY DEF FieldsInPlace
  <2> DEFINE layout == result.payload.layout
             exact == lossless(Innermost(x).owner)
             decimal == decimal_mode_enabled(x)
  <2>1. /\ result.objects = Objects(result.payload, decimal)
        /\ InPlace(result.payload, exact, decimal)
    BY ParsedAs
  <2>2. ASSUME NEW object \in result.objects, NEW l \in DOMAIN object
        PROVE  \/ l = "data"
               \/ object[l].of = l
               \/ object[l] = Absent /\ l \in TailOf(layout)
    <3> HIDE DEF exact, decimal
    <3>1. AsSent(object, exact, decimal, TailOf(layout))
      BY <2>1 DEF InPlace
    <3> QED  BY <3>1, SerializedAs DEF AsSent
  <2> QED  BY <2>1, <2>2 DEF TailOf, InPlace
<1> QED  BY <1>1, TypeCorrect, PTL

\* Every monetary number of an object a client's call makes has the type the
\* client was asked for, whatever other clients, tasks and defaults there are.
THEOREM MoneyIsAsAsked == Spec => []MoneyAsAsked
<1>1. TypeOK /\ OwnMode => MoneyAsAsked
  <2> SUFFICES ASSUME TypeOK, OwnMode, NEW x \in Contexts, ~Idle(x), Innermost(x).owner # Bare,
                      NEW result \in Parse(x), NEW object \in result.objects,
                      NEW l \in DOMAIN object \cap MONETARY_FIELDS,
                      object[l].kind \in {"int", "float", "Decimal"}
               PROVE  object[l].kind = Wanted(Innermost(x).owner, l)
    BY DEF MoneyAsAsked
  <2> DEFINE c == Innermost(x).owner
             exact == lossless(c)
             decimal == decimal_mode_enabled(x)
             v == Value(Kind(l, exact), l)
  <2>1. asked[c] \in Numbers
    <3>1. Len(frames[x]) \in 1 .. Len(frames[x])
      <4>1. Len(frames[x]) \in Nat \ {0}
        BY EmptySeq DEF Idle, TypeOK
      <4> QED  BY <4>1
    <3>2. c \in Owners
      BY <3>1, FrameType DEF Innermost
    <3> QED  BY <3>2 DEF Owners, TypeOK
  <2>2. /\ exact <=> asked[c] = "lossless"
        /\ decimal <=> asked[c] = "decimal_mode"
    BY DEF OwnMode, lossless, scoped_decimal_mode
  <2>3. AsSent(object, exact, decimal, TailOf(result.payload.layout))
    <3>1. /\ result.objects = Objects(result.payload, decimal)
          /\ InPlace(result.payload, exact, decimal)
      BY ParsedAs
    <3> HIDE DEF exact, decimal
    <3> QED  BY <3>1 DEF InPlace
  <2> HIDE DEF exact, decimal
  <2>4. object[l] = Serialized(v, l, decimal)
    <3>1. l # "data"
      BY DEF MONETARY_FIELDS
    <3>2. object[l] # Absent
      BY DEF Absent, Value
    <3> QED  BY <2>3, <3>1, <3>2 DEF AsSent
  <2>5. /\ object[l].kind = IF decimal /\ v.kind \in {"int", "float"}
                            THEN "Decimal" ELSE Kind(l, exact)
        /\ v.kind = Kind(l, exact)
    BY <2>4, SerializedAs DEF Value
  <2>6. Kind(l, exact) = IF l \in Whole THEN "int"
                         ELSE IF l \in Names THEN "text"
                         ELSE IF exact THEN "Decimal" ELSE "float"
    BY DEF Kind, decoded_float
  <2>7. CASE asked[c] = "float"
    BY <2>2, <2>5, <2>6, <2>7 DEF Wanted
  <2>8. CASE asked[c] = "decimal_mode"
    BY <2>2, <2>5, <2>6, <2>8 DEF Wanted
  <2>9. CASE asked[c] = "lossless"
    BY <2>2, <2>5, <2>6, <2>9 DEF Wanted
  <2> QED  BY <2>1, <2>7, <2>8, <2>9 DEF Numbers
<1> QED  BY <1>1, TypeCorrect, ClientsKeepTheirMode, PTL
=============================================================================
