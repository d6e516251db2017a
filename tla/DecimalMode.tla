------------------------------ MODULE DecimalMode ------------------------------
(***************************************************************************)
(* Under whose decimal mode a number is parsed.  Several clients live in   *)
(* one process; each asks for its money as floats or as Decimals.  Parsing *)
(* code finds the mode in a context variable that an endpoint method or a  *)
(* websocket handler sets around its work, else in a process-wide default. *)
(* A thread and an asyncio task have a context each; a task starts with a  *)
(* copy of its creator's.                                                  *)
(***************************************************************************)
EXTENDS Labels

CONSTANTS
    Clients,    \* the Client objects
    Bare,       \* an endpoint group built outside any Client
    Contexts,   \* the threads and tasks
    None,       \* the context variable's default
    MaxDepth    \* bound: calls nested in one context

ASSUME BareAssumption == Bare \notin Clients
ASSUME NoneAssumption == None \notin BOOLEAN
ASSUME RolesAssumption == Clients \cap {"free", "thread", "handler"} = {}

VARIABLES
    asked,         \* what each client was built with (Numbers)
    decimal_mode,  \* _decimal_mode, the process-wide default
    scoped,        \* _scoped_decimal_mode, in each context
    frames,        \* the calls under way in each context, innermost last
    role,          \* what runs in each context: a client is its socket task
    base           \* history: the mode a context started with

vars == <<asked, decimal_mode, scoped, frames, role, base>>

\* What a client is asked to yield; `decimal_mode` with
\* `lossless_financial_decode` is refused by its constructor.
Numbers == {"float", "decimal_mode", "lossless"}
Modes == BOOLEAN \cup {None}
Owners == Clients \cup {Bare}
Roles == Clients \cup {"free", "thread", "handler"}
Frames == [kind : {"rest", "data"}, owner : Owners, token : Modes]

\* The mode Client hands to its REST groups, its handler and its buckets: a
\* lossless client's numbers are Decimals before any serializer sees them.
scoped_decimal_mode(c) == asked[c] = "decimal_mode"

\* None for a bare group: it has no scope of its own.
mode(o) == IF o = Bare THEN None ELSE scoped_decimal_mode(o)

Init ==
    /\ asked \in [Clients -> Numbers]
    /\ decimal_mode = FALSE
    /\ scoped = [x \in Contexts |-> None]
    /\ frames = [x \in Contexts |-> <<>>]
    /\ role \in [Contexts -> Clients \cup {"free", "thread"}]
    /\ base = scoped

Idle(x) == frames[x] = <<>>
Innermost(x) == frames[x][Len(frames[x])]
-----------------------------------------------------------------------------
(* decimal_mode_scope.                                                     *)

\* Mutant: one cell for all contexts, as a module global would be.
Enter_Global(x, kind, o) ==
    /\ frames' = [frames EXCEPT ![x] = Append(@, [kind |-> kind, owner |-> o, token |-> scoped[x]])]
    /\ scoped' = IF mode(o) = None THEN scoped ELSE [y \in Contexts |-> mode(o)]

Enter(x, kind, o) ==
    /\ frames' = [frames EXCEPT ![x] = Append(@, [kind |-> kind, owner |-> o, token |-> scoped[x]])]
    /\ scoped' = IF mode(o) = None THEN scoped ELSE [scoped EXCEPT ![x] = mode(o)]

\* Mutant: an exception skips the reset.
Leave_NoFinally(x) ==
    /\ frames' = [frames EXCEPT ![x] = SubSeq(@, 1, Len(@) - 1)]
    /\ UNCHANGED scoped

\* The reset is in a `finally`: a call that raises leaves the same way.
Leave(x) ==
    /\ frames' = [frames EXCEPT ![x] = SubSeq(@, 1, Len(@) - 1)]
    /\ scoped' = IF mode(Innermost(x).owner) = None THEN scoped
                 ELSE [scoped EXCEPT ![x] = Innermost(x).token]

decimal_mode_enabled(x) == IF scoped[x] = None THEN decimal_mode ELSE scoped[x]
-----------------------------------------------------------------------------
\* An endpoint method (a public method of an Interface) is called: from any
\* code of the program, a synchronous event handler included, or by another
\* method of its own group.
CallEndpoint(x, o) ==
    /\ role[x] # "free"
    /\ Len(frames[x]) < MaxDepth   \* bound
    /\ ~Idle(x) => Innermost(x).kind = "data" \/ Innermost(x).owner = o
    /\ Enter(x, "rest", o)
    /\ UNCHANGED <<asked, decimal_mode, role, base>>

\* A socket task hands a frame of data to its handler.  Nothing in handle()
\* awaits: the task stays in the scope until the handler returns.
Handle(x) ==
    /\ role[x] \in Clients
    /\ Idle(x)
    /\ Enter(x, "data", role[x])
    /\ UNCHANGED <<asked, decimal_mode, role, base>>

\* The transport's decoder is its owner's; the bare group's makes floats.
lossless(o) == o # Bare /\ asked[o] = "lossless"

\* What the innermost call makes of what it gets.  Parsing has no effect: what
\* it would yield is a function of the state it may happen in.
Parse(x) ==
    {parsed[payload][decimal_mode_enabled(x)] : payload \in Payloads[lossless(Innermost(x).owner)]}

Return(x) ==
    /\ ~Idle(x)
    /\ Leave(x)
    /\ UNCHANGED <<asked, decimal_mode, role, base>>

\* asyncio copies the context of the code that creates a task.
Start(x, y, r) ==
    /\ role[y] = "free"
    /\ role' = [role EXCEPT ![y] = r]
    /\ scoped' = [scoped EXCEPT ![y] = scoped[x]]
    /\ base' = [base EXCEPT ![y] = scoped[x]]

\* The event of the frame has a coroutine for a handler: a task is made of it.
StartHandler(x, y) ==
    /\ ~Idle(x)
    /\ Innermost(x).kind = "data"
    /\ Start(x, y, "handler")
    /\ UNCHANGED <<asked, decimal_mode, frames>>

\* A coroutine calls subscribe() of a client, which makes a bucket and the
\* task of its supervisor.
StartBucket(x, y, c) ==
    /\ role[x] \in Clients \cup {"handler"}
    /\ Idle(x)
    /\ Start(x, y, c)
    /\ UNCHANGED <<asked, decimal_mode, frames>>

\* The program calls it wherever it likes.
set_decimal_mode(enabled) ==
    /\ decimal_mode' = enabled
    /\ UNCHANGED <<asked, scoped, frames, role, base>>

Next ==
    \/ \E x \in Contexts :
          \/ \E o \in Owners : CallEndpoint(x, o)
          \/ Handle(x) \/ Return(x)
          \/ \E y \in Contexts : \/ StartHandler(x, y)
                                 \/ \E c \in Clients : StartBucket(x, y, c)
    \/ \E enabled \in BOOLEAN : set_decimal_mode(enabled)

Spec == Init /\ [][Next]_vars
-----------------------------------------------------------------------------
TypeOK ==
    /\ asked \in [Clients -> Numbers]
    /\ decimal_mode \in BOOLEAN
    /\ scoped \in [Contexts -> Modes]
    /\ frames \in [Contexts -> Seq(Frames)]
    /\ role \in [Contexts -> Roles]
    /\ base \in [Contexts -> Modes]

\* "following the owning Client's decimal_mode and never another Client's":
\* whatever threads and tasks of other clients do meanwhile, and wherever the
\* call is made from, each monetary number of a client's objects, at whatever
\* depth of the payload, has the type the client was asked for.  Whole numbers
\* stay integers for a lossless client.
Wanted(c, label) ==
    CASE asked[c] = "float"        -> IF label \in Whole THEN "int" ELSE "float"
      [] asked[c] = "decimal_mode" -> "Decimal"
      [] asked[c] = "lossless"     -> IF label \in Whole THEN "int" ELSE "Decimal"

MoneyAsAsked ==
    \A x \in Contexts : ~Idle(x) /\ Innermost(x).owner # Bare =>
        \A result \in Parse(x) : \A object \in result.objects :
            \A l \in DOMAIN object \cap MONETARY_FIELDS :
                object[l].kind \in {"int", "float", "Decimal"} =>
                    object[l].kind = Wanted(Innermost(x).owner, l)

\* An array that lacks more than its tail; a notification without its data, or
\* one of a row that lacks any of its own.
CutShort(payload) ==
    LET rows == Rows(payload.array[5].items, payload.is_iterable)
    IN \/ ~payload.layout.flat /\ Len(payload.array) < required(payload.layout)
       \/ Absent \in ToSet(payload.array)
       \/ payload.layout = Notification /\ \E i \in DOMAIN rows : Len(rows[i]) < required(Transfer)

\* The value of a field is the one the sender meant for it: no placeholder, no
\* missing tail and no nesting moves a value under a neighbour's name; only a
\* field of the optional tail is ever absent, and only what is cut short is
\* refused.
FieldsInPlace ==
    \A x \in Contexts : ~Idle(x) => \A result \in Parse(x) :
        LET layout == result.payload.layout
            tail == SubSeq(layout.labels, required(layout) + 1, Len(layout.labels))
        IN /\ \A object \in result.objects : \A l \in DOMAIN object :
                 \/ l = "data"
                 \/ object[l].of = l
                 \/ object[l] = Absent /\ l \in ToSet(tail)
           /\ result.objects = {} => CutShort(result.payload)

\* The mode in force at a depth of a context: what the next call saved, or the
\* variable itself.
Level(x, i) == IF i = Len(frames[x]) THEN scoped[x] ELSE frames[x][i + 1].token

\* At depth k the call i rules: the innermost scope of a client, or, for 0, the
\* code that created the context.
Rules(x, i, k) ==
    /\ i > 0 => frames[x][i].owner # Bare
    /\ \A j \in i + 1 .. k : frames[x][j].owner = Bare

ModeOf(x, i) == IF i = 0 THEN base[x] ELSE mode(frames[x][i].owner)

\* No scope outlives its call: a context with no call under way is in the
\* mode it started with.  So the lifecycle events a socket task emits between
\* two frames see none of the frames' scopes.
ScopesRestored == \A x \in Contexts : Idle(x) => scoped[x] = base[x]

\* A bare group parses under the nearest client scope around it, in its own
\* context or where its context was created; without one, under the default.
\* This is more than its docstring tells: a bucket that was started inside a
\* scope keeps that scope's mode in its lifecycle events.
BareFollowsCaller ==
    \A x \in Contexts : \A i \in 0 .. Len(frames[x]) :
        Rules(x, i, Len(frames[x])) =>
            decimal_mode_enabled(x) = IF ModeOf(x, i) = None THEN decimal_mode ELSE ModeOf(x, i)
=============================================================================
