---------------------------- MODULE SessionProofs -----------------------------
(***************************************************************************)
(* What is proved of Session, for any number of runs of start() and calls  *)
(* of close(), any step of the backoff, and any order of theirs and the    *)
(* network's: first with runs that may overlap, then, with Overlap false,  *)
(* what only a client with one run at a time promises.                     *)
(***************************************************************************)
EXTENDS Session, TLAPS

\* A run that is past its first step and not over.
Begun(r) == pc[r] \notin {"uncalled", "scheduled", "ended"}

TypeInv == TypeOK /\ DisconnectedOnce

\* Run r takes a turn: it goes to one of `places`, or it is over and has said so.
Turns(r, places) ==
    /\ pc' = [pc EXCEPT ![r] = pc'[r]] /\ pc'[r] \in places \cup {"ended"}
    /\ outcome' = [outcome EXCEPT ![r] = outcome'[r]] /\ outcome'[r] \in Outcomes
    /\ delay' = [delay EXCEPT ![r] = delay'[r]] /\ delay'[r] \in 0 .. MaxDelay
    /\ disconnected' = [disconnected EXCEPT ![r] = disconnected'[r]] /\ disconnected'[r] \in 0 .. 1
    /\ outcome'[r] # "none" <=> pc'[r] = "ended"
    /\ disconnected'[r] = 1 <=> outcome'[r] = "normal"

\* A run that is not over has no outcome yet.
LEMMA NotOver ==
    ASSUME TypeInv, NEW r \in Runs, pc[r] # "ended"
    PROVE  /\ outcome[r] = "none" /\ disconnected[r] = 0 /\ delay[r] \in 0 .. MaxDelay
           /\ outcome = [outcome EXCEPT ![r] = "none"]
           /\ disconnected = [disconnected EXCEPT ![r] = 0]
  BY DEF TypeInv, TypeOK, DisconnectedOnce

\* The backoff never steps back, nor past its maximum.
LEMMA NextDelay ==
    ASSUME NEW d \in 0 .. MaxDelay
    PROVE  next(d) \in 0 .. MaxDelay /\ next(d) >= d
  BY BoundAssumption DEF next

LEMMA OverTurns ==
    ASSUME TypeInv, NEW r \in Runs, pc[r] # "ended", NEW how \in Outcomes \ {"none"},
           Over(r, how), disconnected' = [disconnected EXCEPT ![r] = IF how = "normal" THEN 1 ELSE 0]
    PROVE  Turns(r, {}) /\ pc'[r] = "ended" /\ delay'[r] = 0 /\ outcome'[r] = how
<1>1. pc'[r] = "ended" /\ outcome'[r] = how /\ delay'[r] = 0
      /\ disconnected'[r] = IF how = "normal" THEN 1 ELSE 0
  BY DEF Over, TypeInv, TypeOK
<1>2. 0 \in 0 .. MaxDelay /\ (IF how = "normal" THEN 1 ELSE 0) \in 0 .. 1
  BY BoundAssumption
<1>3. /\ pc' = [pc EXCEPT ![r] = pc'[r]] /\ outcome' = [outcome EXCEPT ![r] = outcome'[r]]
      /\ delay' = [delay EXCEPT ![r] = delay'[r]]
  BY <1>1 DEF Over
<1>4. disconnected' = [disconnected EXCEPT ![r] = disconnected'[r]]
  BY <1>1
<1>5. disconnected'[r] = 1 <=> outcome'[r] = "normal"
  BY <1>1
<1> QED  BY <1>1, <1>2, <1>3, <1>4, <1>5 DEF Turns

LEMMA FinishTurns ==
    ASSUME TypeInv, NEW r \in Runs, pc[r] # "ended", Finish(r)
    PROVE  Turns(r, {}) /\ pc'[r] = "ended" /\ outcome'[r] = "normal"
<1>1. "normal" \in Outcomes \ {"none"} /\ Over(r, "normal")
  BY DEF Outcomes, Finish
<1>2. disconnected[r] = 0
  BY NotOver
<1>3. disconnected' = [disconnected EXCEPT ![r] = 1]
  BY <1>2 DEF Finish
<1> QED  BY <1>1, <1>3, OverTurns

LEMMA RaiseTurns ==
    ASSUME TypeInv, NEW r \in Runs, pc[r] # "ended", NEW error \in Outcomes \ {"none", "normal"},
           Raise(r, error)
    PROVE  Turns(r, {}) /\ pc'[r] = "ended" /\ outcome'[r] = error
<1>1. disconnected' = [disconnected EXCEPT ![r] = 0]
  BY NotOver DEF Raise
<1> QED  BY <1>1, OverTurns DEF Raise

LEMMA GoesTurns ==
    ASSUME TypeInv, NEW r \in Runs, pc[r] # "ended", NEW place \in Places \ {"ended"},
           NEW d \in 0 .. MaxDelay, Goes(r, place, d)
    PROVE  Turns(r, {place}) /\ pc'[r] = place /\ delay'[r] = d /\ outcome'[r] = "none"
<1>1. pc'[r] = place /\ delay'[r] = d
  BY DEF Goes, TypeInv, TypeOK
<1>2. outcome' = [outcome EXCEPT ![r] = "none"] /\ disconnected' = [disconnected EXCEPT ![r] = 0]
      /\ outcome'[r] = "none" /\ disconnected'[r] = 0
  BY NotOver DEF Goes
<1>3. "none" \in Outcomes
  BY DEF Outcomes
<1>4. pc' = [pc EXCEPT ![r] = pc'[r]] /\ delay' = [delay EXCEPT ![r] = delay'[r]]
  BY <1>1 DEF Goes
<1>5. outcome' = [outcome EXCEPT ![r] = outcome'[r]]
      /\ disconnected' = [disconnected EXCEPT ![r] = disconnected'[r]]
  BY <1>2
<1> QED  BY <1>1, <1>2, <1>3, <1>4, <1>5 DEF Turns

\* Places only ever get more.
LEMMA TurnsMore ==
    ASSUME NEW r, NEW P, NEW Q, P \subseteq Q, Turns(r, P)
    PROVE  Turns(r, Q)
  BY DEF Turns

LEMMA TimeLeftTurns ==
    ASSUME TypeInv, NEW r \in Runs, pc[r] # "ended", NEW place \in Places \ {"ended"},
           NEW d \in 0 .. MaxDelay, TimeLeft(r, place, d)
    PROVE  Turns(r, {place}) /\ (pc'[r] = "ended" \/ delay'[r] = d) /\ outcome'[r] # "normal"
<1>1. CASE \E error \in {"assertion", "timeout"} : Raise(r, error)
  <2>1. PICK error \in {"assertion", "timeout"} : Raise(r, error)
    BY <1>1
  <2>2. Turns(r, {}) /\ pc'[r] = "ended" /\ outcome'[r] = error
    BY <2>1, RaiseTurns DEF Outcomes
  <2> QED  BY <2>2, TurnsMore
<1>2. CASE Goes(r, place, d)
  BY <1>2, GoesTurns
<1> QED  BY <1>1, <1>2 DEF TimeLeft

LEMMA LoopTopTurns ==
    ASSUME TypeInv, NEW r \in Runs, pc[r] # "ended", LoopTop(r)
    PROVE  Turns(r, {"backoff", "connecting"}) /\ outcome'[r] # "normal"
<1>1. 0 \in 0 .. MaxDelay /\ next(0) \in 0 .. MaxDelay
  BY BoundAssumption, NextDelay
<1>2. CASE reconnection = "none"
  <2>1. Turns(r, {"connecting"}) /\ outcome'[r] # "normal"
    BY <1>1, <1>2, GoesTurns DEF LoopTop, Places
  <2> QED  BY <2>1, TurnsMore
<1>3. CASE reconnection # "none"
  <2>1. Turns(r, {"backoff"}) /\ outcome'[r] # "normal"
    BY <1>1, <1>3, TimeLeftTurns DEF LoopTop, Places
  <2> QED  BY <2>1, TurnsMore
<1> QED  BY <1>2, <1>3

LEMMA OutageTurns ==
    ASSUME TypeInv, NEW r \in Runs, pc[r] # "ended", BeginOutage(r)
    PROVE  /\ Turns(r, {"backoff"}) /\ pc'[r] = "backoff" /\ outcome'[r] = "none"
           /\ connectedAt = "stable" \/ delay'[r] >= delay[r]
<1> DEFINE from == IF connectedAt = "stable" THEN 0 ELSE delay[r]
<1>1. from \in 0 .. MaxDelay
  BY NotOver, BoundAssumption
<1>2. next(from) \in 0 .. MaxDelay /\ next(from) >= from
  BY <1>1, NextDelay
<1>3. /\ Turns(r, {"backoff"}) /\ pc'[r] = "backoff" /\ delay'[r] = next(from)
      /\ outcome'[r] = "none"
  <2>1. Goes(r, "backoff", next(from))
    BY DEF BeginOutage
  <2> HIDE DEF from
  <2> QED  BY <1>2, <2>1, GoesTurns DEF Places
<1> QED  BY <1>2, <1>3
-----------------------------------------------------------------------------
(* Types.                                                                  *)

\* The variables a turn leaves.
RestOK ==
    /\ epochAt' \in [Runs -> 0 .. MaxCloses]
    /\ sock' \in [Runs -> {"none", "open"} \cup Ends]
    /\ opened' \in [Runs -> 0 .. 2]
    /\ requested' \in [Runs -> BOOLEAN]
    /\ ws' \in Runs \cup {None}
    /\ event' \in Runs \cup {None}
    /\ closing' \in BOOLEAN
    /\ epoch' \in 0 .. MaxCloses
    /\ closer' \in {"idle", "buckets"}
    /\ reconnection' \in {"none", "live", "expired"}
    /\ auth' \in BOOLEAN
    /\ connectedAt' \in {None, "fresh", "stable"}
    /\ credentials' = credentials
    /\ ledger' \subseteq {"open", "authenticated"}
    /\ heard' \subseteq {"open", "authenticated"}

LEMMA TurnType ==
    ASSUME TypeInv, NEW r \in Runs, NEW places \in SUBSET Places, Turns(r, places), RestOK
    PROVE  TypeInv'
<1>1. /\ pc' \in [Runs -> Places] /\ outcome' \in [Runs -> Outcomes]
      /\ delay' \in [Runs -> 0 .. MaxDelay] /\ disconnected' \in [Runs -> 0 .. 1]
  <2>1. pc'[r] \in Places
    BY DEF Turns, Places
  <2> QED  BY <2>1 DEF TypeInv, TypeOK, Turns
<1>3. TypeOK'
  BY <1>1 DEF TypeInv, TypeOK, RestOK
<1>2. DisconnectedOnce'
  BY DEF TypeInv, TypeOK, DisconnectedOnce, Turns
<1> QED  BY <1>2, <1>3 DEF TypeInv

LEMMA TypeInit == Init => TypeInv
<1> SUFFICES ASSUME Init PROVE TypeInv
  OBVIOUS
<1>1. 0 \in 0 .. MaxDelay /\ 0 \in 0 .. MaxCloses /\ 0 \in 0 .. 1 /\ 0 \in 0 .. 2
  BY BoundAssumption
<1>2. TypeOK
  BY <1>1 DEF Init, TypeOK, Places, Outcomes
<1>3. DisconnectedOnce
  BY DEF Init, DisconnectedOnce
<1> QED  BY <1>2, <1>3 DEF TypeInv

-----------------------------------------------------------------------------
(* The invariant.                                                          *)

\* One run of the owner's: a close() that came after it began is known to it,
\* and until then the event its backoff waits on is its own.
LifeOK(r) ==
    /\ pc[r] \in {"uncalled", "scheduled"} => delay[r] = 0 /\ opened[r] = 0
    /\ epochAt[r] <= epoch
    /\ sock[r] = "open" => pc[r] \in {"buckets", "reading"}
    /\ closing /\ Begun(r) => Stale(r)
    /\ Begun(r) => (requested[r] <=> Stale(r)) /\ (~Stale(r) => event = r)

\* Only the runs that a close() has ended can be under way beside another.
OneFresh == \A r, s \in Active : ~Stale(r) /\ ~Stale(s) => r = s

\* What one run at a time can rely on: the client's attributes are its own.
RunOK(r) ==
    /\ Begun(r) /\ Stale(r) => closing
    /\ pc[r] \in {"buckets", "reading", "hungUp"} => ws = r /\ opened[r] > 0
    /\ pc[r] \in {"buckets", "reading"} => reconnection = "none"
    /\ pc[r] = "reading" => "open" \in heard
    /\ pc[r] \in {"backoff", "connecting"} /\ opened[r] > 0 => ~auth
    /\ pc[r] \in {"buckets", "reading"} /\ opened[r] = 2 /\ auth => "authenticated" \in heard
    /\ sock[r] = "goingAway" /\ outcome[r] = "normal" => Stale(r)

OneRun == \A r, s \in Active : r = s

Alone == OneRun /\ \A r \in Runs : RunOK(r)

Inv ==
    /\ TypeInv
    /\ \A r \in Runs : LifeOK(r)
    /\ OneFresh
    /\ ledger = heard
    /\ ~Overlap => Alone

Elsewhere == {"backoff", "connecting", "buckets", "reading", "hungUp"}

\* A step of run r, and what it may do to the invariant.
Moves(r) ==
    /\ r \in Active /\ (Begun(r) \/ pc'[r] = "ended")
    /\ Turns(r, Elsewhere)
    /\ RestOK
    /\ UNCHANGED <<epochAt, epoch, closing, event, requested>>
    /\ \A s \in Runs \ {r} : sock'[s] = sock[s] /\ opened'[s] = opened[s]
    /\ sock'[r] = "open" => pc'[r] \in {"buckets", "reading"}
    /\ ledger' = heard'
    /\ pc'[r] = "ended" \/ connectedAt = "stable" \/ delay'[r] >= delay[r]
    /\ pc'[r] = "reading" => pc[r] = "reading" \/ ~closing
    /\ ~Overlap => RunOK(r)'

LEMMA MovesKeep ==
    ASSUME Inv, NEW r \in Runs, Moves(r)
    PROVE  Inv'
<1>1. TypeInv'
  BY TurnType DEF Inv, Moves, Elsewhere, Places
<1>2. /\ \A s \in Runs \ {r} : /\ pc'[s] = pc[s] /\ delay'[s] = delay[s]
                               /\ outcome'[s] = outcome[s]
                               /\ sock'[s] = sock[s] /\ opened'[s] = opened[s]
      /\ UNCHANGED <<epochAt, epoch, closing, event, requested>>
      /\ pc'[r] \in Elsewhere \cup {"ended"}
      /\ r \in Active /\ (Begun(r) \/ pc'[r] = "ended")
  BY DEF Moves, Turns, Inv, TypeInv, TypeOK
<1>3. Active' \subseteq Active
  BY <1>2 DEF Active, Begun
<1>4. ASSUME NEW s \in Runs
      PROVE  LifeOK(s)'
  <2>1. LifeOK(s) /\ LifeOK(r)
    BY DEF Inv
  <2>2. CASE s = r
    BY <1>2, <2>1, <2>2 DEF Moves, LifeOK, Begun, Stale, Elsewhere
  <2>3. CASE s # r
    BY <1>2, <2>1, <2>3 DEF LifeOK, Begun, Stale
  <2> QED  BY <2>2, <2>3
<1>5. OneFresh'
  BY <1>2, <1>3 DEF Inv, OneFresh, Stale
<1>6. ASSUME ~Overlap
      PROVE  Alone'
  <2>1. Alone
    BY <1>6 DEF Inv
  <2>2. OneRun'
    BY <1>3, <2>1 DEF Alone, OneRun
  <2>3. ASSUME NEW s \in Runs \ {r}
        PROVE  RunOK(s)'
    <3>1. pc[s] \in {"uncalled", "ended"}
      BY <1>2, <2>1 DEF Alone, OneRun, Active, Begun
    <3>2. RunOK(s)
      BY <2>1 DEF Alone
    <3> QED  BY <1>2, <3>1, <3>2 DEF RunOK, Begun, Stale
  <2> QED  BY <1>6, <2>2, <2>3 DEF Alone, Moves
<1> QED  BY <1>1, <1>4, <1>5, <1>6 DEF Inv, Moves
-----------------------------------------------------------------------------
(* Its steps, one by one.                                                  *)

\* A run that ends: its socket has ended too, and of "normal" there is only one
\* kind after a "going away", that of a client that was closed.
LEMMA OverMoves ==
    ASSUME Inv, NEW r \in Active, Turns(r, {}), RestOK,
           UNCHANGED <<epochAt, opened, requested, epoch, closing, event>>,
           sock' = [sock EXCEPT ![r] = sock'[r]], sock'[r] # "open", ledger' = heard',
           ~Overlap => (outcome'[r] = "normal" /\ sock'[r] = "goingAway" => Stale(r))
    PROVE  Moves(r)
<1>1. pc'[r] = "ended" /\ Turns(r, Elsewhere)
  BY TurnsMore DEF Turns
<1>2. \A s \in Runs \ {r} : sock'[s] = sock[s]
  BY DEF Inv, TypeInv, TypeOK
<1>3. ~Overlap => RunOK(r)'
  BY <1>1 DEF RunOK, Begun, Stale
<1> QED  BY <1>1, <1>2, <1>3 DEF Moves, Active, Begun

\* A run that waits, for its time or for the handshake: nothing else changes.
LEMMA WaitMoves ==
    ASSUME Inv, NEW r \in Runs, pc[r] \in {"backoff", "connecting"},
           Turns(r, {"backoff", "connecting"}),
           UNCHANGED <<epochAt, sock, opened, requested, clientVars, eventVars>>,
           pc'[r] = "ended" \/ delay'[r] >= delay[r],
           outcome'[r] = "normal" => closing
    PROVE  Moves(r)
<1>1. TypeInv /\ LifeOK(r) /\ Begun(r)
  BY DEF Inv, Begun
<1>2. RestOK
  BY <1>1 DEF TypeInv, TypeOK, RestOK, clientVars, eventVars
<1>3. pc'[r] \in {"backoff", "connecting", "ended"} /\ sock[r] # "open" /\ Turns(r, Elsewhere)
  BY <1>1, TurnsMore DEF Turns, LifeOK, Elsewhere
<1>4. outcome'[r] = "normal" => Stale(r)
  BY <1>1 DEF LifeOK
<1>5. ASSUME ~Overlap
      PROVE  RunOK(r)'
  <2>1. RunOK(r)
    BY <1>5 DEF Inv, Alone
  <2> QED  BY <1>1, <1>3, <1>4, <2>1 DEF RunOK, Begun, Stale, clientVars, eventVars
<1>6. ledger' = heard'
  BY DEF Inv, eventVars
<1> QED  BY <1>1, <1>2, <1>3, <1>5, <1>6 DEF Moves, Active, Begun, clientVars

LEMMA WakeMoves ==
    ASSUME Inv, NEW r \in Runs, Wake(r)
    PROVE  Moves(r)
<1>1. /\ TypeInv /\ pc[r] = "backoff" /\ delay[r] \in 0 .. MaxDelay
      /\ UNCHANGED <<epochAt, sock, opened, requested, clientVars, eventVars>>
  BY NotOver DEF Inv, Wake
<1>2. CASE closing
  <2>1. Turns(r, {}) /\ pc'[r] = "ended"
    BY <1>1, <1>2, FinishTurns DEF Wake
  <2>2. Turns(r, {"backoff", "connecting"})
    BY <2>1, TurnsMore
  <2> QED  BY <1>1, <1>2, <2>1, <2>2, WaitMoves
<1>3. CASE ~closing
  <2>1. TimeLeft(r, "connecting", delay[r])
    BY <1>3 DEF Wake
  <2>2. /\ Turns(r, {"connecting"}) /\ outcome'[r] # "normal"
        /\ pc'[r] = "ended" \/ delay'[r] = delay[r]
    BY <1>1, <2>1, TimeLeftTurns DEF Places
  <2>3. Turns(r, {"backoff", "connecting"})
    BY <2>2, TurnsMore
  <2> QED  BY <1>1, <2>2, <2>3, WaitMoves
<1> QED  BY <1>2, <1>3

LEMMA ConnectFailsMoves ==
    ASSUME Inv, NEW r \in Runs, NEW retryable, ConnectFails(r, retryable)
    PROVE  Moves(r)
<1>1. /\ TypeInv /\ pc[r] = "connecting" /\ delay[r] \in 0 .. MaxDelay
      /\ next(delay[r]) \in 0 .. MaxDelay /\ next(delay[r]) >= delay[r]
      /\ UNCHANGED <<epochAt, sock, opened, requested, clientVars, eventVars>>
  BY NotOver, NextDelay DEF Inv, ConnectFails
<1>2. CASE closing /\ Finish(r)
  <2>1. Turns(r, {}) /\ pc'[r] = "ended"
    BY <1>1, <1>2, FinishTurns
  <2>2. Turns(r, {"backoff", "connecting"})
    BY <2>1, TurnsMore
  <2> QED  BY <1>1, <1>2, <2>1, <2>2, WaitMoves
<1>3. CASE TimeLeft(r, "backoff", next(delay[r]))
  <2>1. /\ Turns(r, {"backoff"}) /\ outcome'[r] # "normal"
        /\ pc'[r] = "ended" \/ delay'[r] = next(delay[r])
    BY <1>1, <1>3, TimeLeftTurns DEF Places
  <2>2. Turns(r, {"backoff", "connecting"})
    BY <2>1, TurnsMore
  <2> QED  BY <1>1, <2>1, <2>2, WaitMoves
<1>4. CASE Raise(r, "refused")
  <2>1. Turns(r, {}) /\ pc'[r] = "ended" /\ outcome'[r] # "normal"
    BY <1>1, <1>4, RaiseTurns DEF Outcomes
  <2>2. Turns(r, {"backoff", "connecting"})
    BY <2>1, TurnsMore
  <2> QED  BY <1>1, <2>1, <2>2, WaitMoves
<1> QED  BY <1>2, <1>3, <1>4 DEF ConnectFails

LEMMA ConnectMoves ==
    ASSUME Inv, NEW r \in Runs, Connect(r)
    PROVE  Moves(r)
<1>1. /\ TypeInv /\ pc[r] = "connecting" /\ Begun(r) /\ delay[r] \in 0 .. MaxDelay
      /\ Enter(r) /\ ledger' = {} /\ heard' = {} /\ reconnection' = "none"
      /\ UNCHANGED <<epochAt, requested, event, closing, epoch, closer, auth, credentials>>
  BY NotOver DEF Inv, Connect, Begun
<1>2. /\ ws' = r /\ connectedAt' = "fresh"
      /\ sock' = [sock EXCEPT ![r] = sock'[r]] /\ sock'[r] \in {"open", "normal", "lost"}
      /\ opened' = [opened EXCEPT ![r] = opened'[r]] /\ opened'[r] \in 0 .. 2
      /\ opened'[r] > 0 /\ (opened'[r] = 2 => opened[r] > 0)
  BY <1>1 DEF Enter, TypeInv, TypeOK
<1>3. RestOK
  BY <1>1, <1>2 DEF RestOK, TypeInv, TypeOK, Ends
<1>4. \E place \in {"hungUp", "buckets"} :
         /\ Goes(r, place, delay[r])
         /\ place = "hungUp" <=> closing
         /\ sock'[r] = "open" => place = "buckets"
  BY <1>1 DEF Enter, TypeInv, TypeOK
<1>5. PICK place \in {"hungUp", "buckets"} :
         /\ Goes(r, place, delay[r])
         /\ place = "hungUp" <=> closing
         /\ sock'[r] = "open" => place = "buckets"
  BY <1>4
<1>6. Turns(r, {place}) /\ pc'[r] = place /\ delay'[r] = delay[r] /\ outcome'[r] = "none"
  BY <1>1, <1>5, GoesTurns DEF Places
<1>7. Turns(r, Elsewhere)
  BY <1>6, TurnsMore DEF Elsewhere
<1>8. ASSUME ~Overlap
      PROVE  RunOK(r)'
  <2>1. RunOK(r)
    BY <1>8 DEF Inv, Alone
  <2> QED  BY <1>1, <1>2, <1>5, <1>6, <2>1 DEF RunOK, Begun, Stale
<1>9. \A s \in Runs \ {r} : sock'[s] = sock[s] /\ opened'[s] = opened[s]
  BY <1>1, <1>2 DEF TypeInv, TypeOK
<1> QED  BY <1>1, <1>3, <1>5, <1>6, <1>7, <1>8, <1>9 DEF Moves, Active, Begun

\* An outage begins: the connection is over, and the client is not
\* authenticated any more.
LEMMA OutageMoves ==
    ASSUME Inv, NEW r \in Runs, pc[r] \in {"reading", "hungUp"}, BeginOutage(r),
           sock' = [sock EXCEPT ![r] = sock'[r]], sock'[r] # "open",
           sock'[r] \in {"none", "open"} \cup Ends,
           UNCHANGED <<epochAt, opened, requested, ws, event, closing, epoch, closer, credentials, eventVars>>
    PROVE  Moves(r)
<1>1. TypeInv /\ Begun(r)
  BY DEF Inv, Begun
<1>2. /\ Turns(r, {"backoff"}) /\ pc'[r] = "backoff" /\ outcome'[r] = "none"
      /\ connectedAt = "stable" \/ delay'[r] >= delay[r]
      /\ reconnection' = "live" /\ auth' = FALSE /\ connectedAt' = None
  BY <1>1, OutageTurns DEF BeginOutage
<1>3. Turns(r, Elsewhere)
  BY <1>2, TurnsMore DEF Elsewhere
<1>4. RestOK
  BY <1>1, <1>2 DEF TypeInv, TypeOK, RestOK, eventVars
<1>5. ASSUME ~Overlap
      PROVE  RunOK(r)'
  <2>1. RunOK(r)
    BY <1>5 DEF Inv, Alone
  <2> QED  BY <1>1, <1>2, <2>1 DEF RunOK, Begun, Stale
<1>6. \A s \in Runs \ {r} : sock'[s] = sock[s] /\ opened'[s] = opened[s]
  BY <1>1 DEF TypeInv, TypeOK
<1>7. ledger' = heard'
  BY DEF Inv, eventVars
<1> QED  BY <1>1, <1>2, <1>3, <1>4, <1>5, <1>6, <1>7 DEF Moves, Active, Begun

\* A session that ends with a socket that has ended: with "disconnected".
LEMMA EndedMoves ==
    ASSUME Inv, NEW r \in Runs, Begun(r), Ended(r),
           sock' = [sock EXCEPT ![r] = sock'[r]], sock'[r] # "open",
           sock'[r] \in {"none", "open"} \cup Ends,
           UNCHANGED <<epochAt, opened, requested, ws, event, closing, epoch, closer, credentials, eventVars>>,
           ~Overlap => closing \/ sock'[r] # "goingAway"
    PROVE  Moves(r)
<1>1. TypeInv /\ LifeOK(r) /\ pc[r] # "ended"
  BY DEF Inv, Begun
<1>2. Turns(r, {})
  BY <1>1, FinishTurns DEF Ended
<1>3. RestOK
  BY <1>1 DEF TypeInv, TypeOK, RestOK, eventVars, Ended
<1>4. ledger' = heard'
  BY DEF Inv, eventVars
<1>5. ~Overlap => (sock'[r] = "goingAway" => Stale(r))
  BY <1>1 DEF LifeOK
<1> QED  BY <1>2, <1>3, <1>4, <1>5, OverMoves DEF Active, Begun

\* A session that ends with an error.
LEMMA RaisedMoves ==
    ASSUME Inv, NEW r \in Runs, Begun(r), NEW error \in Outcomes \ {"none", "normal"},
           Raise(r, error),
           sock' = [sock EXCEPT ![r] = sock'[r]], sock'[r] # "open",
           sock'[r] \in {"none", "open"} \cup Ends,
           UNCHANGED <<epochAt, opened, requested, clientVars>>,
           ledger' = heard', heard' \subseteq {"open", "authenticated"}
    PROVE  Moves(r)
<1>1. TypeInv /\ pc[r] # "ended"
  BY DEF Inv, Begun
<1>2. Turns(r, {}) /\ outcome'[r] # "normal"
  BY <1>1, RaiseTurns
<1>3. RestOK
  BY <1>1 DEF TypeInv, TypeOK, RestOK, clientVars
<1> QED  BY <1>2, <1>3, OverMoves DEF clientVars, Active, Begun

LEMMA Hung ==
    ASSUME TypeInv, NEW r \in Runs, Hangs(r)
    PROVE  /\ sock' = [sock EXCEPT ![r] = sock'[r]] /\ sock'[r] # "open"
           /\ sock'[r] \in {"none", "open"} \cup Ends
           /\ sock'[r] = "goingAway" => sock[r] = "goingAway"
  BY DEF Hangs, TypeInv, TypeOK, Ends

LEMMA CancelMoves ==
    ASSUME Inv, NEW r \in Runs, Cancel(r)
    PROVE  Moves(r)
<1>1. TypeInv /\ Begun(r) /\ pc[r] # "ended"
  BY DEF Inv, Cancel, Begun
<1>2. Over(r, "cancelled") /\ Hangs(r)
      /\ UNCHANGED <<epochAt, disconnected, opened, requested, clientVars, eventVars>>
  BY DEF Cancel
<1>3. Turns(r, {}) /\ outcome'[r] # "normal"
  <2>1. disconnected' = [disconnected EXCEPT ![r] = 0]
    BY <1>1, <1>2, NotOver
  <2>2. \A how \in {"cancelled"} : how \in Outcomes \ {"none"} /\ how # "normal"
    BY DEF Outcomes
  <2> QED  BY <1>1, <1>2, <2>1, <2>2, OverTurns
<1>4. /\ sock' = [sock EXCEPT ![r] = sock'[r]] /\ sock'[r] # "open"
      /\ sock'[r] \in {"none", "open"} \cup Ends
  BY <1>1, <1>2, Hung
<1>5. RestOK
  BY <1>1, <1>2, <1>4 DEF TypeInv, TypeOK, RestOK, clientVars, eventVars
<1>6. ledger' = heard'
  BY <1>2 DEF Inv, eventVars
<1> QED  BY <1>1, <1>2, <1>3, <1>4, <1>5, <1>6, OverMoves DEF clientVars, Active, Begun

\* What the ledger latches, and nothing else, is delivered.
LEMMA EmitHeard ==
    ASSUME Inv, NEW e \in {"open", "authenticated"}, emit(e)
    PROVE  /\ ledger' = heard' /\ heard' = heard \cup {e}
           /\ heard' \subseteq {"open", "authenticated"}
  BY DEF Inv, TypeInv, TypeOK, emit

LEMMA BucketsReadyMoves ==
    ASSUME Inv, NEW r \in Runs, BucketsReady(r)
    PROVE  Moves(r)
<1>1. /\ TypeInv /\ pc[r] = "buckets" /\ Begun(r) /\ delay[r] \in 0 .. MaxDelay
      /\ UNCHANGED <<epochAt, opened, requested, clientVars>>
  BY NotOver DEF Inv, BucketsReady, Begun
<1>2. sock[r] \in {"none", "open"} \cup Ends /\ sock = [sock EXCEPT ![r] = sock[r]]
  BY <1>1 DEF TypeInv, TypeOK
<1>3. CASE closing /\ Goes(r, "hungUp", delay[r])
           /\ (\E end \in {"normal", "lost"} :
                sock' = [sock EXCEPT ![r] = IF @ = "open" THEN end ELSE @])
           /\ UNCHANGED eventVars
  <2>1. /\ sock' = [sock EXCEPT ![r] = sock'[r]] /\ sock'[r] # "open"
        /\ sock'[r] \in {"none", "open"} \cup Ends
    BY <1>2, <1>3, <1>1 DEF Ends, TypeInv, TypeOK
  <2>2. /\ Turns(r, {"hungUp"}) /\ pc'[r] = "hungUp" /\ delay'[r] = delay[r]
        /\ outcome'[r] = "none"
    BY <1>1, <1>3, GoesTurns DEF Places
  <2>3. Turns(r, Elsewhere)
    BY <2>2, TurnsMore DEF Elsewhere
  <2>4. RestOK
    BY <1>1, <1>3, <2>1 DEF TypeInv, TypeOK, RestOK, clientVars, eventVars
  <2>5. ASSUME ~Overlap
        PROVE  RunOK(r)'
    <3>1. RunOK(r)
      BY <2>5 DEF Inv, Alone
    <3> QED  BY <1>1, <1>3, <2>2, <3>1 DEF RunOK, Begun, Stale, clientVars, eventVars
  <2>6. \A s \in Runs \ {r} : sock'[s] = sock[s] /\ opened'[s] = opened[s]
    BY <1>1, <2>1 DEF TypeInv, TypeOK
  <2>7. ledger' = heard'
    BY <1>3 DEF Inv, eventVars
  <2> QED  BY <1>1, <2>1, <2>2, <2>3, <2>4, <2>5, <2>6, <2>7 DEF Moves, Active, Begun, clientVars
<1>4. CASE ~closing /\ Announce(r)
  <2>1. ledger' = heard' /\ heard' = heard \cup {"open"} /\ heard' \subseteq {"open", "authenticated"}
    BY <1>4, EmitHeard DEF Announce
  <2>2. CASE Raise(r, "nonce") /\ Hangs(r)
    <3>1. /\ sock' = [sock EXCEPT ![r] = sock'[r]] /\ sock'[r] # "open"
          /\ sock'[r] \in {"none", "open"} \cup Ends
      BY <1>1, <2>2, Hung
    <3> QED  BY <1>1, <2>1, <2>2, <3>1, RaisedMoves DEF Outcomes
  <2>3. CASE sock[r] \in EndsQuietly /\ Raise(r, "closedOK") /\ UNCHANGED sock
    <3>1. sock[r] # "open"
      BY <2>3 DEF EndsQuietly
    <3> QED  BY <1>1, <1>2, <2>1, <2>3, <3>1, RaisedMoves DEF Outcomes
  <2>4. CASE Goes(r, "reading", delay[r]) /\ UNCHANGED sock
    <3>2. /\ Turns(r, {"reading"}) /\ pc'[r] = "reading" /\ delay'[r] = delay[r]
          /\ outcome'[r] = "none"
      BY <1>1, <2>4, GoesTurns DEF Places
    <3>3. Turns(r, Elsewhere)
      BY <3>2, TurnsMore DEF Elsewhere
    <3>4. RestOK
      BY <1>1, <2>1, <2>4 DEF TypeInv, TypeOK, RestOK, clientVars
    <3>5. ASSUME ~Overlap
          PROVE  RunOK(r)'
      <4>1. RunOK(r)
        BY <3>5 DEF Inv, Alone
      <4> QED  BY <1>1, <2>1, <2>4, <3>2, <4>1 DEF RunOK, Begun, Stale, clientVars
    <3> QED  BY <1>1, <1>4, <2>1, <2>4, <3>2, <3>3, <3>4, <3>5 DEF Moves, Active, Begun, clientVars
  <2> QED  BY <1>4, <2>2, <2>3, <2>4 DEF Announce, authenticate
<1> QED  BY <1>3, <1>4 DEF BucketsReady

LEMMA AuthenticatedMoves ==
    ASSUME Inv, NEW r \in Runs, Authenticated(r)
    PROVE  Moves(r)
<1>1. /\ TypeInv /\ pc[r] = "reading" /\ Begun(r) /\ auth' = TRUE
      /\ UNCHANGED <<runVars, ws, event, closing, epoch, closer, reconnection, connectedAt, credentials>>
  BY DEF Inv, Authenticated, Begun
<1>2. /\ ledger' = heard' /\ heard' = heard \cup {"authenticated"}
      /\ heard' \subseteq {"open", "authenticated"}
  BY EmitHeard DEF Authenticated
<1>3. Turns(r, Elsewhere)
  BY <1>1 DEF Turns, Elsewhere, runVars, TypeInv, TypeOK, DisconnectedOnce
<1>4. RestOK
  BY <1>1, <1>2 DEF TypeInv, TypeOK, RestOK, runVars
<1>5. ASSUME ~Overlap
      PROVE  RunOK(r)'
  <2>1. RunOK(r)
    BY <1>5 DEF Inv, Alone
  <2> QED  BY <1>1, <1>2, <2>1 DEF RunOK, Begun, Stale, runVars
<1>6. delay'[r] >= delay[r]
  BY <1>1 DEF runVars, TypeInv, TypeOK
<1> QED  BY <1>1, <1>2, <1>3, <1>4, <1>5, <1>6 DEF Moves, Active, Begun, runVars

LEMMA AuthenticationFailsMoves ==
    ASSUME Inv, NEW r \in Runs, AuthenticationFails(r)
    PROVE  Moves(r)
<1>1. /\ TypeInv /\ Begun(r) /\ Raise(r, "credentials") /\ Hangs(r)
      /\ UNCHANGED <<epochAt, opened, requested, clientVars, eventVars>>
  BY DEF Inv, AuthenticationFails, Begun
<1>2. /\ sock' = [sock EXCEPT ![r] = sock'[r]] /\ sock'[r] # "open"
      /\ sock'[r] \in {"none", "open"} \cup Ends
  BY <1>1, Hung
<1>3. ledger' = heard' /\ heard' \subseteq {"open", "authenticated"}
  BY <1>1 DEF Inv, TypeInv, TypeOK, eventVars
<1> QED  BY <1>1, <1>2, <1>3, RaisedMoves DEF Outcomes

\* Reading or hung up, a run whose socket is the client's and has ended.
LEMMA Code ==
    ASSUME Inv, ~Overlap, NEW r \in Runs, pc[r] \in {"reading", "hungUp"}, sock[r] # "open"
    PROVE  CloseCode = sock[r]
  BY RunsAssumption DEF Inv, Alone, RunOK, CloseCode

LEMMA RestartAnnouncedMoves ==
    ASSUME Inv, NEW r \in Runs, RestartAnnounced(r)
    PROVE  Moves(r)
<1>1. /\ TypeInv /\ pc[r] = "reading" /\ Begun(r) /\ Hangs(r)
      /\ IF closing THEN Ended(r) ELSE BeginOutage(r)
      /\ UNCHANGED <<epochAt, opened, requested, ws, event, closing, epoch, closer, credentials, eventVars>>
  BY DEF Inv, RestartAnnounced, Begun
<1>2. /\ sock' = [sock EXCEPT ![r] = sock'[r]] /\ sock'[r] # "open"
      /\ sock'[r] \in {"none", "open"} \cup Ends
  BY <1>1, Hung
<1>3. CASE closing
  BY <1>1, <1>2, <1>3, EndedMoves
<1>4. CASE ~closing
  BY <1>1, <1>2, <1>4, OutageMoves
<1> QED  BY <1>3, <1>4

LEMMA ReturnsMoves ==
    ASSUME Inv, NEW r \in Runs, Returns(r)
    PROVE  Moves(r)
<1>1. /\ TypeInv /\ LifeOK(r) /\ pc[r] \in {"reading", "hungUp"} /\ Begun(r)
      /\ pc[r] = "reading" => sock[r] \in EndsQuietly
      /\ UNCHANGED <<epochAt, sock, opened, requested, ws, event, closing, epoch, closer, credentials, eventVars>>
  BY DEF Inv, Returns, Begun
<1>2. /\ sock' = [sock EXCEPT ![r] = sock'[r]] /\ sock'[r] # "open" /\ sock'[r] = sock[r]
      /\ sock'[r] \in {"none", "open"} \cup Ends
  BY <1>1 DEF TypeInv, TypeOK, LifeOK, EndsQuietly
<1>3. CASE ~closing /\ CloseCode = "goingAway"
  <2>1. BeginOutage(r)
    BY <1>3 DEF Returns
  <2> QED  BY <1>1, <1>2, <2>1, OutageMoves
<1>4. CASE closing \/ CloseCode # "goingAway"
  <2>1. Ended(r)
    BY <1>4 DEF Returns
  <2>2. ~Overlap => closing \/ sock'[r] # "goingAway"
    BY <1>1, <1>2, <1>4, Code
  <2> QED  BY <1>1, <1>2, <2>1, <2>2, EndedMoves
<1> QED  BY <1>3, <1>4

LEMMA BreaksMoves ==
    ASSUME Inv, NEW r \in Runs, Breaks(r)
    PROVE  Moves(r)
<1>1. /\ TypeInv /\ pc[r] = "reading" /\ Begun(r) /\ sock[r] \in Ends \ EndsQuietly
      /\ UNCHANGED <<epochAt, sock, opened, requested, ws, event, closing, epoch, closer, credentials, eventVars>>
  BY DEF Inv, Breaks, Begun
<1>2. /\ sock' = [sock EXCEPT ![r] = sock'[r]] /\ sock'[r] # "open" /\ sock'[r] = sock[r]
      /\ sock'[r] \in {"none", "open"} \cup Ends
  BY <1>1 DEF TypeInv, TypeOK, Ends
<1>3. CASE Ended(r) /\ closing
  BY <1>1, <1>2, <1>3, EndedMoves
<1>4. CASE BeginOutage(r)
  BY <1>1, <1>2, <1>4, OutageMoves
<1>5. CASE Raise(r, "abnormal") /\ UNCHANGED <<reconnection, auth, connectedAt>>
  <2>1. ledger' = heard' /\ heard' \subseteq {"open", "authenticated"}
    BY <1>1 DEF Inv, TypeInv, TypeOK, eventVars
  <2>2. UNCHANGED clientVars
    BY <1>1, <1>5 DEF clientVars
  <2> QED  BY <1>1, <1>2, <1>5, <2>1, <2>2, RaisedMoves DEF Outcomes
<1> QED  BY <1>3, <1>4, <1>5 DEF Breaks

LEMMA StepMoves ==
    ASSUME Inv, NEW r \in Runs, Cancel(r) \/ ReadMessage(r) \/ (RunStep(r) /\ ~Begin(r))
    PROVE  Moves(r)
<1>1. CASE ReadMessage(r)
  BY <1>1, AuthenticatedMoves, AuthenticationFailsMoves, RestartAnnouncedMoves DEF ReadMessage
<1>2. CASE RunStep(r) /\ ~Begin(r)
  BY <1>2, WakeMoves, ConnectFailsMoves, ConnectMoves, BucketsReadyMoves, ReturnsMoves,
     BreaksMoves DEF RunStep
<1> QED  BY <1>1, <1>2, CancelMoves

LEMMA BeginTurns ==
    ASSUME Inv, NEW r \in Runs, Begin(r)
    PROVE  \A s \in Runs \ {r} : pc'[s] = pc[s] /\ delay'[s] = delay[s]
<1>1. TypeInv /\ pc[r] # "ended"
  BY DEF Inv, Begin
<1>2. Turns(r, {}) \/ Turns(r, {"backoff", "connecting"})
  BY <1>1, FinishTurns, LoopTopTurns DEF Begin
<1> QED  BY <1>1, <1>2 DEF Turns, TypeInv, TypeOK

LEMMA BeginPlace ==
    ASSUME Inv, NEW r \in Runs, Begin(r)
    PROVE  /\ pc'[r] \in {"ended", "backoff", "connecting"}
           /\ Stale(r) => pc'[r] = "ended"
<1>1. TypeInv /\ pc[r] # "ended"
  BY DEF Inv, Begin
<1>2. Turns(r, {}) \/ Turns(r, {"backoff", "connecting"})
  BY <1>1, FinishTurns, LoopTopTurns DEF Begin
<1>3. Stale(r) => pc'[r] = "ended"
  BY <1>1, FinishTurns DEF Begin
<1> QED  BY <1>2, <1>3 DEF Turns

\* start() runs: a close() since the call ends it; else the session is its own.
LEMMA BeginKeeps ==
    ASSUME Inv, NEW r \in Runs, Begin(r)
    PROVE  Inv' /\ pc'[r] # "reading" /\ (pc'[r] = "ended" \/ delay'[r] >= delay[r])
<1>1. /\ TypeInv /\ pc[r] = "scheduled" /\ LifeOK(r) /\ r \in Active
      /\ UNCHANGED <<epochAt, sock, opened, ws, epoch, closer, reconnection, auth,
                     connectedAt, credentials, eventVars>>
  BY DEF Inv, Begin, Active
<1>2. sock[r] # "open" /\ delay[r] = 0 /\ opened[r] = 0
  BY <1>1 DEF LifeOK
<1>3. CASE Stale(r)
  <2>1. Finish(r) /\ UNCHANGED <<closing, event, requested>>
    BY <1>3 DEF Begin
  <2>2. Turns(r, {}) /\ pc'[r] = "ended"
    BY <1>1, <2>1, FinishTurns
  <2>3. RestOK /\ ledger' = heard'
    BY <1>1, <2>1 DEF Inv, TypeInv, TypeOK, RestOK, eventVars
  <2>4. sock' = [sock EXCEPT ![r] = sock'[r]] /\ sock'[r] # "open"
    BY <1>1, <1>2 DEF TypeInv, TypeOK
  <2>5. Moves(r)
    BY <1>1, <1>3, <2>1, <2>2, <2>3, <2>4, OverMoves
  <2> QED  BY <2>2, <2>5, MovesKeep
<1>4. CASE ~Stale(r)
  <2>1. /\ closing' = FALSE /\ event' = r
        /\ requested' = [requested EXCEPT ![r] = FALSE] /\ LoopTop(r)
    BY <1>4 DEF Begin
  <2>2. Turns(r, {"backoff", "connecting"}) /\ outcome'[r] # "normal"
    BY <1>1, <2>1, LoopTopTurns
  <2>3. RestOK
    BY <1>1, <2>1 DEF TypeInv, TypeOK, RestOK, eventVars
  <2>4. TypeInv'
    BY <1>1, <2>2, <2>3, TurnType DEF Places
  <2>5. /\ \A s \in Runs \ {r} : /\ pc'[s] = pc[s] /\ delay'[s] = delay[s]
                                 /\ outcome'[s] = outcome[s] /\ requested'[s] = requested[s]
        /\ pc'[r] \in {"backoff", "connecting", "ended"}
        /\ delay'[r] \in 0 .. MaxDelay /\ requested'[r] = FALSE
    BY <1>1, <2>1, <2>2 DEF Turns, TypeInv, TypeOK
  <2>6. Active' \subseteq Active
    BY <1>1, <2>5 DEF Active
  <2>7. ASSUME NEW s \in Runs
        PROVE  LifeOK(s)'
    <3>1. CASE s = r
      BY <1>1, <1>2, <1>4, <2>1, <2>5, <3>1 DEF LifeOK, Begun, Stale
    <3>2. CASE s # r
      <4>1. Begun(s) => Stale(s)
        BY <1>1, <1>4, <3>2 DEF Inv, OneFresh, Active, Begun
      <4>2. LifeOK(s)
        BY DEF Inv
      <4> QED  BY <1>1, <2>1, <2>5, <3>2, <4>1, <4>2 DEF LifeOK, Begun, Stale
    <3> QED  BY <3>1, <3>2
  <2>8. OneFresh' /\ ledger' = heard'
    BY <1>1, <2>6 DEF Inv, OneFresh, Stale, eventVars
  <2>9. ASSUME ~Overlap
        PROVE  Alone'
    <3>1. Alone
      BY <2>9 DEF Inv
    <3>2. OneRun'
      BY <2>6, <3>1 DEF Alone, OneRun
    <3>3. RunOK(r)'
      BY <1>1, <1>2, <1>4, <2>2, <2>5 DEF RunOK, Begun, Stale
    <3>4. ASSUME NEW s \in Runs \ {r}
          PROVE  RunOK(s)'
      <4>1. pc[s] \in {"uncalled", "ended"} /\ RunOK(s)
        BY <1>1, <3>1 DEF Alone, OneRun, Active
      <4> QED  BY <1>1, <2>5, <4>1 DEF RunOK, Begun, Stale
    <3> QED  BY <3>2, <3>3, <3>4 DEF Alone
  <2>10. delay'[r] >= delay[r]
    BY <1>2, <2>5
  <2> QED  BY <2>4, <2>5, <2>7, <2>8, <2>9, <2>10 DEF Inv
<1> QED  BY <1>3, <1>4

LEMMA StartKeeps ==
    ASSUME Inv, NEW r \in Runs, Start(r)
    PROVE  Inv'
<1>1. /\ TypeInv /\ LifeOK(r) /\ pc[r] = "uncalled"
      /\ Active = {} \/ (Overlap /\ closing /\ NothingAwaited)
      /\ pc' = [pc EXCEPT ![r] = "scheduled"]
      /\ epochAt' = [epochAt EXCEPT ![r] = epoch]
      /\ UNCHANGED <<delay, outcome, disconnected, sock, opened, requested, clientVars, eventVars>>
  BY DEF Inv, Start
<1>2. TypeInv'
  <2>1. TypeOK'
    BY <1>1 DEF TypeInv, TypeOK, Places, clientVars, eventVars
  <2>2. DisconnectedOnce'
    BY <1>1 DEF TypeInv, TypeOK, DisconnectedOnce
  <2> QED  BY <2>1, <2>2 DEF TypeInv
<1>3. /\ \A s \in Runs \ {r} : pc'[s] = pc[s] /\ epochAt'[s] = epochAt[s]
      /\ pc'[r] = "scheduled" /\ epochAt'[r] = epoch
      /\ UNCHANGED <<epoch, closing, event, ws, reconnection, auth, ledger, heard>>
  BY <1>1 DEF TypeInv, TypeOK, clientVars, eventVars
<1>4. ASSUME NEW s \in Runs
      PROVE  LifeOK(s)'
  <2>1. CASE s = r
    BY <1>1, <1>3, <2>1 DEF LifeOK, Begun, Stale, TypeInv, TypeOK
  <2>2. CASE s # r
    <3>1. LifeOK(s)
      BY DEF Inv
    <3> QED  BY <1>1, <1>3, <2>2, <3>1 DEF LifeOK, Begun, Stale
  <2> QED  BY <2>1, <2>2
<1>5. \A s \in Active : s # r /\ Stale(s)
  <2>1. SUFFICES ASSUME NEW s \in Active, closing, NothingAwaited
                 PROVE  s # r /\ Stale(s)
    BY <1>1
  <2>2. Begun(s) /\ LifeOK(s)
    BY <2>1 DEF NothingAwaited, Begun, Inv, Active
  <2> QED  BY <1>1, <2>1, <2>2 DEF LifeOK, Begun
<1>6. Active' = Active \cup {r}
  BY <1>1, <1>3 DEF Active
<1>7. OneFresh'
  BY <1>3, <1>5, <1>6 DEF OneFresh, Stale, Active
<1>8. ASSUME ~Overlap
      PROVE  Alone'
  <2>1. Alone /\ Active = {}
    BY <1>1, <1>8 DEF Inv
  <2>2. OneRun'
    BY <1>6, <2>1 DEF OneRun
  <2>3. ASSUME NEW s \in Runs
        PROVE  RunOK(s)'
    <3>1. RunOK(s)
      BY <2>1 DEF Alone
    <3>2. CASE s = r
      BY <1>1, <1>3, <3>2, NotOver DEF RunOK, Begun
    <3>3. CASE s # r
      BY <1>1, <1>3, <3>1, <3>3 DEF RunOK, Begun, Stale
    <3> QED  BY <3>2, <3>3
  <2> QED  BY <2>2, <2>3 DEF Alone
<1>9. ledger' = heard'
  BY <1>3 DEF Inv
<1> QED  BY <1>2, <1>4, <1>7, <1>8, <1>9 DEF Inv

\* close(): every run is behind its epoch now, and the one that might be in a
\* backoff has been told.
LEMMA CloseKeeps ==
    ASSUME Inv, Close
    PROVE  Inv'
<1>1. /\ TypeInv /\ closing' = TRUE /\ epoch' = epoch + 1 /\ epoch < MaxCloses
      /\ requested' = IF event = None THEN requested ELSE [requested EXCEPT ![event] = TRUE]
      /\ closer' = "buckets"
      /\ UNCHANGED <<pc, epochAt, delay, sock, outcome, disconnected, opened,
                     ws, event, reconnection, auth, connectedAt, credentials, eventVars>>
  BY DEF Inv, Close
<1>2. epoch \in Nat /\ MaxCloses \in Nat /\ epoch' \in 0 .. MaxCloses
  BY <1>1, BoundAssumption DEF TypeInv, TypeOK
<1>3. TypeInv'
  <2>1. TypeOK'
    BY <1>1, <1>2 DEF TypeInv, TypeOK, eventVars
  <2>2. DisconnectedOnce'
    BY <1>1 DEF TypeInv, DisconnectedOnce
  <2> QED  BY <2>1, <2>2 DEF TypeInv
<1>4. ASSUME NEW s \in Runs
      PROVE  LifeOK(s)' /\ Stale(s)' /\ (~Overlap => RunOK(s)')
  <2>1. LifeOK(s) /\ epochAt[s] \in Nat
    BY <1>1 DEF Inv, TypeInv, TypeOK
  <2>2. Stale(s)' /\ epochAt'[s] <= epoch'
    BY <1>1, <1>2, <2>1 DEF LifeOK, Stale
  <2>3. Begun(s) => requested'[s] = TRUE
    <3>1. CASE Stale(s)
      BY <1>1, <2>1, <3>1 DEF LifeOK, TypeInv, TypeOK
    <3>2. CASE ~Stale(s)
      BY <1>1, <2>1, <3>2, RunsAssumption DEF LifeOK, TypeInv, TypeOK
    <3> QED  BY <3>1, <3>2
  <2>4. LifeOK(s)'
    BY <1>1, <2>1, <2>2, <2>3 DEF LifeOK, Begun
  <2>5. ASSUME ~Overlap
        PROVE  RunOK(s)'
    <3>1. RunOK(s)
      BY <2>5 DEF Inv, Alone
    <3> QED  BY <1>1, <2>2, <3>1 DEF RunOK, Begun, eventVars
  <2> QED  BY <2>2, <2>4, <2>5
<1>5. OneFresh' /\ ledger' = heard'
  BY <1>1, <1>4 DEF Inv, OneFresh, Active, eventVars
<1>6. ~Overlap => OneRun'
  BY <1>1 DEF Inv, Alone, OneRun, Active
<1> QED  BY <1>3, <1>4, <1>5, <1>6 DEF Inv, Alone

\* A socket ends, under a run or by the hand of close(): only it changes.
LEMMA SocketKeeps ==
    ASSUME Inv, NEW r \in Runs, sock[r] = "open", NEW end \in Ends,
           sock' = [sock EXCEPT ![r] = end], closer' \in {"idle", "buckets"},
           UNCHANGED <<pc, epochAt, delay, outcome, disconnected, opened, requested,
                       ws, event, closing, epoch, reconnection, auth, connectedAt, credentials, eventVars>>
    PROVE  Inv'
<1>1. TypeInv /\ LifeOK(r)
  BY DEF Inv
<1>2. TypeInv'
  <2>1. TypeOK'
    BY <1>1 DEF TypeInv, TypeOK, eventVars
  <2>2. DisconnectedOnce'
    BY <1>1 DEF TypeInv, DisconnectedOnce
  <2> QED  BY <2>1, <2>2 DEF TypeInv
<1>3. \A s \in Runs \ {r} : sock'[s] = sock[s]
  BY <1>1 DEF TypeInv, TypeOK
<1>4. sock'[r] = end /\ end # "open" /\ outcome[r] = "none"
  <2>1. pc[r] # "ended"
    BY <1>1 DEF LifeOK
  <2> QED  BY <1>1, <2>1, NotOver DEF TypeInv, TypeOK, Ends
<1>5. ASSUME NEW s \in Runs
      PROVE  LifeOK(s)' /\ (~Overlap => RunOK(s)')
  <2>1. LifeOK(s) /\ (~Overlap => RunOK(s))
    BY DEF Inv, Alone
  <2>2. LifeOK(s)'
    BY <1>3, <1>4, <2>1 DEF LifeOK, Begun, Stale
  <2>3. ~Overlap => RunOK(s)'
    BY <1>3, <1>4, <2>1 DEF RunOK, Begun, Stale, eventVars
  <2> QED  BY <2>2, <2>3
<1>6. OneFresh' /\ ledger' = heard' /\ (~Overlap => OneRun')
  BY DEF Inv, OneFresh, Alone, OneRun, Active, Stale, eventVars
<1> QED  BY <1>2, <1>5, <1>6 DEF Inv, Alone

\* Steps of the clock, of close() without a socket, and none at all: what they
\* change is in no part of the invariant but the types.
LEMMA QuietKeeps ==
    ASSUME Inv, UNCHANGED <<runVars, ws, event, closing, epoch, auth, credentials, eventVars>>,
           closer' \in {"idle", "buckets"}, connectedAt' \in {None, "fresh", "stable"},
           reconnection' \in {"none", "live", "expired"},
           reconnection = "none" => reconnection' = "none"
    PROVE  Inv'
<1>1. TypeInv'
  <2>1. TypeOK'
    BY DEF Inv, TypeInv, TypeOK, runVars, eventVars
  <2>2. DisconnectedOnce'
    BY DEF Inv, TypeInv, DisconnectedOnce, runVars
  <2> QED  BY <2>1, <2>2 DEF TypeInv
<1>2. ASSUME NEW s \in Runs
      PROVE  LifeOK(s)' /\ (~Overlap => RunOK(s)')
  <2>1. LifeOK(s) /\ (~Overlap => RunOK(s))
    BY DEF Inv, Alone
  <2>2. LifeOK(s)'
    BY <2>1 DEF LifeOK, Begun, Stale, runVars
  <2>3. ~Overlap => RunOK(s)'
    BY <2>1 DEF RunOK, Begun, Stale, runVars, eventVars
  <2> QED  BY <2>2, <2>3
<1>3. OneFresh' /\ ledger' = heard' /\ (~Overlap => OneRun')
  BY DEF Inv, OneFresh, Alone, OneRun, Active, Stale, runVars, eventVars
<1> QED  BY <1>1, <1>2, <1>3 DEF Inv, Alone
-----------------------------------------------------------------------------
LEMMA InvInit == Init => Inv
<1> SUFFICES ASSUME Init PROVE Inv
  OBVIOUS
<1>1. TypeInv
  BY TypeInit
<1>2. \A r \in Runs : pc[r] = "uncalled"
  BY DEF Init
<1>3. Active = {}
  BY <1>2 DEF Active
<1>4. \A r \in Runs : LifeOK(r)
  BY BoundAssumption DEF Init, LifeOK, Begun
<1>5. \A r \in Runs : RunOK(r)
  BY DEF Init, RunOK, Begun
<1>6. OneFresh /\ OneRun /\ ledger = heard
  BY <1>3 DEF Init, OneFresh, OneRun
<1> QED  BY <1>1, <1>4, <1>5, <1>6 DEF Inv, Alone

\* A step is a run's, or one that leaves the runs' places and delays alone.
LEMMA Steps ==
    ASSUME Inv, [Next]_vars
    PROVE  /\ Inv'
           /\ \/ \E r \in Runs : Moves(r) \/ Begin(r)
              \/ /\ UNCHANGED delay
                 /\ \A r \in Runs : pc'[r] = pc[r] \/ pc'[r] = "scheduled"
<1>1. ASSUME NEW r \in Runs, Cancel(r) \/ ReadMessage(r) \/ (RunStep(r) /\ ~Begin(r))
      PROVE  Inv' /\ Moves(r)
  BY <1>1, StepMoves, MovesKeep
<1>2. ASSUME NEW r \in Runs, Begin(r)
      PROVE  Inv'
  BY <1>2, BeginKeeps
<1>3. ASSUME NEW r \in Runs, Start(r)
      PROVE  Inv' /\ UNCHANGED delay /\ \A s \in Runs : pc'[s] = pc[s] \/ pc'[s] = "scheduled"
  <2>1. UNCHANGED delay /\ \A s \in Runs : pc'[s] = pc[s] \/ pc'[s] = "scheduled"
    BY <1>3 DEF Start, Inv, TypeInv, TypeOK
  <2> QED  BY <1>3, <2>1, StartKeeps
<1>4. CASE Close
  <2>1. UNCHANGED <<pc, delay>>
    BY <1>4 DEF Close
  <2> QED  BY <1>4, <2>1, CloseKeeps
<1>5. CASE CloseSocket
  <2>1. UNCHANGED <<pc, epochAt, delay, outcome, disconnected, opened, requested,
                   ws, event, closing, epoch, reconnection, auth, connectedAt, credentials, eventVars>>
        /\ closer' = "idle"
    BY <1>5 DEF CloseSocket
  <2>2. CASE open
    <3>1. PICK end \in {"normal", "lost"} : sock' = [sock EXCEPT ![ws] = end]
      BY <1>5, <2>2 DEF CloseSocket
    <3>2. ws \in Runs /\ sock[ws] = "open" /\ end \in Ends
      BY <2>2 DEF open, Inv, TypeInv, TypeOK, Ends
    <3> QED  BY <2>1, <3>1, <3>2, SocketKeeps
  <2>3. CASE ~open
    <3>1. UNCHANGED sock
      BY <1>5, <2>3 DEF CloseSocket
    <3>2. UNCHANGED <<runVars, ws, event, closing, epoch, auth, credentials, eventVars>>
      BY <2>1, <3>1 DEF runVars
    <3>3. connectedAt \in {None, "fresh", "stable"} /\ reconnection \in {"none", "live", "expired"}
      BY DEF Inv, TypeInv, TypeOK
    <3> QED  BY <2>1, <3>2, <3>3, QuietKeeps
  <2> QED  BY <2>1, <2>2, <2>3
<1>6. ASSUME NEW r \in Runs, ServerCloses(r)
      PROVE  Inv' /\ UNCHANGED <<pc, delay>>
  <2>1. /\ UNCHANGED <<pc, epochAt, delay, outcome, disconnected, opened, requested,
                      clientVars, eventVars>>
        /\ sock[r] = "open"
    BY <1>6 DEF ServerCloses
  <2>2. PICK end \in Ends : sock' = [sock EXCEPT ![r] = end]
    BY <1>6 DEF ServerCloses
  <2>3. UNCHANGED <<ws, event, closing, epoch, reconnection, auth, connectedAt, credentials>>
        /\ closer' \in {"idle", "buckets"}
    BY <2>1 DEF clientVars, Inv, TypeInv, TypeOK
  <2> QED  BY <2>1, <2>2, <2>3, SocketKeeps
<1>7. CASE DeadlinePasses \/ StaysUp \/ UNCHANGED vars
  <2>1. /\ UNCHANGED <<runVars, ws, event, closing, epoch, auth, credentials, eventVars, closer>>
        /\ connectedAt' \in {None, "fresh", "stable"}
        /\ reconnection' \in {"none", "live", "expired"}
        /\ reconnection = "none" => reconnection' = "none"
    BY <1>7 DEF DeadlinePasses, StaysUp, vars, clientVars, Inv, TypeInv, TypeOK
  <2>2. UNCHANGED <<pc, delay>> /\ closer' \in {"idle", "buckets"}
    BY <2>1 DEF runVars, Inv, TypeInv, TypeOK
  <2> QED  BY <2>1, <2>2, QuietKeeps
<1> QED  BY <1>1, <1>2, <1>3, <1>4, <1>5, <1>6, <1>7 DEF Next

LEMMA InvNext == Inv /\ [Next]_vars => Inv'
  BY Steps

\* Every variable keeps its type.
THEOREM TypeCorrect == Spec => []TypeOK
<1>1. Inv => TypeOK
  BY DEF Inv, TypeInv
<1> QED  BY <1>1, InvInit, InvNext, PTL DEF Spec

\* Each run of start() that ends says so once, with "disconnected", an
\* exception or a cancellation, even among runs that overlap.
THEOREM DisconnectsOnce == Spec => []DisconnectedOnce
<1>1. Inv => DisconnectedOnce
  BY DEF Inv, TypeInv
<1> QED  BY <1>1, InvInit, InvNext, PTL DEF Spec

\* A sleeping run's event is set if and only if close() came after it began.
THEOREM CloseEndsTheBackoff == Spec => []BackoffEndsAtOnce
<1>1. Inv => BackoffEndsAtOnce
  <2> SUFFICES ASSUME Inv, NEW r \in Runs, pc[r] = "backoff"
               PROVE  requested[r] <=> Stale(r)
    BY DEF BackoffEndsAtOnce
  <2> QED  BY DEF Inv, LifeOK, Begun
<1> QED  BY <1>1, InvInit, InvNext, PTL DEF Spec

\* A backoff starts over only after a connection that stayed up.
THEOREM FlappingKeepsItsBackoff == Spec => FlappingKeepsBackoff
<1>1. ASSUME Inv, [Next]_vars, NEW r \in Runs, delay'[r] < delay[r]
      PROVE  pc'[r] = "ended" \/ connectedAt = "stable"
  <2>1. delay[r] \in 0 .. MaxDelay /\ MaxDelay \in Nat
    BY <1>1, BoundAssumption DEF Inv, TypeInv, TypeOK
  <2>2. Inv'
    BY <1>1, Steps
  <2>3. delay'[r] \in 0 .. MaxDelay
    BY <2>2 DEF Inv, TypeInv, TypeOK
  <2>4. ASSUME NEW s \in Runs, Moves(s)
        PROVE  pc'[r] = "ended" \/ connectedAt = "stable"
    <3>1. CASE s = r
      BY <1>1, <2>1, <2>3, <2>4, <3>1 DEF Moves
    <3>2. CASE s # r
      BY <1>1, <2>1, <2>4, <3>2 DEF Moves, Turns, Inv, TypeInv, TypeOK
    <3> QED  BY <3>1, <3>2
  <2>5. ASSUME NEW s \in Runs, Begin(s)
        PROVE  pc'[r] = "ended"
    <3>1. pc'[s] = "ended" \/ delay'[s] >= delay[s]
      BY <1>1, <2>5, BeginKeeps
    <3>2. CASE s = r
      BY <1>1, <2>1, <2>3, <3>1, <3>2
    <3>3. CASE s # r
      <4>1. delay'[r] = delay[r]
        BY <1>1, <2>5, <3>3, BeginTurns
      <4> QED  BY <1>1, <2>1, <4>1
    <3> QED  BY <3>2, <3>3
  <2>6. CASE UNCHANGED delay
    BY <1>1, <2>1, <2>6
  <2> QED  BY <1>1, <2>4, <2>5, <2>6, Steps
<1>2. Inv /\ [Next]_vars =>
        [\A r \in Runs : delay'[r] < delay[r] => pc'[r] = "ended" \/ connectedAt = "stable"]_vars
  BY <1>1
<1> QED  BY <1>2, InvInit, InvNext, PTL DEF Spec, FlappingKeepsBackoff
-----------------------------------------------------------------------------
(* A run that a close() has overtaken, whatever other runs there are.       *)

\* Until a later start() begins next to it, the client is closing.
ClosingUntilSuperseded ==
    \A r \in Runs : Begun(r) /\ Stale(r) /\ ~Superseded(r) => closing

LEMMA StaleNext == Inv /\ ClosingUntilSuperseded /\ [Next]_vars => ClosingUntilSuperseded'
<1> SUFFICES ASSUME Inv, ClosingUntilSuperseded, [Next]_vars, NEW r \in Runs,
                    Begun(r)', Stale(r)', ~Superseded(r)'
             PROVE  closing'
  BY DEF ClosingUntilSuperseded
<1>1. TypeInv /\ LifeOK(r) /\ epoch \in Nat /\ \A s \in Runs : epochAt[s] \in Nat /\ LifeOK(s)
  BY BoundAssumption DEF Inv, TypeInv, TypeOK
<1>2. ASSUME NEW s \in Runs, Moves(s)
      PROVE  closing'
  <2>1. /\ \A q \in Runs \ {s} : pc'[q] = pc[q]
        /\ UNCHANGED <<epochAt, epoch, closing>>
        /\ Begun(s) \/ pc'[s] = "ended"
    BY <1>1, <1>2 DEF Moves, Turns, TypeInv, TypeOK
  <2>2. Begun(r) /\ Stale(r)
    BY <2>1 DEF Begun, Stale
  <2>3. ~Superseded(r)
    <3>1. ASSUME NEW q \in Runs, pc[q] \notin {"uncalled", "scheduled"}
          PROVE  pc'[q] \notin {"uncalled", "scheduled"}
      BY <1>1, <1>2, <2>1, <3>1 DEF Moves, Turns, Elsewhere
    <3> QED  BY <2>1, <3>1 DEF Superseded
  <2> QED  BY <2>1, <2>2, <2>3 DEF ClosingUntilSuperseded
<1>3. ASSUME NEW s \in Runs, Begin(s)
      PROVE  closing'
  <2>1. /\ \A q \in Runs \ {s} : pc'[q] = pc[q]
        /\ UNCHANGED <<epochAt, epoch>> /\ pc[s] = "scheduled"
        /\ pc'[s] \in {"ended", "backoff", "connecting"}
        /\ Stale(s) => pc'[s] = "ended" /\ UNCHANGED closing
    BY <1>1, <1>3, BeginTurns, BeginPlace DEF Begin
  <2>2. CASE Stale(s)
    <3>1. r # s /\ Begun(r) /\ Stale(r)
      BY <2>1, <2>2 DEF Begun, Stale
    <3>2. ~Superseded(r)
      BY <2>1, <2>2, <3>1 DEF Superseded
    <3> QED  BY <2>1, <2>2, <3>1, <3>2 DEF ClosingUntilSuperseded
  <2>3. CASE ~Stale(s)
    <3>1. r # s
      BY <2>1, <2>3 DEF Stale
    <3>2. epochAt'[s] > epochAt'[r] /\ pc'[s] \notin {"uncalled", "scheduled"}
      BY <1>1, <2>1, <2>3 DEF Stale, LifeOK
    <3> QED  BY <3>2 DEF Superseded
  <2> QED  BY <2>2, <2>3
<1>4. ASSUME NEW s \in Runs, Start(s)
      PROVE  closing'
  <2>1. /\ pc[s] = "uncalled" /\ pc'[s] = "scheduled" /\ epochAt'[s] = epoch
        /\ \A q \in Runs \ {s} : pc'[q] = pc[q] /\ epochAt'[q] = epochAt[q]
        /\ UNCHANGED <<epoch, closing>>
    BY <1>1, <1>4 DEF Start, TypeInv, TypeOK, clientVars
  <2>2. r # s /\ Begun(r) /\ Stale(r)
    BY <2>1 DEF Begun, Stale
  <2>3. ~Superseded(r)
    BY <2>1, <2>2 DEF Superseded
  <2> QED  BY <2>1, <2>2, <2>3 DEF ClosingUntilSuperseded
<1>5. CASE Close
  BY <1>5 DEF Close
<1>6. CASE CloseSocket \/ DeadlinePasses \/ StaysUp \/ UNCHANGED vars
            \/ \E s \in Runs : ServerCloses(s)
  <2>1. UNCHANGED <<pc, epochAt, epoch, closing>>
    BY <1>6 DEF CloseSocket, DeadlinePasses, StaysUp, ServerCloses, vars, runVars, clientVars
  <2> QED  BY <2>1 DEF ClosingUntilSuperseded, Begun, Stale, Superseded
<1> QED  BY <1>2, <1>3, <1>4, <1>5, <1>6, StepMoves DEF Next

\* close() wins over the start() called before it: that run never gets to read,
\* unless a later start() began next to it and took the client's flags back.
THEOREM StaleRunsNeverOpen == Spec => StaleRunNeverOpens
<1>1. ASSUME Inv, ClosingUntilSuperseded, [Next]_vars, NEW r \in Runs, Stale(r), ~Superseded(r),
             pc[r] # "reading"
      PROVE  pc'[r] # "reading"
  <2>1. ASSUME NEW s \in Runs, Moves(s)
        PROVE  pc'[r] # "reading"
    <3>1. CASE s = r
      <4>1. pc'[r] = "reading" => Begun(r) /\ ~closing
        BY <1>1, <2>1, <3>1 DEF Moves
      <4> QED  BY <1>1, <4>1 DEF ClosingUntilSuperseded
    <3>2. CASE s # r
      BY <1>1, <2>1, <3>2 DEF Moves, Turns, Inv, TypeInv, TypeOK
    <3> QED  BY <3>1, <3>2
  <2>2. ASSUME NEW s \in Runs, Begin(s)
        PROVE  pc'[r] # "reading"
    BY <1>1, <2>2, BeginKeeps, BeginTurns
  <2>3. CASE \A s \in Runs : pc'[s] = pc[s] \/ pc'[s] = "scheduled"
    BY <1>1, <2>3
  <2> QED  BY <1>1, <2>1, <2>2, <2>3, Steps
<1>2. Inv /\ ClosingUntilSuperseded /\ [Next]_vars =>
        [\A r \in Runs : Stale(r) /\ ~Superseded(r) /\ pc[r] # "reading"
              => pc'[r] # "reading"]_vars
  BY <1>1
<1>3. Init => ClosingUntilSuperseded
  BY DEF Init, ClosingUntilSuperseded, Begun
<1> QED  BY <1>2, <1>3, StaleNext, InvInit, InvNext, PTL DEF Spec, StaleRunNeverOpens
-----------------------------------------------------------------------------
(* One run at a time: start() is called again only after the last one ended. *)

\* What is latched is what was heard on this very connection, and a run that
\* reads has announced it.
THEOREM AnnouncesAnew == ASSUME ~Overlap PROVE Spec => []AnnouncedAnew
<1>1. Inv => AnnouncedAnew
  BY DEF Inv, Alone, RunOK, AnnouncedAnew
<1> QED  BY <1>1, InvInit, InvNext, PTL DEF Spec

\* A connection that is up has no outage behind it.
THEOREM OutagesAreCleared == ASSUME ~Overlap PROVE Spec => []OutageCleared
<1>1. Inv => OutageCleared
  <2> SUFFICES ASSUME Inv, open, pc[ws] \in {"buckets", "reading"}
               PROVE  reconnection = "none"
    BY DEF OutageCleared
  <2>1. ws \in Runs
    BY DEF open, Inv, TypeInv, TypeOK
  <2> QED  BY <2>1 DEF Inv, Alone, RunOK
<1> QED  BY <1>1, InvInit, InvNext, PTL DEF Spec

\* ConnectionClosedOK comes out of the auth send, and of nothing else.
LEMMA OnlyAuthEndsOK ==
    ASSUME Inv, [Next]_vars, NEW r \in Runs, outcome'[r] = "closedOK"
    PROVE  /\ outcome[r] = "closedOK" \/ credentials
           /\ credentials' = credentials
<1>1. outcome \in [Runs -> Outcomes]
  BY DEF Inv, TypeInv, TypeOK
<1>2. credentials' = credentials
  BY DEF Next, Start, Cancel, RunStep, ReadMessage, ServerCloses, Close, CloseSocket, DeadlinePasses,
     StaysUp, Begin, Wake, ConnectFails, Connect, BucketsReady, Returns, Breaks, Authenticated,
     AuthenticationFails, RestartAnnounced, vars, clientVars
<1>3. ASSUME NEW s \in Runs, RunStep(s) \/ ReadMessage(s) \/ Cancel(s), ~credentials
      PROVE  outcome' = outcome \/ \E how \in Outcomes \ {"closedOK"} : Over(s, how)
  BY <1>3 DEF Cancel, RunStep, ReadMessage, Begin, Wake, ConnectFails, Connect, Enter, BucketsReady,
     Announce, Returns, Breaks, Authenticated, AuthenticationFails, RestartAnnounced, Ended, Finish,
     Raise, LoopTop, TimeLeft, BeginOutage, Goes, Outcomes, runVars
<1>4. ASSUME NEW s \in Runs, RunStep(s) \/ ReadMessage(s) \/ Cancel(s), ~credentials
      PROVE  outcome[r] = "closedOK"
  BY <1>1, <1>3, <1>4 DEF Over
<1>5. ASSUME ~\E s \in Runs : RunStep(s) \/ ReadMessage(s) \/ Cancel(s)
      PROVE  outcome' = outcome
  BY <1>5 DEF Next, Start, ServerCloses, Close, CloseSocket, DeadlinePasses, StaysUp, runVars, vars
<1> QED  BY <1>2, <1>4, <1>5

Signed == \A r \in Runs : outcome[r] = "closedOK" => credentials

LEMMA SignedAlways == Spec => []Signed
<1>1. Init => Signed
  BY DEF Init, Signed
<1>2. Inv /\ Signed /\ [Next]_vars => Signed'
  BY OnlyAuthEndsOK DEF Signed
<1> QED  BY <1>1, <1>2, InvInit, InvNext, PTL DEF Spec

\* A server that goes away ends no session its owner did not close, but by the
\* ConnectionClosedOK of an auth frame that it overtook.
THEOREM GoingAwayEndsNothingElse == ASSUME ~Overlap PROVE Spec => []GoingAwayEndsOnlyAuth
<1>1. Inv /\ Signed => GoingAwayEndsOnlyAuth
  BY DEF Inv, Alone, RunOK, Signed, GoingAwayEndsOnlyAuth, EndedByGoingAway
<1> QED  BY <1>1, SignedAlways, InvInit, InvNext, PTL DEF Spec

\* So the comment in __run holds of every client without credentials.
THEOREM GoingAwayIsNotTheEnd ==
    ASSUME ~Overlap PROVE Spec => [](~credentials => GoingAwayComesBack)
<1>1. GoingAwayEndsOnlyAuth => (~credentials => GoingAwayComesBack)
  BY DEF GoingAwayEndsOnlyAuth, GoingAwayComesBack
<1> QED  BY <1>1, GoingAwayEndsNothingElse, PTL

\* After a reconnection no operation is let through before the connection has
\* announced "authenticated".
THEOREM ReauthenticatesFirst == ASSUME ~Overlap PROVE Spec => []ReauthenticatedFirst
<1>1. Inv => ReauthenticatedFirst
  <2> SUFFICES ASSUME Inv, SentTooEarly
               PROVE  opened[ws] = 1
    BY DEF ReauthenticatedFirst
  <2>1. auth /\ open /\ "authenticated" \notin heard
    BY DEF SentTooEarly, handle_websocket_input, Inputs
  <2>2. ws \in Runs /\ opened[ws] \in 0 .. 2
    BY <2>1 DEF open, Inv, TypeInv, TypeOK
  <2>3. pc[ws] \in {"buckets", "reading"}
    BY <2>1, <2>2 DEF open, Inv, LifeOK
  <2>4. RunOK(ws)
    BY <2>2 DEF Inv, Alone
  <2>5. opened[ws] > 0 /\ opened[ws] # 2
    BY <2>1, <2>3, <2>4 DEF RunOK
  <2> QED  BY <2>2, <2>5
<1> QED  BY <1>1, InvInit, InvNext, PTL DEF Spec
=============================================================================
