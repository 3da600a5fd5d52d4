--------------------------- MODULE SysUpdateProofs ---------------------------
(***************************************************************************)
(* Proofs about the system update manager, for any backends, callers and   *)
(* numbers of requests and upgrades.  The properties hold one another up:  *)
(* PhaseIsLive needs refreshSerial to be held exactly while a refresh      *)
(* checks (SerialHeld), a joining Refresh relies on PhaseIsLive to know    *)
(* that there is something to join, and the refresh that ends a custom     *)
(* upgrade relies on OneOperation to find no upgrade in its way.  SysInv   *)
(* puts them together.                                                     *)
(***************************************************************************)
EXTENDS SysUpdate, TLAPS

\* refreshSerial is held by the refresher that is checking, if there is one.
SerialHeld == \A r \in Refreshers : refresh[r] = "checking" <=> serial = r

\* Whoever waits to join and has not been served has a refresh in flight to join.
JoinedInFlight ==
    \A r \in Requesters : refresh[r] = "waiting" /\ r \in unserved => serial # Unheld

\* The refresh that ends a custom upgrade belongs to the upgrade that waits for it.
FinalRefreshOwned ==
    /\ refresh[AfterOp] \in {"idle", "wanting", "checking"}
    /\ refresh[AfterOp] # "idle" => \E i \in Ops : op[i] = "refreshing"

\* Without a backend no operation is ever begun.
NothingToUpgrade == backends = {} => \A i \in Ops : op[i] = "none"

SysInv ==
    /\ UpdateTypeOK
    /\ NothingToUpgrade
    /\ OneOperation
    /\ SerialHeld
    /\ PhaseIsLive
    /\ JoinedInFlight
    /\ CoalescedIsFresh
    /\ FinalRefreshOwned
    /\ CustomUpgradeRechecked

-----------------------------------------------------------------------------
LEMMA OpsAreNaturals == NoOp \notin Ops /\ \A i \in Ops : i \in Nat
BY BoundsAssumption DEF NoOp, Ops

LEMMA RefreshersAreDistinct ==
    /\ Sched \in Refreshers /\ AfterOp \in Refreshers
    /\ Unheld \notin Refreshers
    /\ Sched \notin Requesters /\ AfterOp \notin Requesters /\ Sched # AfterOp
    /\ Requesters \subseteq Refreshers
BY RequestersAssumption DEF Refreshers, Sched, AfterOp, Unheld

-----------------------------------------------------------------------------
LEMMA TypeInit == UpdateInit => UpdateTypeOK
<1> SUFFICES ASSUME UpdateInit PROVE UpdateTypeOK
  OBVIOUS
<1>1. clients \in -1 .. MaxClients /\ clamps \in 0 .. MaxUnderflows /\ refreshes \in 0 .. MaxRefreshes
  BY BoundsAssumption DEF UpdateInit
<1> QED
  BY <1>1 DEF UpdateInit, UpdateTypeOK, Phases, Errors, RefreshPlaces, OpPlaces, Upgrading

LEMMA UpdateTypeStep == UpdateTypeOK /\ [UpdateNext]_updateVars => UpdateTypeOK'
<1> SUFFICES ASSUME UpdateTypeOK, [UpdateNext]_updateVars PROVE UpdateTypeOK'
  OBVIOUS
<1> USE BoundsAssumption, RefreshersAreDistinct
    DEF UpdateTypeOK, stateVars, schedVars, refreshVars, opVars, Phases, Errors, RefreshPlaces,
        OpPlaces, Upgrading
<1>1. ASSUME NEW r \in Requesters, NEW force \in BOOLEAN, Refresh(r, force) PROVE UpdateTypeOK'
  BY <1>1 DEF Refresh
<1>2. ASSUME NEW r \in Refreshers, RefreshStep(r) PROVE UpdateTypeOK'
  <2>1. CASE Coalesce(r)
    BY <2>1 DEF Coalesce
  <2>2. CASE CoalescedReturn(r)
    BY <2>2 DEF CoalescedReturn
  <2>3. CASE EnterRefresh(r)
    BY <2>3 DEF EnterRefresh
  <2>4. ASSUME NEW b \in Backends, Check(r, b) PROVE UpdateTypeOK'
    BY <2>4 DEF Check
  <2>5. CASE Publish(r)
    BY <2>5 DEF Publish, Outcome, Reschedule, Unlock, Answered
  <2> QED
    BY <1>2, <2>1, <2>2, <2>3, <2>4, <2>5 DEF RefreshStep
<1>3. CASE Upgrade
  BY <1>3 DEF Upgrade
<1>4. CASE Cancel
  BY <1>4 DEF Cancel
<1>5. ASSUME NEW i \in Ops, Expire(i) PROVE UpdateTypeOK'
  BY <1>5 DEF Expire
<1>6. ASSUME NEW i \in Ops, OpStep(i) PROVE UpdateTypeOK'
  <2>1. CASE StartUpgrade(i)
    BY <2>1 DEF StartUpgrade, SetError, GoTo
  <2>2. CASE StartCustom(i)
    BY <2>2 DEF StartCustom, SetError, GoTo
  <2>3. CASE StartCommand(i)
    BY <2>3 DEF StartCommand, GoTo
  <2>4. CASE Fail(i)
    BY <2>4 DEF Fail, FailureCode, SetError, GoTo
  <2>5. ASSUME NEW b \in Backends, Install(i, b) PROVE UpdateTypeOK'
    BY <2>5 DEF Install, GoTo
  <2>6. CASE RunCommand(i)
    BY <2>6 DEF RunCommand, GoTo
  <2>7. CASE Settle(i)
    BY <2>7 DEF Settle, GoTo
  <2>8. CASE SettleCustom(i)
    BY <2>8 DEF SettleCustom, GoTo
  <2>9. CASE Refreshed(i)
    BY <2>9 DEF Refreshed, GoTo
  <2>10. CASE Leave(i)
    BY <2>10 DEF Leave, GoTo
  <2> QED
    BY <1>6, <2>1, <2>2, <2>3, <2>4, <2>5, <2>6, <2>7, <2>8, <2>9, <2>10 DEF OpStep
<1>7. CASE Acquire
  BY <1>7 DEF Acquire
<1>8. CASE Release
  BY <1>8 DEF Release
<1>9. CASE Clamp
  BY <1>9 DEF Clamp
<1>10. CASE SetInterval
  BY <1>10 DEF SetInterval
<1>11. CASE SchedStep
  BY <1>11 DEF SchedStep, SchedArm, SchedWoken, SchedFire
<1>12. CASE TimePasses
  BY <1>12 DEF TimePasses
<1>13. CASE UNCHANGED updateVars
  BY <1>13 DEF updateVars
<1> QED
  BY <1>1, <1>2, <1>3, <1>4, <1>5, <1>6, <1>7, <1>8, <1>9, <1>10, <1>11, <1>12, <1>13
     DEF UpdateNext

\* The variables stay in range, for any constants.
THEOREM TypeCorrect == UpdateSpec => []UpdateTypeOK
<1>1. UpdateInit => UpdateTypeOK
  BY TypeInit
<1>2. UpdateTypeOK /\ [UpdateNext]_updateVars => UpdateTypeOK'
  BY UpdateTypeStep
<1> QED
  BY <1>1, <1>2, PTL DEF UpdateSpec

-----------------------------------------------------------------------------
(* The whole invariant.  An operation's goroutine moves under op[i] alone, *)
(* a refresher under refresh[r], serial and unserved: each step keeps the  *)
(* conjuncts of the other.                                                 *)

LEMMA InvInit == UpdateInit => SysInv
<1> SUFFICES ASSUME UpdateInit PROVE SysInv
  OBVIOUS
<1>1. UpdateTypeOK
  BY TypeInit
<1>2. OneOperation /\ CustomUpgradeRechecked /\ NothingToUpgrade
  BY OpsAreNaturals
     DEF UpdateInit, OneOperation, Live, CustomUpgradeRechecked, NothingToUpgrade
<1>3. SerialHeld /\ JoinedInFlight /\ CoalescedIsFresh /\ FinalRefreshOwned /\ PhaseIsLive
  BY RefreshersAreDistinct
     DEF UpdateInit, SerialHeld, JoinedInFlight, CoalescedIsFresh, FinalRefreshOwned, PhaseIsLive
<1> QED
  BY <1>1, <1>2, <1>3 DEF SysInv

\* What an upgrade goroutine does to the invariant, once its refresh is left alone.
LEMMA OpMoves ==
    ASSUME SysInv, UpdateTypeOK', NEW i \in Ops, NEW place,
           Live(i), place \notin {"none", "done"},
           GoTo(i, place), UNCHANGED <<refreshVars, backends, opCancel>>,
           op[i] # "refreshing", place # "refreshing",
           \/ phase' \notin {"refreshing", "upgrading"}
           \/ /\ phase' = "upgrading"
              /\ place \in Upgrading
           \/ /\ phase' = phase
              /\ op[i] \in Upgrading => place \in Upgrading
    PROVE  SysInv'
<1> USE DEF SysInv, GoTo, refreshVars
<1>0. op' = [op EXCEPT ![i] = place] /\ op \in [Ops -> OpPlaces] /\ op'[i] = place
  BY DEF UpdateTypeOK
<1>1. OneOperation'
  BY <1>0 DEF OneOperation, Live
<1>2. SerialHeld' /\ JoinedInFlight' /\ CoalescedIsFresh'
  BY DEF SerialHeld, JoinedInFlight, CoalescedIsFresh
<1>3. PhaseIsLive'
  BY <1>0 DEF PhaseIsLive, Upgrading
<1>4. FinalRefreshOwned'
  BY <1>0 DEF FinalRefreshOwned
<1>5. CustomUpgradeRechecked'
  BY <1>0 DEF CustomUpgradeRechecked
<1>6. NothingToUpgrade'
  BY DEF NothingToUpgrade, Live
<1> QED
  BY <1>1, <1>2, <1>3, <1>4, <1>5, <1>6

\* A step that leaves phase, operations and refreshes alone keeps the invariant.
LEMMA Elsewhere ==
    ASSUME SysInv, UpdateTypeOK', UNCHANGED <<phase, refreshVars, backends, opCancel, op>>
    PROVE  SysInv'
BY DEF SysInv, OneOperation, Live, SerialHeld, PhaseIsLive, JoinedInFlight, CoalescedIsFresh,
       FinalRefreshOwned, CustomUpgradeRechecked, NothingToUpgrade, refreshVars

LEMMA RefreshMoves ==
    ASSUME SysInv, UpdateTypeOK', NEW r \in Refreshers, RefreshStep(r)
    PROVE  SysInv'
<1> USE RefreshersAreDistinct DEF SysInv
<1>a. refresh \in [Refreshers -> RefreshPlaces]
  BY DEF UpdateTypeOK
<1>1. OneOperation' /\ NothingToUpgrade'
  BY DEF RefreshStep, Coalesce, CoalescedReturn, EnterRefresh, Check, Publish, opVars, OneOperation,
         Live, NothingToUpgrade
<1>2. CASE Coalesce(r)
  <2> USE <1>2, <1>a DEF Coalesce, stateVars, opVars
  <2>1. r # AfterOp /\ refresh'[r] = "coalesced"
    BY DEF FinalRefreshOwned
  <2>2. SerialHeld' /\ JoinedInFlight'
    BY DEF SerialHeld, JoinedInFlight
  <2>3. CoalescedIsFresh'
    BY DEF JoinedInFlight, CoalescedIsFresh
  <2>4. PhaseIsLive'
    BY DEF PhaseIsLive
  <2>5. FinalRefreshOwned' /\ CustomUpgradeRechecked'
    BY <2>1 DEF FinalRefreshOwned, CustomUpgradeRechecked
  <2> QED
    BY <1>1, <2>2, <2>3, <2>4, <2>5
<1>3. CASE CoalescedReturn(r)
  <2> USE <1>3, <1>a DEF CoalescedReturn, stateVars, opVars
  <2>1. r # AfterOp /\ refresh'[r] = "idle"
    BY DEF FinalRefreshOwned
  <2>2. SerialHeld' /\ JoinedInFlight' /\ CoalescedIsFresh'
    BY DEF SerialHeld, JoinedInFlight, CoalescedIsFresh
  <2>4. PhaseIsLive'
    BY DEF PhaseIsLive
  <2>5. FinalRefreshOwned' /\ CustomUpgradeRechecked'
    BY <2>1 DEF FinalRefreshOwned, CustomUpgradeRechecked
  <2> QED
    BY <1>1, <2>2, <2>4, <2>5
<1>4. CASE EnterRefresh(r)
  <2> USE <1>4, <1>a DEF EnterRefresh
  <2>1. CASE backends = {} \/ phase = "upgrading"
    <3> USE <2>1 DEF stateVars, opVars
    <3>1. r # AfterOp
      BY DEF PhaseIsLive, FinalRefreshOwned, OneOperation, Live, Upgrading, NothingToUpgrade
    <3>2. SerialHeld' /\ JoinedInFlight' /\ CoalescedIsFresh'
      BY DEF SerialHeld, JoinedInFlight, CoalescedIsFresh
    <3>3. PhaseIsLive'
      BY DEF PhaseIsLive
    <3>4. FinalRefreshOwned' /\ CustomUpgradeRechecked'
      BY <3>1 DEF FinalRefreshOwned, CustomUpgradeRechecked
    <3> QED
      BY <1>1, <3>2, <3>3, <3>4
  <2>2. CASE ~ (backends = {} \/ phase = "upgrading")
    <3> USE <2>2 DEF opVars
    <3>1. refresh'[r] = "checking" /\ serial' = r /\ phase' = "refreshing"
      OBVIOUS
    <3>2. SerialHeld' /\ JoinedInFlight' /\ CoalescedIsFresh'
      BY <3>1 DEF SerialHeld, JoinedInFlight, CoalescedIsFresh
    <3>3. PhaseIsLive'
      BY <3>1 DEF PhaseIsLive
    <3>4. FinalRefreshOwned' /\ CustomUpgradeRechecked'
      BY <3>1 DEF FinalRefreshOwned, CustomUpgradeRechecked
    <3> QED
      BY <1>1, <3>2, <3>3, <3>4
  <2> QED
    BY <2>1, <2>2
<1>5. ASSUME NEW b \in Backends, Check(r, b) PROVE SysInv'
  BY <1>5 DEF Check, stateVars, opVars, OneOperation, Live, SerialHeld, PhaseIsLive,
     JoinedInFlight, CoalescedIsFresh, FinalRefreshOwned, CustomUpgradeRechecked, NothingToUpgrade
<1>6. CASE Publish(r)
  <2> USE <1>6, <1>a DEF Publish, Unlock, opVars
  <2>1. serial = r /\ refresh'[r] = "idle" /\ phase' \in {"idle", "error"}
    BY DEF SerialHeld, Outcome
  <2>2. SerialHeld' /\ JoinedInFlight' /\ CoalescedIsFresh'
    BY <2>1 DEF SerialHeld, JoinedInFlight, CoalescedIsFresh
  <2>3. PhaseIsLive'
    BY <2>1 DEF PhaseIsLive
  <2>4. FinalRefreshOwned' /\ CustomUpgradeRechecked'
    BY <2>1 DEF FinalRefreshOwned, CustomUpgradeRechecked
  <2> QED
    BY <1>1, <2>2, <2>3, <2>4
<1> QED
  BY <1>2, <1>3, <1>4, <1>5, <1>6 DEF RefreshStep

LEMMA InvStep == SysInv /\ [UpdateNext]_updateVars => SysInv'
<1> SUFFICES ASSUME SysInv, [UpdateNext]_updateVars PROVE SysInv'
  OBVIOUS
<1>0. UpdateTypeOK /\ UpdateTypeOK'
  BY UpdateTypeStep DEF SysInv
<1> USE <1>0
<1>1. ASSUME NEW r \in Requesters, NEW force \in BOOLEAN, Refresh(r, force) PROVE SysInv'
  <2> USE <1>1, RefreshersAreDistinct DEF SysInv, Refresh, stateVars, opVars
  <2>1. /\ refresh'[r] \in {"idle", "waiting", "wanting"}
        /\ \A q \in Refreshers : q # r => refresh'[q] = refresh[q]
        /\ refresh'[r] = "waiting" => phase = "refreshing"
        /\ \A q \in Refreshers : q # r => (q \in unserved' <=> q \in unserved)
    BY DEF UpdateTypeOK
  <2>2. OneOperation' /\ NothingToUpgrade'
    BY DEF OneOperation, Live, NothingToUpgrade
  <2>3. SerialHeld' /\ JoinedInFlight' /\ CoalescedIsFresh'
    BY <2>1 DEF SerialHeld, JoinedInFlight, CoalescedIsFresh, PhaseIsLive
  <2>4. PhaseIsLive'
    BY <2>1 DEF PhaseIsLive
  <2>5. FinalRefreshOwned' /\ CustomUpgradeRechecked'
    BY <2>1 DEF FinalRefreshOwned, CustomUpgradeRechecked
  <2> QED
    BY <2>2, <2>3, <2>4, <2>5
<1>2. ASSUME NEW r \in Refreshers, RefreshStep(r) PROVE SysInv'
  BY <1>2, RefreshMoves
<1>3. CASE Upgrade
  <2>1. PICK i \in Ops : /\ op[i] = "none" /\ opCancel = NoOp /\ opCancel' = i
                         /\ \E kind \in {"started", "custom"} : op' = [op EXCEPT ![i] = kind]
                         /\ UNCHANGED <<stateVars, refreshVars, backends>> /\ backends # {}
    BY <1>3 DEF Upgrade
  <2>2. OneOperation' /\ NothingToUpgrade'
    BY <2>1, OpsAreNaturals DEF SysInv, UpdateTypeOK, OneOperation, Live, NothingToUpgrade
  <2>3. PhaseIsLive' /\ FinalRefreshOwned'
    BY <2>1, OpsAreNaturals
       DEF SysInv, UpdateTypeOK, PhaseIsLive, FinalRefreshOwned, stateVars, refreshVars, Upgrading
  <2>4. SerialHeld' /\ JoinedInFlight' /\ CoalescedIsFresh'
    BY <2>1 DEF SysInv, SerialHeld, JoinedInFlight, CoalescedIsFresh, refreshVars
  <2>5. CustomUpgradeRechecked'
    BY <2>1 DEF SysInv, UpdateTypeOK, CustomUpgradeRechecked, refreshVars
  <2> QED
    BY <2>2, <2>3, <2>4, <2>5 DEF SysInv
<1>4. CASE Cancel
  BY <1>4, Elsewhere DEF Cancel, stateVars
<1>5. ASSUME NEW i \in Ops, Expire(i) PROVE SysInv'
  BY <1>5, Elsewhere DEF Expire, stateVars
<1>6. ASSUME NEW i \in Ops, OpStep(i) PROVE SysInv'
  <2> USE DEF Live, Upgrading, stateVars
  <2>1. CASE StartUpgrade(i)
    BY <2>1, OpMoves DEF StartUpgrade, SetError
  <2>2. CASE StartCustom(i)
    BY <2>2, OpMoves DEF StartCustom, SetError
  <2>3. CASE StartCommand(i)
    BY <2>3, OpMoves DEF StartCommand
  <2>4. CASE Fail(i)
    BY <2>4, OpMoves DEF Fail, SetError
  <2>5. ASSUME NEW b \in Backends, Install(i, b) PROVE SysInv'
    BY <2>5, OpMoves DEF Install
  <2>6. CASE RunCommand(i)
    BY <2>6, OpMoves DEF RunCommand
  <2>7. CASE Settle(i)
    BY <2>7, OpMoves DEF Settle
  <2>8. CASE SettleCustom(i)
    <3> USE <2>8, RefreshersAreDistinct DEF SysInv, SettleCustom, GoTo
    <3>1. /\ op'[i] = "refreshing" /\ \A k \in Ops : k # i => op'[k] = op[k]
          /\ refresh'[AfterOp] = "wanting"
          /\ \A r \in Refreshers : r # AfterOp => refresh'[r] = refresh[r]
      BY DEF UpdateTypeOK
    <3>2. refresh[AfterOp] = "idle"
      BY DEF FinalRefreshOwned, OneOperation
    <3>3. OneOperation' /\ NothingToUpgrade'
      BY <3>1 DEF OneOperation, NothingToUpgrade
    <3>4. SerialHeld' /\ JoinedInFlight' /\ CoalescedIsFresh'
      BY <3>1, <3>2 DEF SerialHeld, JoinedInFlight, CoalescedIsFresh
    <3>5. PhaseIsLive' /\ FinalRefreshOwned' /\ CustomUpgradeRechecked'
      BY <3>1 DEF PhaseIsLive, FinalRefreshOwned, CustomUpgradeRechecked
    <3> QED
      BY <3>3, <3>4, <3>5
  <2>9. CASE Refreshed(i)
    <3> USE <2>9 DEF SysInv, Refreshed, GoTo, refreshVars
    <3>1. op'[i] = "leaving" /\ \A k \in Ops : k # i => op'[k] = op[k]
      BY DEF UpdateTypeOK
    <3>2. /\ OneOperation' /\ PhaseIsLive' /\ FinalRefreshOwned' /\ CustomUpgradeRechecked'
          /\ NothingToUpgrade'
      BY <3>1 DEF OneOperation, PhaseIsLive, FinalRefreshOwned, CustomUpgradeRechecked,
                  NothingToUpgrade
    <3>3. SerialHeld' /\ JoinedInFlight' /\ CoalescedIsFresh'
      BY DEF SerialHeld, JoinedInFlight, CoalescedIsFresh
    <3> QED
      BY <3>2, <3>3
  <2>10. CASE Leave(i)
    <3> USE <2>10 DEF SysInv, Leave, GoTo, refreshVars
    <3>1. op'[i] = "done" /\ \A k \in Ops : k # i => op'[k] = op[k]
      BY DEF UpdateTypeOK
    <3>2. OneOperation' /\ NothingToUpgrade'
      BY <3>1, OpsAreNaturals DEF OneOperation, NothingToUpgrade
    <3>3. PhaseIsLive' /\ FinalRefreshOwned' /\ CustomUpgradeRechecked'
      BY <3>1 DEF PhaseIsLive, FinalRefreshOwned, CustomUpgradeRechecked
    <3>4. SerialHeld' /\ JoinedInFlight' /\ CoalescedIsFresh'
      BY DEF SerialHeld, JoinedInFlight, CoalescedIsFresh
    <3> QED
      BY <3>2, <3>3, <3>4
  <2> QED
    BY <1>6, <2>1, <2>2, <2>3, <2>4, <2>5, <2>6, <2>7, <2>8, <2>9, <2>10 DEF OpStep
<1>7. CASE Acquire \/ Release \/ Clamp \/ SetInterval
  BY <1>7, Elsewhere DEF Acquire, Release, Clamp, SetInterval, stateVars, opVars
<1>8. CASE SchedArm \/ SchedWoken \/ TimePasses
  BY <1>8, Elsewhere DEF SchedArm, SchedWoken, TimePasses, stateVars, opVars
<1>9. CASE SchedFire
  <2> USE <1>9, RefreshersAreDistinct DEF SysInv, SchedFire, stateVars, opVars
  <2>1. /\ refresh'[Sched] = "wanting"
        /\ \A q \in Refreshers : q # Sched => refresh'[q] = refresh[q]
    BY DEF UpdateTypeOK
  <2>2. OneOperation' /\ FinalRefreshOwned' /\ CustomUpgradeRechecked' /\ NothingToUpgrade'
    BY <2>1 DEF OneOperation, Live, FinalRefreshOwned, CustomUpgradeRechecked, NothingToUpgrade
  <2>3. JoinedInFlight' /\ CoalescedIsFresh'
    BY <2>1 DEF JoinedInFlight, CoalescedIsFresh
  <2>4. SerialHeld' /\ PhaseIsLive'
    BY <2>1 DEF SerialHeld, PhaseIsLive
  <2> QED
    BY <2>2, <2>3, <2>4
<1>10. CASE UNCHANGED updateVars
  BY <1>10, Elsewhere DEF updateVars, stateVars, opVars
<1> QED
  BY <1>1, <1>2, <1>3, <1>4, <1>5, <1>6, <1>7, <1>8, <1>9, <1>10 DEF UpdateNext, SchedStep

LEMMA Invariance == UpdateSpec => []SysInv
<1> QED
  BY InvInit, InvStep, PTL DEF UpdateSpec

\* At most one upgrade goroutine is alive, and it is the one Cancel reaches.
THEOREM OperationsExclude == UpdateSpec => []OneOperation
<1>1. SysInv => OneOperation
  BY DEF SysInv
<1> QED
  BY <1>1, Invariance, PTL

\* "refreshing" and "upgrading" are shown only while somebody will clear them.
THEOREM PhasesAreLive == UpdateSpec => []PhaseIsLive
<1>1. SysInv => PhaseIsLive
  BY DEF SysInv
<1> QED
  BY <1>1, Invariance, PTL

\* A Refresh that joins another sees the result of one published since its call.
THEOREM JoinersAreServed == UpdateSpec => []CoalescedIsFresh
<1>1. SysInv => CoalescedIsFresh
  BY DEF SysInv
<1> QED
  BY <1>1, Invariance, PTL

\* The refresh that ends a custom upgrade is never skipped.
THEOREM FinalRefreshIsMade == UpdateSpec => []CustomUpgradeRechecked
<1>1. SysInv => CustomUpgradeRechecked
  BY DEF SysInv
<1> QED
  BY <1>1, Invariance, PTL

=============================================================================
