---- MODULE GammaProofs ----
EXTENDS GammaControl, FiniteSetTheorems, FunctionTheorems, TLAPS

Objects == [ctl : Handles \cup {0}, ready : BOOLEAN, failed : BOOLEAN, retry : Nat,
            last : Levels \cup {Plain}, timers : Nat, queued : Nat]
Controls == {c \in [st : {"none", "holds", "void"}, ev : {"none", "size", "failed"}] :
                (c.ev = "size" => c.st = "holds") /\ (c.ev = "failed" => c.st = "void")}
OutputTables == [tracked : Slots \cup {0}, obj : [Slots -> Objects], ctl : [Handles -> Controls],
           shown : Levels \cup {Plain}]
Closures ==
    [do : {"startup", "setup", "teardown", "apply", "resume"}]
       \cup [do : {"add", "removed", "size", "failed"}, out : Outs, obj : {0}]
       \cup [do : {"recreate"}, out : Outs, obj : Slots]

PlacesIn(q, S) == {i \in 1..Len(q) : q[i] \in S}
HowMany(q, S) == Cardinality(PlacesIn(q, S))

Structural == {c \in Closures : c.do \in {"setup", "teardown", "add", "removed"}}
SetUps == {c \in Closures : c.do = "setup"}
Adds(o) == {c \in Closures : c.do = "add" /\ c.out = o}
Recreates(o, k) == {c \in Closures : c.do = "recreate" /\ c.out = o /\ c.obj = k}
Sizes(o) == {c \in Closures : c.do = "size" /\ c.out = o}
Failures(o) == {c \in Closures : c.do = "failed" /\ c.out = o}
Removals(o) == {c \in Closures : c.do = "removed" /\ c.out = o}
Doing(s) == {c \in Closures : c.do = s}

\* The sizes of an output are ahead of its failures.
SizesFirst(q, o) == \A i, j \in 1..Len(q) : q[i] \in Failures(o) /\ q[j] \in Sizes(o) => j < i

\* An object that waits for nothing and has no control.
Inert(x) == x.ctl = 0 /\ x.timers = 0 /\ x.queued = 0
Vacant(r) == r.tracked = 0 /\ \A k \in Slots : Inert(r.obj[k])

Shape(r) ==
    /\ \A k \in Slots : k # r.tracked =>
          r.obj[k].ctl = 0 /\ (r.tracked # 0 => Inert(r.obj[k]))
    /\ \A c \in Handles : r.ctl[c].st # "none" => r.tracked # 0 /\ r.obj[r.tracked].ctl = c
    /\ r.tracked # 0 /\ r.obj[r.tracked].ctl # 0 => r.ctl[r.obj[r.tracked].ctl].st # "none"

GammaTypes ==
    /\ gammaEnabled \in BOOLEAN /\ level \in Levels /\ controlsInitialized \in BOOLEAN
    /\ seen \subseteq Outs /\ plugged \subseteq seen /\ available \subseteq seen /\ watcher \subseteq plugged
    /\ dev \in [Outs -> OutputTables]
    /\ cmdq \in Seq(Closures) /\ Len(cmdq) <= CmdCap
    /\ updateTrigger \in BOOLEAN /\ scheduler \in {"wait", "post"} /\ caller \in {"idle", "decide"}
    /\ resumeTimer \in BOOLEAN

SetupDue ==
    \/ HowMany(cmdq, SetUps) > 0
    \/ caller = "decide" /\ gammaEnabled /\ ~controlsInitialized
AddDue(o) == o \in watcher \/ HowMany(cmdq, Adds(o)) > 0

OneAtATime ==
    /\ HowMany(cmdq, Structural) <= 1
    /\ caller = "decide" => HowMany(cmdq, Structural) = 0
    /\ watcher # {} => HowMany(cmdq, Structural) = 0 /\ caller = "idle"
    /\ \A o, p \in watcher : o = p

OutputSound(o) ==
    /\ Shape(dev[o])
    /\ \A k \in Slots : dev[o].obj[k].queued = HowMany(cmdq, Recreates(o, k))
    /\ SetupDue \/ AddDue(o) => /\ Vacant(dev[o])
                                /\ HowMany(cmdq, Sizes(o)) = 0 /\ HowMany(cmdq, Failures(o)) = 0
    /\ o \notin seen => Vacant(dev[o]) /\ ~AddDue(o)
    /\ ~controlsInitialized => dev[o].tracked = 0

GammaSound == GammaTypes /\ OneAtATime /\ \A o \in Outs : OutputSound(o)

\* The set-up that NewManager posts finds the control of the first output, or comes after the
\* closure that makes it.
StartupNeedless ==
    HowMany(cmdq, Doing("startup")) > 0 =>
        /\ caller = "idle" /\ watcher = {}
        /\ HowMany(cmdq, SetUps) = 0 /\ HowMany(cmdq, Doing("teardown")) = 0
        /\ HowMany(cmdq, Doing("removed")) = 0
        /\ controlsInitialized \/ cmdq[1].do = "add"

\* Nothing in the queue is about an output that was never announced.
UnseenQuiet ==
    \A o \in Outs : o \notin seen =>
        /\ HowMany(cmdq, Sizes(o)) = 0 /\ HowMany(cmdq, Failures(o)) = 0
        /\ HowMany(cmdq, Removals(o)) = 0

GammaInv == GammaSound /\ StartupNeedless /\ UnseenQuiet

\* An object has one backoff, or one control that may still fail, or one failure to hear.
MayFail(r) == r.obj[r.tracked].ctl # 0 /\ r.ctl[r.obj[r.tracked].ctl] # [st |-> "void", ev |-> "none"]
ChanceOf(r, f) ==
    /\ r.tracked # 0 => LET x == r.obj[r.tracked]
                         IN  /\ x.timers + x.queued + f + (IF MayFail(r) THEN 1 ELSE 0) <= 1
                             /\ f > 0 \/ x.ctl # 0 => x.retry < MaxRetries
    /\ \A k \in Slots : r.obj[k].retry <= MaxRetries
RetriesBounded == \A o \in Outs : ChanceOf(dev[o], HowMany(cmdq, Failures(o)))

-----------------------------------------------------------------------------
(* How many of some commands a queue holds.                                *)

LEMMA HowManyNat ==
    ASSUME NEW q \in Seq(Closures), NEW S
    PROVE  /\ IsFiniteSet(PlacesIn(q, S)) /\ HowMany(q, S) \in Nat
           /\ HowMany(q, S) = 0 <=> \A i \in 1..Len(q) : q[i] \notin S
<1>1. IsFiniteSet(1..Len(q)) /\ PlacesIn(q, S) \subseteq 1..Len(q)
    BY FS_Interval DEF PlacesIn
<1>2. IsFiniteSet(PlacesIn(q, S))
    BY <1>1, FS_Subset
<1>3. Cardinality(PlacesIn(q, S)) \in Nat /\ (Cardinality(PlacesIn(q, S)) = 0 <=> PlacesIn(q, S) = {})
    BY <1>2, FS_CardinalityType, FS_EmptySet
<1> QED BY <1>2, <1>3 DEF HowMany, PlacesIn

LEMMA HowManyLess ==
    ASSUME NEW q \in Seq(Closures), NEW S, NEW T, S \subseteq T
    PROVE  HowMany(q, S) <= HowMany(q, T)
<1>1. PlacesIn(q, S) \subseteq PlacesIn(q, T) /\ IsFiniteSet(PlacesIn(q, T))
    BY HowManyNat DEF PlacesIn
<1> QED BY <1>1, FS_Subset DEF HowMany

LEMMA HowManyAppend ==
    ASSUME NEW q \in Seq(Closures), NEW c \in Closures, NEW S
    PROVE  HowMany(Append(q, c), S) = HowMany(q, S) + (IF c \in S THEN 1 ELSE 0)
<1> DEFINE n == Len(q) + 1
<1>1. /\ Append(q, c) \in Seq(Closures) /\ Len(Append(q, c)) = n /\ Len(q) \in Nat
      /\ Append(q, c)[n] = c /\ \A i \in 1..Len(q) : Append(q, c)[i] = q[i]
    OBVIOUS
<1>2. 1..n = 1..Len(q) \cup {n} /\ n \notin 1..Len(q)
    BY <1>1
<1>3. PlacesIn(Append(q, c), S) = IF c \in S THEN PlacesIn(q, S) \cup {n} ELSE PlacesIn(q, S)
    BY <1>1, <1>2 DEF PlacesIn
<1>4. n \notin PlacesIn(q, S) /\ IsFiniteSet(PlacesIn(q, S)) /\ HowMany(q, S) \in Nat
    BY <1>2, HowManyNat DEF PlacesIn
<1>5. CASE c \in S
    <2>1. Cardinality(PlacesIn(q, S) \cup {n}) = Cardinality(PlacesIn(q, S)) + 1
        BY <1>4, FS_AddElement
    <2> QED BY <1>3, <1>5, <2>1 DEF HowMany
<1>6. CASE c \notin S
    BY <1>3, <1>4, <1>6 DEF HowMany
<1> QED BY <1>5, <1>6

LEMMA HowManyTail ==
    ASSUME NEW q \in Seq(Closures), q # <<>>, NEW S
    PROVE  HowMany(q, S) = HowMany(Tail(q), S) + (IF Head(q) \in S THEN 1 ELSE 0)
<1> DEFINE rest == PlacesIn(q, S) \ {1}
           f == [i \in PlacesIn(Tail(q), S) |-> i + 1]
<1>1. /\ Tail(q) \in Seq(Closures) /\ Len(q) \in Nat /\ Len(q) > 0 /\ Len(Tail(q)) = Len(q) - 1
      /\ Head(q) = q[1] /\ \A i \in 1..Len(Tail(q)) : Tail(q)[i] = q[i + 1]
    OBVIOUS
<1>2. IsFiniteSet(PlacesIn(Tail(q), S)) /\ HowMany(Tail(q), S) \in Nat /\ IsFiniteSet(PlacesIn(q, S))
    BY <1>1, HowManyNat
<1>3. f \in Bijection(PlacesIn(Tail(q), S), rest)
    <2>1. \A i \in PlacesIn(Tail(q), S) : f[i] \in rest
        BY <1>1 DEF PlacesIn
    <2>2. \A i, j \in PlacesIn(Tail(q), S) : f[i] = f[j] => i = j
        BY <1>1 DEF PlacesIn
    <2>3. ASSUME NEW t \in rest PROVE \E i \in PlacesIn(Tail(q), S) : f[i] = t
        <3>1. t \in 2..Len(q) /\ t - 1 \in 1..Len(Tail(q)) /\ (t - 1) + 1 = t /\ q[t] \in S
            BY <1>1 DEF PlacesIn
        <3>2. t - 1 \in PlacesIn(Tail(q), S)
            BY <1>1, <3>1 DEF PlacesIn
        <3> QED BY <3>1, <3>2
    <2> QED BY <2>1, <2>2, <2>3, Fun_IsBij
<1>4. Cardinality(rest) = HowMany(Tail(q), S)
    BY <1>2, <1>3, FS_Bijection, Fun_ExistsBij DEF HowMany, ExistsBijection
<1>5. 1 \in PlacesIn(q, S) <=> Head(q) \in S
    BY <1>1 DEF PlacesIn
<1>6. CASE Head(q) \in S
    <2>1. Cardinality(rest) = Cardinality(PlacesIn(q, S)) - 1
        BY <1>2, <1>5, <1>6, FS_RemoveElement
    <2>2. HowMany(q, S) \in Nat
        BY HowManyNat
    <2> QED BY <1>2, <1>4, <1>6, <2>1, <2>2 DEF HowMany
<1>7. CASE Head(q) \notin S
    <2>1. rest = PlacesIn(q, S)
        BY <1>5, <1>7
    <2>2. HowMany(q, S) = HowMany(Tail(q), S)
        BY <1>4, <2>1 DEF HowMany
    <2> QED BY <1>2, <1>7, <2>2
<1> QED BY <1>6, <1>7

LEMMA NothingQueued == \A S : HowMany(<<>>, S) = 0
<1> SUFFICES ASSUME NEW S PROVE HowMany(<<>>, S) = 0
    OBVIOUS
<1>1. PlacesIn(<<>>, S) = {}
    BY DEF PlacesIn
<1> QED BY <1>1, FS_EmptySet DEF HowMany

\* What posting and taking a command do to these numbers.
LEMMA PostedHowMany ==
    ASSUME NEW q \in Seq(Closures), Len(q) <= CmdCap, NEW c \in Closures
    PROVE  /\ Posted(q, c) \in Seq(Closures) /\ Len(Posted(q, c)) <= CmdCap
           /\ Posted(q, c) = q \/ \A S : HowMany(Posted(q, c), S) = HowMany(q, S) + (IF c \in S THEN 1 ELSE 0)
           /\ Posted(q, c) = q <=> Len(q) >= CmdCap
<1>1. CmdCap \in Nat /\ Len(q) \in Nat /\ Append(q, c) \in Seq(Closures) /\ Len(Append(q, c)) = Len(q) + 1
    BY GammaAssumption
<1>2. CASE Len(q) < CmdCap
    <2>1. Posted(q, c) = Append(q, c)
        BY <1>2 DEF Posted
    <2> QED BY <1>1, <1>2, <2>1, HowManyAppend
<1>3. CASE ~(Len(q) < CmdCap)
    BY <1>1, <1>3 DEF Posted
<1> QED BY <1>2, <1>3

LEMMA Takes ==
    ASSUME GammaTypes, NEW do, TakeCmd(do)
    PROVE  /\ cmdq' \in Seq(Closures) /\ Len(cmdq') < Len(cmdq) /\ Len(cmdq') <= CmdCap
           /\ Head(cmdq) \in Closures /\ Head(cmdq).do = do
           /\ \A S : /\ HowMany(cmdq, S) \in Nat /\ HowMany(cmdq', S) \in Nat
                     /\ HowMany(cmdq, S) = HowMany(cmdq', S) + (IF Head(cmdq) \in S THEN 1 ELSE 0)
<1>1. cmdq \in Seq(Closures) /\ cmdq # <<>> /\ Head(cmdq).do = do /\ cmdq' = Tail(cmdq) /\ Len(cmdq) <= CmdCap
    BY DEF TakeCmd, GammaTypes
<1>2. Tail(cmdq) \in Seq(Closures) /\ Len(Tail(cmdq)) = Len(cmdq) - 1 /\ Head(cmdq) \in Closures /\ Len(cmdq) \in Nat
    BY <1>1
<1>3. \A S : HowMany(cmdq, S) \in Nat /\ HowMany(cmdq', S) \in Nat
    BY <1>1, <1>2, HowManyNat
<1>4. \A S : HowMany(cmdq, S) = HowMany(cmdq', S) + (IF Head(cmdq) \in S THEN 1 ELSE 0)
    BY <1>1, HowManyTail
<1>5. Len(cmdq') < Len(cmdq) /\ Len(cmdq') <= CmdCap
    BY <1>1, <1>2, GammaAssumption
<1> QED BY <1>1, <1>2, <1>3, <1>4, <1>5

LEMMA Posts ==
    ASSUME GammaTypes, NEW c \in Closures, cmdq' = Posted(cmdq, c)
    PROVE  /\ cmdq' \in Seq(Closures) /\ Len(cmdq') <= CmdCap
           /\ \A S : /\ HowMany(cmdq, S) \in Nat /\ HowMany(cmdq', S) \in Nat
                     /\ HowMany(cmdq', S) <= HowMany(cmdq, S) + (IF c \in S THEN 1 ELSE 0)
                     /\ HowMany(cmdq', S) >= HowMany(cmdq, S)
                     /\ cmdq' # cmdq => HowMany(cmdq', S) = HowMany(cmdq, S) + (IF c \in S THEN 1 ELSE 0)
           /\ Len(cmdq) < CmdCap => cmdq' # cmdq
<1>1. cmdq \in Seq(Closures) /\ Len(cmdq) <= CmdCap
    BY DEF GammaTypes
<1>2. cmdq' \in Seq(Closures) /\ Len(cmdq') <= CmdCap /\ (cmdq' = cmdq <=> Len(cmdq) >= CmdCap)
    BY <1>1, PostedHowMany
<1>3. \A S : HowMany(cmdq, S) \in Nat /\ HowMany(cmdq', S) \in Nat
    BY <1>1, <1>2, HowManyNat
<1>4. cmdq' = cmdq \/ \A S : HowMany(cmdq', S) = HowMany(cmdq, S) + (IF c \in S THEN 1 ELSE 0)
    BY <1>1, PostedHowMany
<1>5. Len(cmdq) < CmdCap => cmdq' # cmdq
    BY <1>1, <1>2, GammaAssumption
<1>6. \A S : /\ HowMany(cmdq', S) <= HowMany(cmdq, S) + (IF c \in S THEN 1 ELSE 0)
             /\ HowMany(cmdq', S) >= HowMany(cmdq, S)
    BY <1>3, <1>4
<1> QED BY <1>2, <1>3, <1>4, <1>5, <1>6

-----------------------------------------------------------------------------
(* The closures, as functions of the table of one output.                  *)

LEMMA LeastOfSome ==
    ASSUME NEW S, S # {}, S \subseteq 1..3 PROVE Least(S) \in S
<1>1. \E x \in S : \A y \in S : x <= y
    <2>1. CASE 1 \in S
        BY <2>1
    <2>2. CASE 1 \notin S /\ 2 \in S
        BY <2>2
    <2>3. CASE 1 \notin S /\ 2 \notin S
        <3>1. \A x \in S : x = 3
            BY <2>3
        <3>2. PICK x \in S : TRUE
            OBVIOUS
        <3> QED BY <3>1, <3>2
    <2> QED BY <2>1, <2>2, <2>3
<1> QED BY <1>1 DEF Least

LEMMA BlankObject == Blank \in Objects /\ Inert(Blank) /\ Blank.retry = 0 /\ Blank.timers = 0 /\ Blank.queued = 0
BY DEF Blank, Objects, Inert

LEMMA TableParts ==
    ASSUME NEW r \in OutputTables
    PROVE  /\ r.tracked \in Slots \cup {0} /\ r.obj \in [Slots -> Objects]
           /\ r.ctl \in [Handles -> Controls] /\ r.shown \in Levels \cup {Plain}
           /\ r = [tracked |-> r.tracked, obj |-> r.obj, ctl |-> r.ctl, shown |-> r.shown]
           /\ \A k \in Slots : r.obj[k].timers \in Nat /\ r.obj[k].queued \in Nat /\ r.obj[k].retry \in Nat
BY DEF OutputTables, Objects

LEMMA Tidied ==
    ASSUME NEW r \in OutputTables
    PROVE  LET t == Tidy(r)
           IN  /\ t \in OutputTables /\ t.tracked = r.tracked /\ t.ctl = r.ctl /\ t.shown = r.shown
               /\ \A k \in Slots :
                     /\ t.obj[k] \in {r.obj[k], Blank} /\ (k = r.tracked => t.obj[k] = r.obj[k])
                     /\ k # r.tracked /\ r.obj[k].timers = 0 /\ r.obj[k].queued = 0 => t.obj[k] = Blank
                     /\ t.obj[k].timers = r.obj[k].timers /\ t.obj[k].queued = r.obj[k].queued
<1> DEFINE t == Tidy(r)
           f == [k \in Slots |->
                    IF k = r.tracked \/ r.obj[k].timers + r.obj[k].queued > 0 THEN r.obj[k] ELSE Blank]
<1>1. f \in [Slots -> Objects]
    BY TableParts, BlankObject
<1>2. t = [r EXCEPT !.obj = f]
    BY DEF Tidy
<1>3. t = [tracked |-> r.tracked, obj |-> f, ctl |-> r.ctl, shown |-> r.shown]
    BY <1>2, TableParts
<1>4. t \in OutputTables
    BY <1>1, <1>3, TableParts DEF OutputTables
<1>5. ASSUME NEW k \in Slots
      PROVE  /\ f[k] \in {r.obj[k], Blank} /\ (k = r.tracked => f[k] = r.obj[k])
             /\ k # r.tracked /\ r.obj[k].timers = 0 /\ r.obj[k].queued = 0 => f[k] = Blank
             /\ f[k].timers = r.obj[k].timers /\ f[k].queued = r.obj[k].queued
    <2>1. CASE k = r.tracked \/ r.obj[k].timers + r.obj[k].queued > 0
        BY <2>1
    <2>2. CASE ~(k = r.tracked \/ r.obj[k].timers + r.obj[k].queued > 0)
        <3>1. r.obj[k].timers = 0 /\ r.obj[k].queued = 0
            BY <2>2, TableParts
        <3> QED BY <2>2, <3>1, BlankObject
    <2> QED BY <2>1, <2>2
<1> QED BY <1>3, <1>4, <1>5

\* A control that was not given its output will be told so.
Refused == [st |-> "void", ev |-> "failed"]

LEMMA GrantedFacts ==
    ASSUME NEW r \in OutputTables, NEW o, NEW c \in Handles
    PROVE  LET g == Granted(r, o, c)
               v == IF Holds(r) \/ o \notin plugged THEN Refused ELSE [st |-> "holds", ev |-> "size"]
           IN  /\ g \in OutputTables /\ v \in Controls
               /\ g = [tracked |-> r.tracked, obj |-> r.obj, ctl |-> [r.ctl EXCEPT ![c] = v], shown |-> r.shown]
<1> DEFINE v == IF Holds(r) \/ o \notin plugged THEN Refused ELSE [st |-> "holds", ev |-> "size"]
<1>1. v \in Controls
    BY DEF Controls, Refused
<1>2. Granted(r, o, c) = [r EXCEPT !.ctl[c] = v]
    BY DEF Granted, Refused
<1> HIDE DEF v
<1>3. Granted(r, o, c) = [tracked |-> r.tracked, obj |-> r.obj, ctl |-> [r.ctl EXCEPT ![c] = v], shown |-> r.shown]
    BY <1>2, TableParts
<1>4. Granted(r, o, c) \in OutputTables
    BY <1>1, <1>3, TableParts DEF OutputTables
<1> QED BY <1>1, <1>3, <1>4 DEF v

LEMMA DestroyedFacts ==
    ASSUME NEW r \in OutputTables, NEW c \in Handles \cup {0}
    PROVE  LET d == Destroyed(r, c)
           IN  /\ d \in OutputTables /\ d.tracked = r.tracked /\ d.obj = r.obj
               /\ \A h \in Handles : d.ctl[h] = IF h = c THEN NoControl ELSE r.ctl[h]
               /\ d.shown = IF c # 0 /\ r.ctl[c].st = "holds" THEN Plain ELSE r.shown
<1>1. CASE c = 0
    BY <1>1 DEF Destroyed, Handles
<1>2. CASE c # 0
    <2> DEFINE s == IF r.ctl[c].st = "holds" THEN Plain ELSE r.shown
    <2>1. Destroyed(r, c) = [r EXCEPT !.ctl[c] = NoControl, !.shown = s]
        BY <1>2 DEF Destroyed
    <2>2. NoControl \in Controls /\ s \in Levels \cup {Plain}
        BY TableParts DEF Controls, NoControl
    <2> HIDE DEF s
    <2>3. Destroyed(r, c) = [tracked |-> r.tracked, obj |-> r.obj, ctl |-> [r.ctl EXCEPT ![c] = NoControl], shown |-> s]
        BY <2>1 DEF OutputTables
    <2>4. Destroyed(r, c) \in OutputTables
        BY <1>2, <2>2, <2>3, TableParts DEF OutputTables
    <2> QED BY <1>2, <2>3, <2>4, TableParts DEF s
<1> QED BY <1>1, <1>2

LEMMA AttachedFacts ==
    ASSUME NEW o \in Outs, NEW r \in OutputTables, Shape(r), Vacant(r), FreeSlots(r) # {}, FreeHandles(r) # {}
    PROVE  LET a == Attached(r, o)
               x == a.obj[a.tracked]
           IN  /\ a \in OutputTables /\ Shape(a) /\ a.tracked \in Slots /\ a.shown = r.shown
               /\ \A k \in Slots : a.obj[k].timers = 0 /\ a.obj[k].queued = 0 /\ a.obj[k].retry = 0
               /\ x.ctl \in Handles /\ ~x.ready /\ ~x.failed /\ x.last = Plain
               /\ a.ctl[x.ctl] = IF o \in plugged THEN [st |-> "holds", ev |-> "size"] ELSE Refused
<1> DEFINE k == Least(FreeSlots(r))
           c == Least(FreeHandles(r))
           b == [Blank EXCEPT !.ctl = c]
           v == IF o \in plugged THEN [st |-> "holds", ev |-> "size"] ELSE Refused
           m == [Granted(r, o, c) EXCEPT !.tracked = k, !.obj[k] = b]
<1>1. k \in Slots /\ r.obj[k] = Blank
    BY LeastOfSome DEF FreeSlots, Slots
<1>2. c \in Handles
    BY LeastOfSome DEF FreeHandles, Handles
<1>3. \A h \in Handles : r.ctl[h].st = "none"
    BY DEF Shape, Vacant
<1>4. /\ Granted(r, o, c) = [tracked |-> r.tracked, obj |-> r.obj, ctl |-> [r.ctl EXCEPT ![c] = v], shown |-> r.shown]
      /\ Granted(r, o, c) \in OutputTables /\ v \in Controls
    <2>1. ~Holds(r)
        BY <1>3 DEF Holds
    <2> QED BY <1>2, <2>1, GrantedFacts
<1>5. b \in Objects /\ b.ctl = c /\ ~b.ready /\ ~b.failed /\ b.retry = 0 /\ b.last = Plain /\ b.timers = 0 /\ b.queued = 0
    BY <1>2 DEF Blank, Objects
<1>6. Attached(r, o) = Tidy(m)
    BY DEF Attached
<1> HIDE DEF k, c, b, v
<1>7. m \in OutputTables /\ m.tracked = k /\ m.obj = [r.obj EXCEPT ![k] = b] /\ m.ctl = [r.ctl EXCEPT ![c] = v] /\ m.shown = r.shown
    <2> DEFINE g == Granted(r, o, c)
    <2>1. g \in OutputTables /\ g.obj = r.obj /\ g.ctl = [r.ctl EXCEPT ![c] = v] /\ g.shown = r.shown
        BY <1>4
    <2> HIDE DEF g
    <2>2. LET w == [g EXCEPT !.tracked = k, !.obj[k] = b]
          IN  w \in OutputTables /\ w.tracked = k /\ w.obj = [g.obj EXCEPT ![k] = b] /\ w.ctl = g.ctl /\ w.shown = g.shown
        BY <1>1, <1>5, <2>1 DEF OutputTables
    <2> QED BY <2>1, <2>2 DEF g, m
<1> HIDE DEF m
<1> DEFINE a == Tidy(m)
<1>9. /\ a \in OutputTables /\ a.tracked = k /\ a.ctl = [r.ctl EXCEPT ![c] = v] /\ a.shown = r.shown
      /\ \A j \in Slots : a.obj[j] \in {m.obj[j], Blank} /\ (j = k => a.obj[j] = m.obj[j])
                           /\ (j # k /\ m.obj[j].timers = 0 /\ m.obj[j].queued = 0 => a.obj[j] = Blank)
    BY <1>7, Tidied
<1>10. a.obj[k] = b /\ \A j \in Slots : j # k => a.obj[j] = Blank
    <2>1. \A j \in Slots : j # k => r.obj[j].timers = 0 /\ r.obj[j].queued = 0
        BY DEF Vacant, Inert
    <2>2. m.obj[k] = b /\ \A j \in Slots : j # k => m.obj[j] = r.obj[j]
        BY <1>1, <1>7, TableParts
    <2> QED BY <1>1, <1>9, <2>1, <2>2
<1>11. v.st # "none" /\ a.ctl[c] = v /\ \A h \in Handles : h # c => a.ctl[h].st = "none"
    BY <1>2, <1>3, <1>9, TableParts DEF v, Refused
<1> HIDE DEF a
<1>12. Shape(a)
    <2>1. a.tracked = k /\ a.obj[k].ctl = c /\ k # 0
        BY <1>1, <1>5, <1>9, <1>10 DEF Slots
    <2>2. \A j \in Slots : j # k => Inert(a.obj[j]) /\ a.obj[j].ctl = 0
        BY <1>10, BlankObject DEF Inert
    <2> QED BY <1>11, <2>1, <2>2 DEF Shape
<1>13. \A j \in Slots : a.obj[j].timers = 0 /\ a.obj[j].queued = 0 /\ a.obj[j].retry = 0
    BY <1>5, <1>10, BlankObject
<1>14. Attached(r, o) = a
    BY <1>6 DEF a
<1> QED BY <1>1, <1>2, <1>5, <1>9, <1>10, <1>11, <1>12, <1>13, <1>14 DEF v

\* What an object has that does not concern its control: its timers and its place in the
\* queue, which no closure but its own changes.
Waits(x, y) == x.timers = y.timers /\ x.queued = y.queued

LEMMA ObjectParts ==
    ASSUME NEW x \in Objects
    PROVE  /\ x.ctl \in Handles \cup {0} /\ x.ready \in BOOLEAN /\ x.failed \in BOOLEAN
           /\ x.retry \in Nat /\ x.last \in Levels \cup {Plain} /\ x.timers \in Nat /\ x.queued \in Nat
BY DEF Objects

\* An output keeps its shape while its objects keep their controls.
LEMMA ShapeKept ==
    ASSUME NEW r \in OutputTables, NEW t \in OutputTables, Shape(r), t.tracked = r.tracked,
           \A k \in Slots : t.obj[k].ctl = r.obj[k].ctl
                               /\ (r.tracked # 0 /\ k # r.tracked => t.obj[k] = r.obj[k]),
           \A c \in Handles : t.ctl[c].st = "none" <=> r.ctl[c].st = "none"
    PROVE  Shape(t)
<1>1. r.tracked # 0 => r.tracked \in Slots /\ r.obj[r.tracked].ctl \in Handles \cup {0}
    BY TableParts, ObjectParts
<1> QED BY <1>1 DEF Shape, Inert

LEMMA SizedFacts ==
    ASSUME NEW r \in OutputTables, r.tracked # 0
    PROVE  LET t == SizedOutput(r)
               x == r.obj[r.tracked]
               y == t.obj[r.tracked]
           IN  /\ t \in OutputTables /\ t.tracked = r.tracked /\ t.ctl = r.ctl /\ t.shown = r.shown
               /\ \A k \in Slots : k # r.tracked => t.obj[k] = r.obj[k]
               /\ y.ctl = x.ctl /\ y.ready /\ ~y.failed /\ y.retry = 0 /\ y.last = Plain /\ Waits(y, x)
<1> DEFINE k == r.tracked
           b == [r.obj[k] EXCEPT !.ready = TRUE, !.failed = FALSE, !.retry = 0, !.last = Plain]
<1>1. k \in Slots /\ r.obj[k] \in Objects
    BY TableParts
<1>2. /\ b \in Objects /\ b.ctl = r.obj[k].ctl /\ b.ready /\ ~b.failed /\ b.retry = 0 /\ b.last = Plain
      /\ Waits(b, r.obj[k])
    BY <1>1 DEF Objects, Waits
<1>3. SizedOutput(r) = [r EXCEPT !.obj[k] = b]
    BY DEF SizedOutput
<1> HIDE DEF b, k
<1>4. LET t == [r EXCEPT !.obj[k] = b]
      IN  t \in OutputTables /\ t.tracked = r.tracked /\ t.obj = [r.obj EXCEPT ![k] = b] /\ t.ctl = r.ctl /\ t.shown = r.shown
    BY <1>1, <1>2 DEF OutputTables
<1> QED BY <1>1, <1>2, <1>3, <1>4, TableParts DEF k

LEMMA DetachedFacts ==
    ASSUME NEW r \in OutputTables, Shape(r)
    PROVE  LET t == Detached(r)
           IN  /\ t \in OutputTables /\ Shape(t) /\ t.tracked = 0 /\ (r.tracked = 0 => t = r)
               /\ \A k \in Slots : Waits(t.obj[k], r.obj[k]) /\ t.obj[k].ctl = 0 /\ t.obj[k].retry \in {0, r.obj[k].retry}
               /\ \A c \in Handles : t.ctl[c].st = "none"
               /\ t.shown = IF Holds(r) THEN Plain ELSE r.shown
<1>1. CASE r.tracked = 0
    <2>1. Detached(r) = r
        BY <1>1 DEF Detached
    <2>2. \A c \in Handles : r.ctl[c].st = "none"
        BY <1>1 DEF Shape
    <2>3. \A k \in Slots : r.obj[k].ctl = 0
        BY <1>1 DEF Shape, Slots
    <2>4. ~Holds(r)
        BY <2>2 DEF Holds
    <2> QED BY <1>1, <2>1, <2>2, <2>3, <2>4 DEF Waits
<1>2. CASE r.tracked # 0
    <2> DEFINE k == r.tracked
               d == Destroyed(r, r.obj[k].ctl)
               b == [d.obj[k] EXCEPT !.ctl = 0]
               m == [d EXCEPT !.tracked = 0, !.obj[k].ctl = 0]
               t == Tidy(m)
    <2>1. k \in Slots /\ r.obj[k] \in Objects /\ r.obj[k].ctl \in Handles \cup {0}
        BY <1>2, TableParts, ObjectParts
    <2>2. /\ d \in OutputTables /\ d.tracked = k /\ d.obj = r.obj
          /\ \A c \in Handles : d.ctl[c] = IF c = r.obj[k].ctl THEN NoControl ELSE r.ctl[c]
          /\ d.shown = IF r.obj[k].ctl # 0 /\ r.ctl[r.obj[k].ctl].st = "holds" THEN Plain ELSE r.shown
        BY <2>1, DestroyedFacts
    <2>3. Detached(r) = t
        BY <1>2 DEF Detached
    <2> HIDE DEF d
    <2>4. b \in Objects /\ b.ctl = 0 /\ b.retry = r.obj[k].retry /\ Waits(b, r.obj[k])
        BY <2>1, <2>2 DEF Objects, Waits
    <2>5. m \in OutputTables /\ m.tracked = 0 /\ m.obj = [d.obj EXCEPT ![k] = b] /\ m.ctl = d.ctl /\ m.shown = d.shown
        BY <2>1, <2>2, <2>4 DEF OutputTables
    <2> HIDE DEF m, b
    <2>6. \A j \in Slots : m.obj[j] = IF j = k THEN b ELSE r.obj[j]
        BY <2>1, <2>2, <2>5, TableParts
    <2>7. /\ t \in OutputTables /\ t.tracked = 0 /\ t.ctl = d.ctl /\ t.shown = d.shown
          /\ \A j \in Slots : t.obj[j] \in {m.obj[j], Blank} /\ Waits(t.obj[j], m.obj[j])
        BY <2>5, Tidied DEF Waits
    <2> HIDE DEF t
    <2>8. \A j \in Slots : r.obj[j].retry \in Nat /\ (j # k => r.obj[j].ctl = 0)
        BY <1>2, TableParts DEF Shape
    <2>9. \A j \in Slots : Waits(t.obj[j], r.obj[j]) /\ t.obj[j].ctl = 0 /\ t.obj[j].retry \in {0, r.obj[j].retry}
        BY <2>4, <2>6, <2>7, <2>8, BlankObject DEF Waits, Inert
    <2>10. \A c \in Handles : t.ctl[c].st = "none"
        BY <1>2, <2>2, <2>7 DEF Shape, NoControl
    <2>11. d.shown = IF Holds(r) THEN Plain ELSE r.shown
        <3>1. Holds(r) <=> r.obj[k].ctl # 0 /\ r.ctl[r.obj[k].ctl].st = "holds"
            BY <1>2, <2>1 DEF Holds, Shape, Handles
        <3> QED BY <2>2, <3>1
    <2>12. Shape(t)
        BY <2>7, <2>9, <2>10 DEF Shape
    <2> QED BY <1>2, <2>3, <2>7, <2>9, <2>10, <2>11, <2>12
<1> QED BY <1>1, <1>2

LEMMA FailedFacts ==
    ASSUME NEW o \in Outs, NEW r \in OutputTables, Shape(r), r.tracked # 0
    PROVE  LET t == FailedOutput(r, o)
               x == r.obj[r.tracked]
               y == t.obj[r.tracked]
           IN  /\ t \in OutputTables /\ Shape(t) /\ t.tracked = r.tracked
               /\ \A k \in Slots : k # r.tracked => t.obj[k] = r.obj[k]
               /\ y.ctl = 0 /\ y.failed /\ ~y.ready /\ y.retry = x.retry + 1 /\ y.last = x.last
               /\ y.queued = x.queued /\ y.timers = IF o \in available THEN x.timers + 1 ELSE x.timers
               /\ \A c \in Handles : t.ctl[c].st = "none"
               /\ t.shown = IF Holds(r) THEN Plain ELSE r.shown
<1> DEFINE k == r.tracked
           d == Destroyed(r, r.obj[k].ctl)
           x == r.obj[k]
           n == IF o \in available THEN x.timers + 1 ELSE x.timers
           p == x.retry + 1
           b == [x EXCEPT !.ctl = 0, !.failed = TRUE, !.ready = FALSE, !.retry = p, !.timers = n]
           t == [d EXCEPT !.obj[k] = b]
<1>1. k \in Slots /\ r.obj[k] \in Objects /\ r.obj[k].ctl \in Handles \cup {0}
    BY TableParts, ObjectParts
<1>2. /\ d \in OutputTables /\ d.tracked = k /\ d.obj = r.obj
      /\ \A c \in Handles : d.ctl[c] = IF c = r.obj[k].ctl THEN NoControl ELSE r.ctl[c]
      /\ d.shown = IF r.obj[k].ctl # 0 /\ r.ctl[r.obj[k].ctl].st = "holds" THEN Plain ELSE r.shown
    BY <1>1, DestroyedFacts
<1>3. FailedOutput(r, o) = t
    BY DEF FailedOutput
<1> HIDE DEF d
<1>4. /\ b \in Objects /\ b.ctl = 0 /\ b.failed /\ ~b.ready /\ b.retry = r.obj[k].retry + 1 /\ b.last = r.obj[k].last
      /\ b.queued = r.obj[k].queued /\ b.timers = IF o \in available THEN r.obj[k].timers + 1 ELSE r.obj[k].timers
    <2>1. x \in Objects /\ x = r.obj[k]
        BY <1>1
    <2>2. n \in Nat /\ p \in Nat
        BY <2>1, ObjectParts
    <2> HIDE DEF x, n, p
    <2>3. /\ b \in Objects /\ b.ctl = 0 /\ b.failed /\ ~b.ready /\ b.retry = p /\ b.last = x.last
          /\ b.queued = x.queued /\ b.timers = n
        BY <2>1, <2>2 DEF Objects
    <2> QED BY <2>1, <2>3 DEF n, p
<1> HIDE DEF b
<1>5. t \in OutputTables /\ t.tracked = k /\ t.obj = [d.obj EXCEPT ![k] = b] /\ t.ctl = d.ctl /\ t.shown = d.shown
    BY <1>1, <1>2, <1>4 DEF OutputTables
<1> HIDE DEF t
<1>6. t.obj[k] = b /\ \A j \in Slots : j # k => t.obj[j] = r.obj[j]
    BY <1>1, <1>2, <1>5, TableParts
<1>7. \A c \in Handles : t.ctl[c].st = "none"
    BY <1>2, <1>5 DEF Shape, NoControl
<1>8. t.shown = IF Holds(r) THEN Plain ELSE r.shown
    <2>1. Holds(r) <=> r.obj[k].ctl # 0 /\ r.ctl[r.obj[k].ctl].st = "holds"
        BY <1>1 DEF Holds, Shape, Handles
    <2> QED BY <1>2, <1>5, <2>1
<1>9. Shape(t)
    BY <1>4, <1>5, <1>6, <1>7 DEF Shape
<1> QED BY <1>3, <1>4, <1>5, <1>6, <1>7, <1>8, <1>9 DEF k

\* The table r with one closure less to come for the object k.
LEMMA DoneFacts ==
    ASSUME NEW r \in OutputTables, NEW k \in Slots, r.obj[k].queued > 0
    PROVE  LET d == [r EXCEPT !.obj[k].queued = @ - 1]
           IN  /\ d \in OutputTables /\ d.tracked = r.tracked /\ d.ctl = r.ctl /\ d.shown = r.shown
               /\ \A j \in Slots : j # k => d.obj[j] = r.obj[j]
               /\ d.obj[k] = [r.obj[k] EXCEPT !.queued = r.obj[k].queued - 1]
<1> DEFINE q == r.obj[k].queued - 1
           x == [r.obj[k] EXCEPT !.queued = q]
           d == [r EXCEPT !.obj[k].queued = q]
<1>1. r.obj[k] \in Objects /\ q \in Nat
    BY TableParts
<1> HIDE DEF q
<1>2. x \in Objects
    BY <1>1 DEF Objects
<1>3. d \in OutputTables /\ d.tracked = r.tracked /\ d.obj = [r.obj EXCEPT ![k] = x] /\ d.ctl = r.ctl /\ d.shown = r.shown
    BY <1>1, <1>2 DEF OutputTables
<1> HIDE DEF x, d
<1>4. d.obj[k] = x /\ \A j \in Slots : j # k => d.obj[j] = r.obj[j]
    BY <1>3, TableParts
<1> QED BY <1>3, <1>4 DEF x, d, q

\* What a fired backoff makes of the table r, of which it held the object k.
RecreatedTable(r, k, t) ==
    /\ t \in OutputTables /\ Shape(t) /\ t.tracked = r.tracked
    /\ \A j \in Slots : t.obj[j].timers = r.obj[j].timers /\ t.obj[j].retry \in {0, r.obj[j].retry}
                        /\ t.obj[j].queued = IF j = k THEN r.obj[k].queued - 1 ELSE r.obj[j].queued
    /\ r.tracked # 0 => k = r.tracked
RecreatedControl(r, o, k, t) ==
    LET x == r.obj[k]
        y == t.obj[k]
    IN  \/ /\ t.ctl = r.ctl /\ t.shown = r.shown
           /\ k = r.tracked => y = [x EXCEPT !.queued = x.queued - 1]
        \/ /\ k = r.tracked /\ x.retry < MaxRetries
           /\ y.ctl \in Handles /\ ~y.failed /\ y.ready = x.ready /\ y.last = x.last /\ y.retry = x.retry
           /\ t.ctl[y.ctl] = IF o \in plugged THEN [st |-> "holds", ev |-> "size"] ELSE Refused
           /\ t.shown = IF Holds(r) THEN Plain ELSE r.shown

LEMMA RecreatedFacts ==
    ASSUME NEW o \in Outs, NEW r \in OutputTables, Shape(r), NEW k \in Slots, r.obj[k].queued > 0, FreeHandles(r) # {}
    PROVE  RecreatedTable(r, k, Recreated(r, o, k)) /\ RecreatedControl(r, o, k, Recreated(r, o, k))
<1> DEFINE n == [r EXCEPT !.obj[k].queued = @ - 1]
           x == [r.obj[k] EXCEPT !.queued = r.obj[k].queued - 1]
           p == Destroyed(n, n.obj[k].ctl)
           c == Least(FreeHandles(p))
           v == IF o \in plugged THEN [st |-> "holds", ev |-> "size"] ELSE Refused
           g == Granted(p, o, c)
           y == [g.obj[k] EXCEPT !.ctl = c, !.failed = FALSE]
           m == [g EXCEPT !.obj[k].ctl = c, !.obj[k].failed = FALSE]
           again == o \in available /\ r.tracked # 0 /\ gammaEnabled /\ controlsInitialized /\ r.obj[k].retry < MaxRetries
<1>1. /\ n \in OutputTables /\ n.tracked = r.tracked /\ n.ctl = r.ctl /\ n.shown = r.shown
      /\ n.obj[k] = x /\ \A j \in Slots : j # k => n.obj[j] = r.obj[j]
    BY DoneFacts
<1>2. /\ x \in Objects /\ x.ctl = r.obj[k].ctl /\ x.ready = r.obj[k].ready /\ x.failed = r.obj[k].failed
      /\ x.retry = r.obj[k].retry /\ x.last = r.obj[k].last /\ x.timers = r.obj[k].timers
      /\ x.queued = r.obj[k].queued - 1 /\ x.ctl \in Handles \cup {0}
    <2>1. r.obj[k] \in Objects
        BY TableParts
    <2>2. x \in Objects /\ x.ctl \in Handles \cup {0}
        BY <1>1, TableParts, ObjectParts
    <2> QED BY <2>1, <2>2 DEF Objects
<1>3. r.tracked # 0 => k = r.tracked
    BY DEF Shape, Inert
<1>4. Recreated(r, o, k) = IF again THEN Tidy(m) ELSE Tidy(n)
    BY DEF Recreated
<1> HIDE DEF n, x
<1>5. Shape(n)
    BY <1>1, <1>2, <1>3, ShapeKept
<1>6. CASE ~again
    <2> DEFINE t == Tidy(n)
    <2>1. /\ t \in OutputTables /\ t.tracked = r.tracked /\ t.ctl = r.ctl /\ t.shown = r.shown
          /\ \A j \in Slots : /\ t.obj[j] \in {n.obj[j], Blank} /\ (j = r.tracked => t.obj[j] = n.obj[j])
                              /\ t.obj[j].timers = n.obj[j].timers /\ t.obj[j].queued = n.obj[j].queued
                              /\ (j # n.tracked /\ n.obj[j].timers = 0 /\ n.obj[j].queued = 0 => t.obj[j] = Blank)
        BY <1>1, Tidied
    <2> HIDE DEF t
    <2>2. \A j \in Slots : /\ t.obj[j].timers = r.obj[j].timers /\ t.obj[j].retry \in {0, r.obj[j].retry}
                           /\ t.obj[j].queued = IF j = k THEN r.obj[k].queued - 1 ELSE r.obj[j].queued
        BY <1>1, <1>2, <2>1, BlankObject
    <2>3. Shape(t)
        BY <1>1, <1>5, <2>1, BlankObject DEF Shape, Inert
    <2> QED BY <1>1, <1>3, <1>4, <1>6, <2>1, <2>2, <2>3 DEF t, x, RecreatedTable, RecreatedControl
<1>7. CASE again
    <2>1. k = r.tracked /\ r.obj[k].retry < MaxRetries
        BY <1>3, <1>7
    <2>2. /\ p \in OutputTables /\ p.tracked = k /\ p.obj = n.obj
          /\ \A h \in Handles : p.ctl[h] = IF h = x.ctl THEN NoControl ELSE r.ctl[h]
          /\ p.shown = IF x.ctl # 0 /\ r.ctl[x.ctl].st = "holds" THEN Plain ELSE r.shown
        BY <1>1, <1>2, <2>1, DestroyedFacts
    <2> HIDE DEF p
    <2>3. \A h \in Handles : p.ctl[h].st = "none"
        BY <1>2, <2>1, <2>2 DEF Shape, NoControl
    <2>4. c \in Handles
        <3>1. FreeHandles(r) \subseteq FreeHandles(p)
            BY <2>2 DEF FreeHandles, NoControl
        <3> QED BY <3>1, LeastOfSome DEF FreeHandles, Handles
    <2>5. g \in OutputTables /\ v \in Controls /\ g.tracked = k /\ g.obj = n.obj /\ g.ctl = [p.ctl EXCEPT ![c] = v] /\ g.shown = p.shown
        <3>1. ~Holds(p)
            BY <2>3 DEF Holds
        <3> QED BY <2>2, <2>4, <3>1, GrantedFacts
    <2> HIDE DEF g, v, c
    <2>6. /\ y \in Objects /\ y.ctl = c /\ ~y.failed /\ y.ready = x.ready /\ y.last = x.last /\ y.retry = x.retry
          /\ y.timers = x.timers /\ y.queued = x.queued
        <3>1. g.obj[k] = x /\ x \in Objects
            BY <1>1, <1>2, <2>5
        <3> QED BY <2>4, <3>1 DEF Objects
    <2>7. m \in OutputTables /\ m.tracked = g.tracked /\ m.obj = [g.obj EXCEPT ![k] = y] /\ m.ctl = g.ctl /\ m.shown = g.shown
        BY <2>5, <2>6 DEF OutputTables
    <2> HIDE DEF m, y
    <2> DEFINE t == Tidy(m)
    <2>8. /\ t \in OutputTables /\ t.tracked = k /\ t.ctl = [p.ctl EXCEPT ![c] = v] /\ t.shown = p.shown /\ t.obj[k] = y
          /\ \A j \in Slots : j # k => t.obj[j] \in {n.obj[j], Blank} /\ (Inert(r.obj[j]) => t.obj[j] = Blank)
        <3>1. m.obj[k] = y /\ \A j \in Slots : j # k => m.obj[j] = r.obj[j]
            BY <1>1, <2>5, <2>7, TableParts
        <3>2. /\ t \in OutputTables /\ t.tracked = k /\ t.ctl = [p.ctl EXCEPT ![c] = v] /\ t.shown = p.shown
              /\ \A j \in Slots : /\ t.obj[j] \in {m.obj[j], Blank} /\ (j = k => t.obj[j] = m.obj[j])
                                  /\ (j # k /\ m.obj[j].timers = 0 /\ m.obj[j].queued = 0 => t.obj[j] = Blank)
            <4>1. m \in OutputTables /\ m.tracked = k /\ m.ctl = [p.ctl EXCEPT ![c] = v] /\ m.shown = p.shown
                BY <2>5, <2>7
            <4> HIDE DEF t
            <4> QED BY <4>1, Tidied DEF t
        <3> QED BY <1>1, <3>1, <3>2 DEF Inert
    <2> HIDE DEF t
    <2>9. \A j \in Slots : j # k => Inert(r.obj[j]) /\ t.obj[j] = Blank
        BY <2>1, <2>8 DEF Shape, Slots
    <2>10. \A j \in Slots : /\ t.obj[j].timers = r.obj[j].timers /\ t.obj[j].retry \in {0, r.obj[j].retry}
                            /\ t.obj[j].queued = IF j = k THEN r.obj[k].queued - 1 ELSE r.obj[j].queued
        BY <1>2, <2>6, <2>8, <2>9, BlankObject DEF Inert
    <2>11. t.ctl[c] = v /\ v.st # "none" /\ \A h \in Handles : h # c => t.ctl[h].st = "none"
        BY <2>2, <2>3, <2>4, <2>8, TableParts DEF v, Refused
    <2>12. Shape(t)
        <3>1. t.tracked = k /\ k # 0 /\ t.obj[k].ctl = c
            BY <2>6, <2>8 DEF Slots
        <3>2. \A j \in Slots : j # k => t.obj[j].ctl = 0 /\ Inert(t.obj[j])
            BY <2>9, BlankObject DEF Inert
        <3> QED BY <2>11, <3>1, <3>2 DEF Shape
    <2>13. t.shown = IF Holds(r) THEN Plain ELSE r.shown
        <3>1. Holds(r) <=> x.ctl # 0 /\ r.ctl[x.ctl].st = "holds"
            BY <1>2, <2>1 DEF Holds, Shape, Handles
        <3> QED BY <2>2, <2>8, <3>1
    <2> QED BY <1>2, <1>4, <1>7, <2>1, <2>4, <2>6, <2>8, <2>10, <2>11, <2>12, <2>13 DEF t, v, RecreatedTable, RecreatedControl
<1> QED BY <1>6, <1>7

\* What writing a level, or failing to, and forgetting the last one written have in common.
Rewrites(r, t) ==
    /\ t \in OutputTables /\ t.tracked = r.tracked /\ t.ctl = r.ctl
    /\ \A k \in Slots : k # r.tracked => t.obj[k] = r.obj[k]
    /\ r.tracked # 0 => LET x == r.obj[r.tracked]
                            y == t.obj[r.tracked]
                        IN  y.ctl = x.ctl /\ y.retry = x.retry /\ Waits(y, x)

LEMMA AppliedFacts ==
    ASSUME NEW o \in Outs, NEW r \in OutputTables, level \in Levels, NEW bad
    PROVE  LET t == AppliedOutput(r, o, bad)
               x == r.obj[r.tracked]
               y == t.obj[r.tracked]
           IN  /\ Rewrites(r, t) /\ (~CanApply(r, o) => t = r)
               /\ CanApply(r, o) /\ o \in bad =>
                      y.failed /\ ~y.ready /\ y.last = Plain /\ t.shown = r.shown
               /\ CanApply(r, o) /\ o \notin bad =>
                      /\ ~y.failed /\ y.ready /\ y.last = level
                      /\ t.shown = IF r.ctl[x.ctl].st = "holds" THEN level ELSE r.shown
<1>1. CASE ~CanApply(r, o)
    BY <1>1 DEF AppliedOutput, Rewrites, Waits
<1> DEFINE k == r.tracked
           x == r.obj[k]
<1>2. CanApply(r, o) => k \in Slots /\ k # 0 /\ x \in Objects /\ x.ctl \in Handles /\ ~x.failed /\ x.ready
    BY TableParts, ObjectParts DEF CanApply
<1>3. CASE CanApply(r, o) /\ o \in bad
    <2> DEFINE y == [x EXCEPT !.failed = TRUE, !.ready = FALSE, !.last = Plain]
               t == [r EXCEPT !.obj[k] = y]
    <2>1. AppliedOutput(r, o, bad) = t
        BY <1>3 DEF AppliedOutput
    <2>2. /\ y \in Objects /\ y.ctl = x.ctl /\ y.retry = x.retry /\ Waits(y, x)
          /\ y.failed /\ ~y.ready /\ y.last = Plain
        <3> HIDE DEF x
        <3> QED BY <1>2, <1>3 DEF Objects, Waits
    <2> HIDE DEF y
    <2>3. t \in OutputTables /\ t.tracked = r.tracked /\ t.obj = [r.obj EXCEPT ![k] = y] /\ t.ctl = r.ctl /\ t.shown = r.shown
        BY <1>2, <1>3, <2>2 DEF OutputTables
    <2> HIDE DEF t
    <2>4. t.obj[k] = y /\ \A j \in Slots : j # k => t.obj[j] = r.obj[j]
        BY <1>2, <1>3, <2>3, TableParts
    <2> QED BY <1>3, <2>1, <2>2, <2>3, <2>4 DEF Rewrites
<1>4. CASE CanApply(r, o) /\ o \notin bad
    <2> DEFINE y == [x EXCEPT !.last = level]
               s == IF r.ctl[x.ctl].st = "holds" THEN level ELSE r.shown
               t == [r EXCEPT !.obj[k].last = level, !.shown = s]
    <2>1. AppliedOutput(r, o, bad) = t
        BY <1>4 DEF AppliedOutput
    <2>2. /\ y \in Objects /\ y.ctl = x.ctl /\ y.retry = x.retry /\ Waits(y, x)
          /\ y.failed = x.failed /\ y.ready = x.ready /\ y.last = level
        <3> HIDE DEF x
        <3> QED BY <1>2, <1>4 DEF Objects, Waits
    <2>3. s \in Levels \cup {Plain}
        BY TableParts
    <2> HIDE DEF s
    <2>4. t \in OutputTables /\ t.tracked = r.tracked /\ t.obj = [r.obj EXCEPT ![k] = y] /\ t.ctl = r.ctl /\ t.shown = s
        BY <1>2, <1>4, <2>2, <2>3 DEF OutputTables
    <2> HIDE DEF y, t
    <2>5. t.obj[k] = y /\ \A j \in Slots : j # k => t.obj[j] = r.obj[j]
        BY <1>2, <1>4, <2>4, TableParts
    <2> QED BY <1>2, <1>4, <2>1, <2>2, <2>4, <2>5 DEF Rewrites, s
<1> QED BY <1>1, <1>3, <1>4

LEMMA ForgottenFacts ==
    ASSUME NEW r \in OutputTables
    PROVE  LET t == Forgotten(r)
               x == r.obj[r.tracked]
               y == t.obj[r.tracked]
           IN  /\ Rewrites(r, t) /\ t.shown = r.shown
               /\ r.tracked # 0 => y.failed = x.failed /\ y.ready = x.ready /\ y.last = Plain
               /\ r.tracked = 0 => t = r
<1>1. CASE r.tracked = 0
    BY <1>1 DEF Forgotten, Rewrites
<1>2. CASE r.tracked # 0
    <2> DEFINE k == r.tracked
               x == r.obj[k]
               y == [x EXCEPT !.last = Plain]
               t == [r EXCEPT !.obj[k].last = Plain]
    <2>1. k \in Slots /\ x \in Objects
        BY <1>2, TableParts
    <2>2. /\ y \in Objects /\ y.ctl = x.ctl /\ y.retry = x.retry /\ Waits(y, x)
          /\ y.failed = x.failed /\ y.ready = x.ready /\ y.last = Plain
        <3> HIDE DEF x
        <3> QED BY <2>1 DEF Objects, Waits
    <2>3. Forgotten(r) = t
        BY <1>2 DEF Forgotten
    <2>4. t \in OutputTables /\ t.tracked = r.tracked /\ t.obj = [r.obj EXCEPT ![k] = y] /\ t.ctl = r.ctl /\ t.shown = r.shown
        BY <2>1, <2>2 DEF OutputTables
    <2> HIDE DEF y, t
    <2>5. t.obj[k] = y /\ \A j \in Slots : j # k => t.obj[j] = r.obj[j]
        BY <2>1, <2>4, TableParts
    <2> QED BY <1>2, <2>2, <2>3, <2>4, <2>5 DEF Rewrites
<1> QED BY <1>1, <1>2

LEMMA RewritesShape ==
    ASSUME NEW r \in OutputTables, Shape(r), NEW t, Rewrites(r, t)
    PROVE  /\ Shape(t) /\ (Vacant(r) => Vacant(t)) /\ \A k \in Slots : Waits(t.obj[k], r.obj[k]) /\ t.obj[k].retry = r.obj[k].retry
           /\ r.tracked # 0 => t.obj[r.tracked].ctl = r.obj[r.tracked].ctl
<1>1. \A k \in Slots : Waits(t.obj[k], r.obj[k]) /\ t.obj[k].ctl = r.obj[k].ctl /\ t.obj[k].retry = r.obj[k].retry
    BY DEF Rewrites, Waits, Slots
<1>2. t \in OutputTables /\ t.tracked = r.tracked /\ t.ctl = r.ctl /\ \A k \in Slots : k # r.tracked => t.obj[k] = r.obj[k]
    BY DEF Rewrites
<1>3. Shape(t)
    BY <1>1, <1>2, ShapeKept
<1>4. Vacant(r) => Vacant(t)
    BY <1>1, <1>2 DEF Vacant, Inert, Waits
<1> QED BY <1>1, <1>3, <1>4 DEF Rewrites

LEMMA HeardFacts ==
    ASSUME NEW r \in OutputTables, NEW c \in Handles
    PROVE  LET t == [r EXCEPT !.ctl[c].ev = "none"]
           IN  /\ t \in OutputTables /\ t.tracked = r.tracked /\ t.obj = r.obj /\ t.shown = r.shown
               /\ \A h \in Handles : t.ctl[h] = IF h = c THEN [st |-> r.ctl[c].st, ev |-> "none"] ELSE r.ctl[h]
<1> DEFINE v == [st |-> r.ctl[c].st, ev |-> "none"]
           t == [r EXCEPT !.ctl[c].ev = "none"]
<1>1. r.ctl[c] \in Controls
    BY TableParts
<1>2. v \in Controls /\ [r.ctl[c] EXCEPT !.ev = "none"] = v
    BY <1>1 DEF Controls
<1>3. t \in OutputTables /\ t.tracked = r.tracked /\ t.obj = r.obj /\ t.ctl = [r.ctl EXCEPT ![c] = v] /\ t.shown = r.shown
    <2>1. t = [r EXCEPT !.ctl[c] = [r.ctl[c] EXCEPT !.ev = "none"]]
        OBVIOUS
    <2>2. t = [r EXCEPT !.ctl[c] = v]
        BY <1>2, <2>1
    <2> HIDE DEF v, t
    <2> QED BY <1>2, <2>2 DEF OutputTables
<1> HIDE DEF t
<1>4. \A h \in Handles : t.ctl[h] = IF h = c THEN v ELSE r.ctl[h]
    BY <1>3, TableParts
<1> QED BY <1>3, <1>4 DEF t

LEMMA VoidedFacts ==
    ASSUME NEW r \in OutputTables, NEW c \in Handles
    PROVE  LET t == Voided(r, c)
           IN  /\ t \in OutputTables /\ t.tracked = r.tracked /\ t.obj = r.obj /\ t.shown = Plain
               /\ \A h \in Handles : t.ctl[h] = IF h = c THEN Refused ELSE r.ctl[h]
<1> DEFINE t == [r EXCEPT !.ctl[c] = Refused, !.shown = Plain]
<1>1. Refused \in Controls
    BY DEF Refused, Controls
<1>2. Voided(r, c) = t
    BY DEF Voided, Refused
<1>3. t \in OutputTables /\ t.tracked = r.tracked /\ t.obj = r.obj /\ t.ctl = [r.ctl EXCEPT ![c] = Refused] /\ t.shown = Plain
    BY <1>1 DEF OutputTables
<1> HIDE DEF t
<1>4. \A h \in Handles : t.ctl[h] = IF h = c THEN Refused ELSE r.ctl[h]
    BY <1>3, TableParts
<1> QED BY <1>2, <1>3, <1>4

LEMMA LostFacts ==
    ASSUME NEW r \in OutputTables
    PROVE  LET t == [r EXCEPT !.shown = Plain]
           IN  t \in OutputTables /\ t.tracked = r.tracked /\ t.obj = r.obj /\ t.ctl = r.ctl /\ t.shown = Plain
BY DEF OutputTables

-----------------------------------------------------------------------------
(* What taking and posting a command changes of what is due.               *)

StructuralDo == {"setup", "teardown", "add", "removed"}
OtherDo == {"startup", "size", "failed", "recreate", "apply", "resume"}

LEMMA CommandKinds ==
    ASSUME NEW c \in Closures
    PROVE  /\ c.do \in StructuralDo \cup OtherDo
           /\ c \in Structural <=> c.do \in StructuralDo
           /\ c \in SetUps <=> c.do = "setup"
           /\ c.do \in {"add", "removed", "size", "failed"} => c.out \in Outs
           /\ c.do = "recreate" => c.out \in Outs /\ c.obj \in Slots
           /\ \A o : /\ c \in Adds(o) <=> c.do = "add" /\ c.out = o
                     /\ c \in Sizes(o) <=> c.do = "size" /\ c.out = o
                     /\ c \in Failures(o) <=> c.do = "failed" /\ c.out = o
                     /\ c \in Removals(o) <=> c.do = "removed" /\ c.out = o
                     /\ \A k : c \in Recreates(o, k) <=> c.do = "recreate" /\ c.out = o /\ c.obj = k
           /\ \A s : c \in Doing(s) <=> c.do = s
<1>1. c.do \in StructuralDo \cup OtherDo
    BY DEF Closures, StructuralDo, OtherDo
<1>2. c.do \in {"add", "removed", "size", "failed"} => c.out \in Outs
    BY DEF Closures
<1>3. c.do = "recreate" => c.out \in Outs /\ c.obj \in Slots
    BY DEF Closures
<1> QED BY <1>1, <1>2, <1>3 DEF Structural, StructuralDo, SetUps, Adds, Sizes, Failures, Removals, Recreates, Doing

LEMMA CommandsMade ==
    /\ \A d \in {"startup", "setup", "teardown", "apply", "resume"} : Simple(d) \in Closures /\ Simple(d).do = d
    /\ \A d \in {"add", "removed", "size", "failed"}, o \in Outs :
          Cmd(d, o, 0) \in Closures /\ Cmd(d, o, 0).do = d /\ Cmd(d, o, 0).out = o
    /\ \A o \in Outs, k \in Slots :
          /\ Cmd("recreate", o, k) \in Closures /\ Cmd("recreate", o, k).do = "recreate"
          /\ Cmd("recreate", o, k).out = o /\ Cmd("recreate", o, k).obj = k
BY DEF Simple, Cmd, Closures

LEMMA Counted ==
    ASSUME NEW q \in Seq(Closures)
    PROVE  /\ HowMany(q, Structural) \in Nat /\ HowMany(q, SetUps) \in Nat
           /\ HowMany(q, SetUps) <= HowMany(q, Structural)
           /\ \A o : HowMany(q, Adds(o)) \in Nat /\ HowMany(q, Adds(o)) <= HowMany(q, Structural)
           /\ \A o : HowMany(q, Sizes(o)) \in Nat /\ HowMany(q, Failures(o)) \in Nat
           /\ \A o, k : HowMany(q, Recreates(o, k)) \in Nat
<1>1. SetUps \subseteq Structural /\ \A o : Adds(o) \subseteq Structural
    BY DEF SetUps, Adds, Structural
<1> QED BY <1>1, HowManyNat, HowManyLess

LEMMA StructuralTaken ==
    ASSUME GammaSound, NEW do \in StructuralDo, TakeCmd(do), ActorIdle
    PROVE  /\ cmdq' \in Seq(Closures) /\ Len(cmdq') <= CmdCap /\ Head(cmdq) \in Closures /\ Head(cmdq).do = do
           /\ OneAtATime' /\ ~SetupDue' /\ \A o : ~AddDue(o)'
           /\ \A o, k : HowMany(cmdq', Recreates(o, k)) = HowMany(cmdq, Recreates(o, k))
           /\ caller # "decide" /\ watcher = {}
           /\ Head(cmdq) \in SetUps => SetupDue
           /\ \A o : Head(cmdq) \in Adds(o) => AddDue(o)
<1>1. /\ cmdq' \in Seq(Closures) /\ Len(cmdq') <= CmdCap /\ Head(cmdq) \in Closures /\ Head(cmdq).do = do
      /\ \A S : /\ HowMany(cmdq, S) \in Nat /\ HowMany(cmdq', S) \in Nat
                /\ HowMany(cmdq, S) = HowMany(cmdq', S) + (IF Head(cmdq) \in S THEN 1 ELSE 0)
    BY Takes DEF GammaSound
<1>2. Head(cmdq) \in Structural /\ \A o, k : Head(cmdq) \notin Recreates(o, k)
    BY <1>1, CommandKinds DEF StructuralDo
<1>3. HowMany(cmdq', Structural) = 0 /\ HowMany(cmdq, Structural) > 0
    BY <1>1, <1>2 DEF GammaSound, OneAtATime
<1>4. caller # "decide" /\ watcher = {} /\ caller' = caller /\ watcher' = watcher
    BY <1>3 DEF GammaSound, OneAtATime, ActorIdle
<1>5. HowMany(cmdq', SetUps) = 0 /\ \A o : HowMany(cmdq', Adds(o)) = 0
    BY <1>1, <1>3, Counted
<1>6. OneAtATime'
    BY <1>3, <1>4 DEF OneAtATime
<1>7. ~SetupDue' /\ \A o : ~AddDue(o)'
    BY <1>4, <1>5 DEF SetupDue, AddDue
<1>8. Head(cmdq) \in SetUps => SetupDue
    BY <1>1 DEF SetupDue
<1>9. \A o : Head(cmdq) \in Adds(o) => AddDue(o)
    BY <1>1 DEF AddDue
<1>10. \A o, k : HowMany(cmdq', Recreates(o, k)) = HowMany(cmdq, Recreates(o, k))
    BY <1>1, <1>2
<1> QED BY <1>1, <1>4, <1>6, <1>7, <1>8, <1>9, <1>10

\* What is due does not depend on the other commands.
LEMMA SameDue ==
    ASSUME GammaSound, UNCHANGED <<gammaEnabled, controlsInitialized, caller, watcher>>,
           cmdq' \in Seq(Closures),
           \A S : S \in {Structural, SetUps} \/ (\E o : S = Adds(o)) => HowMany(cmdq', S) = HowMany(cmdq, S)
    PROVE  OneAtATime' /\ (SetupDue' <=> SetupDue) /\ \A o : AddDue(o)' <=> AddDue(o)
<1>1. /\ HowMany(cmdq', Structural) = HowMany(cmdq, Structural) /\ HowMany(cmdq', SetUps) = HowMany(cmdq, SetUps)
      /\ \A o : HowMany(cmdq', Adds(o)) = HowMany(cmdq, Adds(o))
    OBVIOUS
<1>2. OneAtATime'
    BY <1>1 DEF GammaSound, OneAtATime
<1>3. SetupDue' <=> SetupDue
    BY <1>1 DEF SetupDue
<1>4. \A o : AddDue(o)' <=> AddDue(o)
    BY <1>1 DEF AddDue
<1> QED BY <1>2, <1>3, <1>4

LEMMA OtherTaken ==
    ASSUME GammaSound, NEW do \in OtherDo, TakeCmd(do), ActorIdle, UNCHANGED controlsInitialized
    PROVE  /\ cmdq' \in Seq(Closures) /\ Len(cmdq') <= CmdCap /\ Head(cmdq) \in Closures /\ Head(cmdq).do = do
           /\ OneAtATime' /\ (SetupDue' <=> SetupDue) /\ \A o : AddDue(o)' <=> AddDue(o)
           /\ \A S : /\ HowMany(cmdq, S) \in Nat /\ HowMany(cmdq', S) \in Nat
                     /\ HowMany(cmdq, S) = HowMany(cmdq', S) + (IF Head(cmdq) \in S THEN 1 ELSE 0)
           /\ UNCHANGED <<gammaEnabled, level, plugged, scheduler, caller, watcher, resumeTimer, seen>>
<1>1. /\ cmdq' \in Seq(Closures) /\ Len(cmdq') <= CmdCap /\ Head(cmdq) \in Closures /\ Head(cmdq).do = do
      /\ \A S : /\ HowMany(cmdq, S) \in Nat /\ HowMany(cmdq', S) \in Nat
                /\ HowMany(cmdq, S) = HowMany(cmdq', S) + (IF Head(cmdq) \in S THEN 1 ELSE 0)
    BY Takes DEF GammaSound
<1>2. Head(cmdq) \notin Structural /\ Head(cmdq) \notin SetUps /\ \A o : Head(cmdq) \notin Adds(o)
    BY <1>1, CommandKinds DEF StructuralDo, OtherDo
<1>3. \A S : S \in {Structural, SetUps} \/ (\E o : S = Adds(o)) => HowMany(cmdq', S) = HowMany(cmdq, S)
    BY <1>1, <1>2
<1>4. UNCHANGED <<gammaEnabled, level, plugged, scheduler, caller, watcher, resumeTimer, seen>>
    BY DEF ActorIdle
<1>5. OneAtATime' /\ (SetupDue' <=> SetupDue) /\ \A o : AddDue(o)' <=> AddDue(o)
    BY <1>1, <1>3, <1>4, SameDue
<1> QED BY <1>1, <1>4, <1>5

LEMMA OtherPosted ==
    ASSUME GammaSound, NEW c \in Closures, c.do \in OtherDo, cmdq' = Posted(cmdq, c),
           UNCHANGED <<gammaEnabled, controlsInitialized, caller, watcher>>
    PROVE  /\ cmdq' \in Seq(Closures) /\ Len(cmdq') <= CmdCap
           /\ OneAtATime' /\ (SetupDue' <=> SetupDue) /\ \A o : AddDue(o)' <=> AddDue(o)
           /\ \A S : /\ HowMany(cmdq, S) \in Nat /\ HowMany(cmdq', S) \in Nat
                     /\ c \notin S => HowMany(cmdq', S) = HowMany(cmdq, S)
                     /\ cmdq' # cmdq => HowMany(cmdq', S) = HowMany(cmdq, S) + (IF c \in S THEN 1 ELSE 0)
<1>1. /\ cmdq' \in Seq(Closures) /\ Len(cmdq') <= CmdCap
      /\ \A S : /\ HowMany(cmdq, S) \in Nat /\ HowMany(cmdq', S) \in Nat
                /\ HowMany(cmdq', S) <= HowMany(cmdq, S) + (IF c \in S THEN 1 ELSE 0)
                /\ HowMany(cmdq', S) >= HowMany(cmdq, S)
                /\ cmdq' # cmdq => HowMany(cmdq', S) = HowMany(cmdq, S) + (IF c \in S THEN 1 ELSE 0)
    BY Posts DEF GammaSound
<1>2. c \notin Structural /\ c \notin SetUps /\ \A o : c \notin Adds(o)
    BY CommandKinds DEF StructuralDo, OtherDo
<1>3. \A S : c \notin S => HowMany(cmdq', S) = HowMany(cmdq, S)
    BY <1>1
<1>4. \A S : S \in {Structural, SetUps} \/ (\E o : S = Adds(o)) => HowMany(cmdq', S) = HowMany(cmdq, S)
    BY <1>2, <1>3
<1>5. OneAtATime' /\ (SetupDue' <=> SetupDue) /\ \A o : AddDue(o)' <=> AddDue(o)
    BY <1>1, <1>4, SameDue
<1> QED BY <1>1, <1>3, <1>5

-----------------------------------------------------------------------------
(* The invariant of the objects, the controls and the queue.               *)

LEMMA OutputKept ==
    ASSUME NEW o \in Outs, OutputSound(o),
           Shape(dev'[o]), dev'[o].tracked = dev[o].tracked, Vacant(dev[o]) => Vacant(dev'[o]),
           \A k \in Slots : dev'[o].obj[k].queued = HowMany(cmdq', Recreates(o, k)),
           SetupDue' \/ AddDue(o)' => /\ SetupDue \/ AddDue(o)
                                      /\ HowMany(cmdq', Sizes(o)) = 0 /\ HowMany(cmdq', Failures(o)) = 0,
           AddDue(o)' => AddDue(o), o \in seen => o \in seen', controlsInitialized => controlsInitialized'
    PROVE  OutputSound(o)'
BY DEF OutputSound

LEMMA UntouchedOutput == Untouched \in OutputTables /\ Vacant(Untouched) /\ Shape(Untouched)
<1>1. Blank \in Objects /\ Inert(Blank) /\ Blank.ctl = 0 /\ NoControl \in Controls /\ NoControl.st = "none"
    BY BlankObject DEF Inert, Controls, NoControl
<1>2. Untouched \in OutputTables
    BY <1>1 DEF Untouched, OutputTables
<1>3. /\ Untouched.tracked = 0 /\ \A k \in Slots : Untouched.obj[k] = Blank
      /\ \A c \in Handles : Untouched.ctl[c] = NoControl
    BY DEF Untouched
<1> QED BY <1>1, <1>2, <1>3 DEF Vacant, Shape

LEMMA FirstQueue ==
    ASSUME NEW a \in Closures, NEW b \in Closures, NEW c \in Closures, NEW S
    PROVE  <<a, b, c>> \in Seq(Closures) /\ Len(<<a, b, c>>) = 3
              /\ HowMany(<<a, b, c>>, S) = (IF a \in S THEN 1 ELSE 0) + (IF b \in S THEN 1 ELSE 0)
                                              + (IF c \in S THEN 1 ELSE 0)
<1> DEFINE p == Append(<<>>, a)
           q == Append(p, b)
<1>1. <<a, b, c>> = Append(q, c) /\ p \in Seq(Closures) /\ q \in Seq(Closures) /\ <<>> \in Seq(Closures)
    OBVIOUS
<1>2. HowMany(p, S) = IF a \in S THEN 1 ELSE 0
    <2>1. HowMany(<<>>, S) = 0
        BY NothingQueued, Zenon
    <2>2. HowMany(p, S) = HowMany(<<>>, S) + (IF a \in S THEN 1 ELSE 0)
        BY <1>1, HowManyAppend
    <2> QED BY <2>1, <2>2
<1>3. HowMany(q, S) = HowMany(p, S) + (IF b \in S THEN 1 ELSE 0)
    BY <1>1, HowManyAppend
<1>4. HowMany(Append(q, c), S) = HowMany(q, S) + (IF c \in S THEN 1 ELSE 0)
    BY <1>1, HowManyAppend
<1>5. <<a, b, c>> \in Seq(Closures) /\ Len(<<a, b, c>>) = 3
    OBVIOUS
<1> HIDE DEF p, q
<1>6. HowMany(<<a, b, c>>, S) = HowMany(Append(q, c), S)
    BY <1>1
<1> QED BY <1>2, <1>3, <1>4, <1>5, <1>6

\* The first queue, of a light that starts enabled or not.
LEMMA QueueAtStart ==
    ASSUME GammaInit
    PROVE  \E o \in Outs :
               /\ available = {o} /\ plugged = {o} /\ seen = {o}
               /\ cmdq \in Seq(Closures) /\ Len(cmdq) <= CmdCap
               /\ \A s : s \notin {"add", "startup", "apply"} => HowMany(cmdq, Doing(s)) = 0
               /\ HowMany(cmdq, Structural) = (IF gammaEnabled THEN 1 ELSE 0) /\ HowMany(cmdq, SetUps) = 0
               /\ HowMany(cmdq, Adds(o)) = (IF gammaEnabled THEN 1 ELSE 0)
               /\ \A p : /\ (p # o => HowMany(cmdq, Adds(p)) = 0) /\ HowMany(cmdq, Sizes(p)) = 0
                         /\ HowMany(cmdq, Failures(p)) = 0 /\ HowMany(cmdq, Removals(p)) = 0
               /\ \A p, k : HowMany(cmdq, Recreates(p, k)) = 0
               /\ gammaEnabled => cmdq[1].do = "add"
               /\ \A p : SizesFirst(cmdq, p)
<1> DEFINE o == CHOOSE p \in Outs : TRUE
           d == Cmd("add", o, 0)
           s == Simple("startup")
           a == Simple("apply")
<1>1. o \in Outs
    BY GammaAssumption
<1>2. available = {o} /\ plugged = {o} /\ seen = {o} /\ gammaEnabled \in BOOLEAN
    BY DEF GammaInit
<1>3. cmdq \in IF gammaEnabled THEN {<<d, s, a>>, <<d, a, s>>} ELSE {<<>>}
    BY DEF GammaInit
<1> HIDE DEF o
<1>4. /\ s \in Closures /\ a \in Closures /\ d \in Closures
      /\ s.do = "startup" /\ a.do = "apply" /\ d.do = "add" /\ d.out = o
    BY <1>1, CommandsMade
<1> HIDE DEF d, s, a
<1>5. /\ a \notin Structural /\ s \notin Structural /\ d \in Structural
      /\ a \notin SetUps /\ s \notin SetUps /\ d \notin SetUps /\ d \in Adds(o)
      /\ \A p : /\ s \notin Adds(p) /\ a \notin Adds(p) /\ (d \in Adds(p) <=> p = o)
                /\ \A c \in {s, a, d} : c \notin Sizes(p) /\ c \notin Failures(p) /\ c \notin Removals(p)
      /\ \A p, k : \A c \in {s, a, d} : c \notin Recreates(p, k)
      /\ \A do : do \notin {"add", "startup", "apply"} => \A c \in {s, a, d} : c \notin Doing(do)
    BY <1>4, CommandKinds DEF StructuralDo
<1>6. CmdCap \in Nat /\ 3 <= CmdCap
    BY GammaAssumption
<1>7. CASE ~gammaEnabled
    <2>1. cmdq = <<>>
        BY <1>3, <1>7
    <2>2. \A S : HowMany(cmdq, S) = 0
        BY <2>1, NothingQueued, Zenon
    <2>3. cmdq \in Seq(Closures) /\ Len(cmdq) = 0
        BY <2>1
    <2>4. \A p : SizesFirst(cmdq, p)
        BY <2>3 DEF SizesFirst
    <2> QED BY <1>1, <1>2, <1>6, <1>7, <2>2, <2>3, <2>4
<1>8. ASSUME gammaEnabled, NEW b \in {s, a}, NEW c \in {s, a}, cmdq = <<d, b, c>>
      PROVE  /\ cmdq \in Seq(Closures) /\ Len(cmdq) <= CmdCap /\ cmdq[1].do = "add"
             /\ \A S : HowMany(cmdq, S) = (IF d \in S THEN 1 ELSE 0) + (IF b \in S THEN 1 ELSE 0)
                                              + (IF c \in S THEN 1 ELSE 0)
             /\ \A p : SizesFirst(cmdq, p)
    <2>1. \A S : HowMany(cmdq, S) = (IF d \in S THEN 1 ELSE 0) + (IF b \in S THEN 1 ELSE 0)
                                       + (IF c \in S THEN 1 ELSE 0)
        BY <1>4, <1>8, FirstQueue
    <2>2. cmdq \in Seq(Closures) /\ Len(cmdq) = 3 /\ cmdq[1] = d /\ \A i \in 1..3 : cmdq[i] \in {s, a, d}
        BY <1>4, <1>8
    <2>3. \A p : SizesFirst(cmdq, p)
        BY <1>5, <2>2 DEF SizesFirst
    <2> QED BY <1>4, <1>6, <2>1, <2>2, <2>3
<1>9. CASE gammaEnabled
    <2>1. PICK b \in {s, a}, c \in {s, a} : cmdq = <<d, b, c>>
        BY <1>3, <1>9
    <2>2. /\ cmdq \in Seq(Closures) /\ Len(cmdq) <= CmdCap /\ cmdq[1].do = "add"
          /\ \A S : HowMany(cmdq, S) = (IF d \in S THEN 1 ELSE 0) + (IF b \in S THEN 1 ELSE 0)
                                           + (IF c \in S THEN 1 ELSE 0)
          /\ \A p : SizesFirst(cmdq, p)
        BY <1>8, <1>9, <2>1
    <2>3. \A S : b \notin S /\ c \notin S => HowMany(cmdq, S) = IF d \in S THEN 1 ELSE 0
        BY <2>2
    <2>4. HowMany(cmdq, Structural) = 1 /\ HowMany(cmdq, SetUps) = 0 /\ HowMany(cmdq, Adds(o)) = 1
        BY <1>5, <2>3
    <2>5. \A p : /\ (p # o => HowMany(cmdq, Adds(p)) = 0) /\ HowMany(cmdq, Sizes(p)) = 0
                 /\ HowMany(cmdq, Failures(p)) = 0 /\ HowMany(cmdq, Removals(p)) = 0
        BY <1>5, <2>3
    <2>6. /\ \A p, k : HowMany(cmdq, Recreates(p, k)) = 0
          /\ \A do : do \notin {"add", "startup", "apply"} => HowMany(cmdq, Doing(do)) = 0
        BY <1>5, <2>3
    <2> QED BY <1>1, <1>2, <1>9, <2>2, <2>4, <2>5, <2>6
<1> QED BY <1>2, <1>7, <1>9

LEMMA GammaInitSound == GammaInit => GammaInv
<1> SUFFICES ASSUME GammaInit PROVE GammaInv
    OBVIOUS
<1>1. PICK o \in Outs :
               /\ available = {o} /\ plugged = {o} /\ seen = {o}
               /\ cmdq \in Seq(Closures) /\ Len(cmdq) <= CmdCap
               /\ \A s : s \notin {"add", "startup", "apply"} => HowMany(cmdq, Doing(s)) = 0
               /\ HowMany(cmdq, Structural) = (IF gammaEnabled THEN 1 ELSE 0) /\ HowMany(cmdq, SetUps) = 0
               /\ \A p : /\ (p # o => HowMany(cmdq, Adds(p)) = 0) /\ HowMany(cmdq, Sizes(p)) = 0
                         /\ HowMany(cmdq, Failures(p)) = 0 /\ HowMany(cmdq, Removals(p)) = 0
               /\ \A p, k : HowMany(cmdq, Recreates(p, k)) = 0
               /\ gammaEnabled => cmdq[1].do = "add"
    BY QueueAtStart
<1>2. level \in Levels
    BY GammaAssumption DEF GammaInit
<1>3. \A p \in Outs : dev[p] = Untouched
    BY DEF GammaInit
<1>4. dev \in [Outs -> OutputTables]
    BY UntouchedOutput DEF GammaInit
<1>5. GammaTypes
    BY <1>1, <1>2, <1>4 DEF GammaTypes, GammaInit
<1>6. OneAtATime
    BY <1>1 DEF OneAtATime, GammaInit
<1>7. ASSUME NEW p \in Outs PROVE OutputSound(p)
    <2>1. Shape(dev[p]) /\ Vacant(dev[p]) /\ \A k \in Slots : dev[p].obj[k].queued = 0
        BY <1>3, UntouchedOutput DEF Vacant, Inert
    <2>2. p \notin seen => ~AddDue(p)
        BY <1>1 DEF AddDue, GammaInit
    <2> QED BY <1>1, <2>1, <2>2 DEF OutputSound, Vacant
<1>8. StartupNeedless
    <2>1. ~gammaEnabled => HowMany(cmdq, Doing("startup")) = 0
        <3>1. ~gammaEnabled => cmdq = <<>>
            BY DEF GammaInit
        <3> QED BY <3>1, NothingQueued, Zenon
    <2>2. HowMany(cmdq, Doing("teardown")) = 0 /\ HowMany(cmdq, Doing("removed")) = 0
        BY <1>1
    <2> QED BY <1>1, <2>1, <2>2 DEF StartupNeedless, GammaInit
<1>9. UnseenQuiet
    BY <1>1 DEF UnseenQuiet
<1> QED BY <1>5, <1>6, <1>7, <1>8, <1>9 DEF GammaInv, GammaSound

LEMMA SetupSound ==
    ASSUME GammaSound, SetupDue, SetupOutputControls, available' = available, ActorIdle,
           cmdq' \in Seq(Closures), ~SetupDue', \A o : ~AddDue(o)',
           \A o, k : HowMany(cmdq', Recreates(o, k)) = HowMany(cmdq, Recreates(o, k))
    PROVE  dev' \in [Outs -> OutputTables] /\ \A o \in Outs : OutputSound(o)'
<1>1. dev \in [Outs -> OutputTables] /\ available \subseteq seen
    BY DEF GammaSound, GammaTypes
<1>2. ASSUME NEW o \in Outs
      PROVE  /\ dev'[o] \in OutputTables /\ Shape(dev'[o]) /\ (o \notin available => dev'[o] = dev[o])
             /\ \A k \in Slots : dev'[o].obj[k].queued = dev[o].obj[k].queued
    <2>1. OutputSound(o) /\ Vacant(dev[o]) /\ Shape(dev[o]) /\ dev[o] \in OutputTables
        BY <1>1 DEF GammaSound, OutputSound
    <2>2. CASE o \in available
        <3>1. dev'[o] = Attached(dev[o], o) /\ FreeSlots(dev[o]) # {} /\ FreeHandles(dev[o]) # {}
            BY <2>2 DEF SetupOutputControls, Room
        <3> QED BY <2>1, <2>2, <3>1, AttachedFacts DEF Vacant, Inert
    <2>3. CASE o \notin available
        BY <2>1, <2>3 DEF SetupOutputControls
    <2> QED BY <2>2, <2>3
<1>3. dev' \in [Outs -> OutputTables] /\ controlsInitialized' = TRUE /\ seen' = seen
    BY <1>2 DEF SetupOutputControls, ActorIdle
<1>4. ASSUME NEW o \in Outs PROVE OutputSound(o)'
    <2>1. OutputSound(o)
        BY DEF GammaSound
    <2> QED BY <1>1, <1>2, <1>3, <2>1 DEF OutputSound
<1> QED BY <1>3, <1>4

LEMMA RunSetupSound == ASSUME GammaSound, RunSetup PROVE GammaSound'
<1>1. /\ TakeCmd("setup") /\ ActorIdle /\ UNCHANGED <<available, events>> /\ "setup" \in StructuralDo
      /\ SetupOutputControls /\ updateTrigger' = TRUE
    BY DEF RunSetup, StructuralDo
<1>2. /\ cmdq' \in Seq(Closures) /\ Len(cmdq') <= CmdCap
      /\ OneAtATime' /\ ~SetupDue' /\ \A o : ~AddDue(o)'
      /\ \A o, k : HowMany(cmdq', Recreates(o, k)) = HowMany(cmdq, Recreates(o, k))
      /\ SetupDue
    BY <1>1, StructuralTaken, CommandKinds
<1>3. dev' \in [Outs -> OutputTables] /\ controlsInitialized' \in BOOLEAN /\ \A o \in Outs : OutputSound(o)'
    BY <1>1, <1>2, SetupSound DEF SetupOutputControls
<1>4. GammaTypes'
    BY <1>1, <1>2, <1>3 DEF GammaSound, GammaTypes, ActorIdle
<1> QED BY <1>2, <1>3, <1>4 DEF GammaSound

LEMMA RunTeardownSound == ASSUME GammaSound, RunTeardown PROVE GammaSound'
<1>1. /\ TakeCmd("teardown") /\ ActorIdle /\ UNCHANGED <<available, updateTrigger, events>> /\ "teardown" \in StructuralDo
      /\ dev' = [o \in Outs |-> Detached(dev[o])] /\ controlsInitialized' = FALSE
    BY DEF RunTeardown, StructuralDo
<1>2. /\ cmdq' \in Seq(Closures) /\ Len(cmdq') <= CmdCap
      /\ OneAtATime' /\ ~SetupDue' /\ \A o : ~AddDue(o)'
      /\ \A o, k : HowMany(cmdq', Recreates(o, k)) = HowMany(cmdq, Recreates(o, k))
    BY <1>1, StructuralTaken
<1>3. ASSUME NEW o \in Outs PROVE dev'[o] \in OutputTables /\ OutputSound(o)'
    <2>1. OutputSound(o) /\ Shape(dev[o]) /\ dev[o] \in OutputTables /\ dev'[o] = Detached(dev[o]) /\ seen' = seen
        BY <1>1 DEF GammaSound, GammaTypes, OutputSound, ActorIdle
    <2>2. /\ dev'[o] \in OutputTables /\ Shape(dev'[o]) /\ dev'[o].tracked = 0 /\ (dev[o].tracked = 0 => dev'[o] = dev[o])
          /\ \A k \in Slots : dev'[o].obj[k].queued = dev[o].obj[k].queued
        BY <2>1, DetachedFacts DEF Waits
    <2> QED BY <1>2, <2>1, <2>2 DEF OutputSound, Vacant
<1>4. dev' \in [Outs -> OutputTables]
    BY <1>1, <1>3
<1>5. GammaTypes'
    BY <1>1, <1>2, <1>4 DEF GammaSound, GammaTypes, ActorIdle
<1> QED BY <1>2, <1>3, <1>5 DEF GammaSound

LEMMA RunAddSound == ASSUME GammaSound, RunAdd PROVE GammaSound'
<1> DEFINE o == Head(cmdq).out
<1>1. /\ TakeCmd("add") /\ ActorIdle /\ UNCHANGED <<available, updateTrigger, events>> /\ "add" \in StructuralDo
      /\ Room({o}) /\ dev' = [dev EXCEPT ![o] = Attached(@, o)] /\ controlsInitialized' = TRUE
    BY DEF RunAdd, StructuralDo
<1>2. /\ cmdq' \in Seq(Closures) /\ Len(cmdq') <= CmdCap
      /\ OneAtATime' /\ ~SetupDue' /\ \A p : ~AddDue(p)'
      /\ \A p, k : HowMany(cmdq', Recreates(p, k)) = HowMany(cmdq, Recreates(p, k))
      /\ AddDue(o) /\ o \in Outs
    BY <1>1, StructuralTaken, CommandKinds
<1> HIDE DEF o
<1>3. dev \in [Outs -> OutputTables] /\ seen' = seen
    BY <1>1 DEF GammaSound, GammaTypes, ActorIdle
<1>4. /\ dev'[o] \in OutputTables /\ Shape(dev'[o]) /\ o \in seen
      /\ \A k \in Slots : dev'[o].obj[k].queued = dev[o].obj[k].queued
    <2>1. OutputSound(o) /\ Vacant(dev[o]) /\ Shape(dev[o]) /\ dev[o] \in OutputTables /\ o \in seen
        BY <1>2, <1>3 DEF GammaSound, OutputSound
    <2>2. dev'[o] = Attached(dev[o], o) /\ FreeSlots(dev[o]) # {} /\ FreeHandles(dev[o]) # {}
        BY <1>1, <1>2, <1>3 DEF Room
    <2> QED BY <1>2, <2>1, <2>2, AttachedFacts DEF Vacant, Inert
<1>5. ASSUME NEW p \in Outs PROVE dev'[p] \in OutputTables /\ OutputSound(p)'
    <2>1. OutputSound(p) /\ (p # o => dev'[p] = dev[p])
        BY <1>1, <1>3 DEF GammaSound
    <2> QED BY <1>1, <1>2, <1>3, <1>4, <2>1 DEF OutputSound
<1>6. dev' \in [Outs -> OutputTables]
    BY <1>1, <1>3, <1>5
<1>7. GammaTypes'
    BY <1>1, <1>2, <1>6 DEF GammaSound, GammaTypes, ActorIdle
<1> QED BY <1>2, <1>5, <1>7 DEF GammaSound

LEMMA RunRemovedSound == ASSUME GammaSound, RunRemoved PROVE GammaSound'
<1> DEFINE o == Head(cmdq).out
<1>1. /\ TakeCmd("removed") /\ ActorIdle /\ UNCHANGED <<updateTrigger, events>> /\ "removed" \in StructuralDo
      /\ dev' = [dev EXCEPT ![o] = Detached(@)]
      /\ available' = IF dev[o].tracked = 0 THEN available ELSE available \ {o}
      /\ controlsInitialized' = (controlsInitialized /\ (dev[o].tracked # 0 => Tracked(dev') # {}))
    BY DEF RunRemoved, StructuralDo
<1>2. /\ cmdq' \in Seq(Closures) /\ Len(cmdq') <= CmdCap
      /\ OneAtATime' /\ ~SetupDue' /\ \A p : ~AddDue(p)'
      /\ \A p, k : HowMany(cmdq', Recreates(p, k)) = HowMany(cmdq, Recreates(p, k))
      /\ o \in Outs
    BY <1>1, StructuralTaken, CommandKinds
<1> HIDE DEF o
<1>3. dev \in [Outs -> OutputTables] /\ seen' = seen /\ \A p \in Outs : p # o => dev'[p] = dev[p]
    BY <1>1 DEF GammaSound, GammaTypes, ActorIdle
<1>4. /\ dev'[o] \in OutputTables /\ Shape(dev'[o]) /\ dev'[o].tracked = 0 /\ (dev[o].tracked = 0 => dev'[o] = dev[o])
      /\ \A k \in Slots : dev'[o].obj[k].queued = dev[o].obj[k].queued
    <2>1. Shape(dev[o]) /\ dev[o] \in OutputTables /\ dev'[o] = Detached(dev[o])
        BY <1>1, <1>2, <1>3 DEF GammaSound, OutputSound
    <2> QED BY <2>1, DetachedFacts DEF Waits
<1>5. ASSUME NEW p \in Outs PROVE dev'[p] \in OutputTables /\ OutputSound(p)'
    <2>1. OutputSound(p) /\ dev[p] \in OutputTables
        BY <1>3 DEF GammaSound
    <2>2. ~controlsInitialized' => dev'[p].tracked = 0
        <3>1. CASE controlsInitialized
            BY <1>1, <3>1 DEF Tracked
        <3>2. CASE ~controlsInitialized
            BY <1>3, <1>4, <2>1, <3>2 DEF OutputSound
        <3> QED BY <3>1, <3>2
    <2>3. dev'[p] \in OutputTables /\ Shape(dev'[p]) /\ \A k \in Slots : dev'[p].obj[k].queued = HowMany(cmdq', Recreates(p, k))
        BY <1>2, <1>3, <1>4, <2>1 DEF OutputSound
    <2>4. p \notin seen' => Vacant(dev'[p])
        BY <1>3, <1>4, <2>1 DEF OutputSound, Vacant
    <2> QED BY <1>2, <2>2, <2>3, <2>4 DEF OutputSound
<1>6. dev' \in [Outs -> OutputTables]
    BY <1>1, <1>3, <1>5
<1>7. controlsInitialized' \in BOOLEAN
    BY <1>1 DEF GammaSound, GammaTypes
<1>8. GammaTypes'
    BY <1>1, <1>2, <1>6, <1>7 DEF GammaSound, GammaTypes, ActorIdle
<1> QED BY <1>2, <1>5, <1>8 DEF GammaSound

LEMMA AppliedSound ==
    ASSUME NEW d \in [Outs -> OutputTables], level \in Levels, NEW bad, NEW o \in Outs, Shape(d[o])
    PROVE  LET t == Applied(d, bad)[o]
           IN  /\ t \in OutputTables /\ Shape(t) /\ t.tracked = d[o].tracked /\ (Vacant(d[o]) => Vacant(t))
               /\ \A k \in Slots : t.obj[k].queued = d[o].obj[k].queued
<1>1. Applied(d, bad)[o] \in {d[o], AppliedOutput(d[o], o, bad)}
    BY DEF Applied
<1>2. Rewrites(d[o], AppliedOutput(d[o], o, bad))
    BY AppliedFacts
<1>3. CASE Applied(d, bad)[o] = d[o]
    BY <1>3
<1>4. CASE Applied(d, bad)[o] = AppliedOutput(d[o], o, bad)
    BY <1>2, <1>4, RewritesShape DEF Rewrites, Waits
<1> QED BY <1>1, <1>3, <1>4

\* What a closure that is not structural does to the table.
LEMMA OtherSound ==
    ASSUME GammaSound, NEW do \in OtherDo, TakeCmd(do), ActorIdle, UNCHANGED <<available, controlsInitialized>>,
           DOMAIN dev' = Outs, dev' = [o \in Outs |-> dev'[o]], updateTrigger' \in BOOLEAN,
           \A o \in Outs :
              /\ dev'[o] \in OutputTables /\ Shape(dev'[o]) /\ dev'[o].tracked = dev[o].tracked /\ (Vacant(dev[o]) => Vacant(dev'[o]))
              /\ \A k \in Slots : dev'[o].obj[k].queued =
                    dev[o].obj[k].queued - (IF Head(cmdq) \in Recreates(o, k) THEN 1 ELSE 0)
    PROVE  GammaSound'
<1>1. /\ cmdq' \in Seq(Closures) /\ Len(cmdq') <= CmdCap
      /\ OneAtATime' /\ (SetupDue' <=> SetupDue) /\ \A o : AddDue(o)' <=> AddDue(o)
      /\ \A S : /\ HowMany(cmdq, S) \in Nat /\ HowMany(cmdq', S) \in Nat
                /\ HowMany(cmdq, S) = HowMany(cmdq', S) + (IF Head(cmdq) \in S THEN 1 ELSE 0)
      /\ UNCHANGED <<gammaEnabled, level, plugged, scheduler, caller, watcher, resumeTimer, seen>>
    BY OtherTaken
<1>2. ASSUME NEW o \in Outs PROVE OutputSound(o)'
    <2>1. OutputSound(o)
        BY DEF GammaSound
    <2>2. \A k \in Slots : dev'[o].obj[k].queued = HowMany(cmdq', Recreates(o, k))
        BY <1>1, <2>1 DEF OutputSound
    <2>3. SetupDue' \/ AddDue(o)' => /\ SetupDue \/ AddDue(o)
                                     /\ HowMany(cmdq', Sizes(o)) = 0 /\ HowMany(cmdq', Failures(o)) = 0
        BY <1>1, <2>1 DEF OutputSound
    <2> QED BY <1>1, <2>1, <2>2, <2>3, OutputKept
<1>3. dev' \in [Outs -> OutputTables]
    OBVIOUS
<1>4. GammaTypes'
    BY <1>1, <1>3 DEF GammaSound, GammaTypes
<1> QED BY <1>1, <1>2, <1>4 DEF GammaSound

LEMMA SoundTables ==
    ASSUME GammaSound
    PROVE  /\ dev \in [Outs -> OutputTables] /\ level \in Levels
           /\ \A o \in Outs : OutputSound(o) /\ Shape(dev[o]) /\ dev[o] \in OutputTables
                              /\ \A k \in Slots : dev[o].obj[k].queued \in Nat
BY TableParts DEF GammaSound, GammaTypes, OutputSound

\* The set-up of the start changes nothing.
LEMMA StartupIsNeedless ==
    ASSUME GammaSound, StartupNeedless, RunStartup PROVE UNCHANGED <<dev, controlsInitialized>>
<1>1. TakeCmd("startup")
    BY DEF RunStartup
<1>2. Head(cmdq) \in Closures /\ Head(cmdq).do = "startup"
      /\ HowMany(cmdq, Doing("startup")) = HowMany(cmdq', Doing("startup")) + (IF Head(cmdq) \in Doing("startup") THEN 1 ELSE 0)
      /\ HowMany(cmdq', Doing("startup")) \in Nat
    BY <1>1, Takes DEF GammaSound
<1>3. HowMany(cmdq, Doing("startup")) > 0
    BY <1>2, CommandKinds
<1>4. cmdq[1] = Head(cmdq)
    BY <1>1 DEF TakeCmd, GammaSound, GammaTypes
<1>5. controlsInitialized
    BY <1>2, <1>3, <1>4 DEF StartupNeedless
<1> QED BY <1>5 DEF RunStartup

LEMMA RunStartupSound == ASSUME GammaSound, StartupNeedless, RunStartup PROVE GammaSound'
<1>1. /\ TakeCmd("startup") /\ ActorIdle /\ UNCHANGED <<available, updateTrigger, events, dev, controlsInitialized>>
      /\ "startup" \in OtherDo
    BY StartupIsNeedless DEF RunStartup, OtherDo
<1>2. \A p, k : Head(cmdq) \notin Recreates(p, k)
    BY <1>1, OtherTaken, CommandKinds
<1>3. DOMAIN dev' = Outs /\ dev' = [p \in Outs |-> dev'[p]]
    BY <1>1, SoundTables
<1>4. updateTrigger' \in BOOLEAN
    BY <1>1 DEF GammaSound, GammaTypes
<1>5. \A p \in Outs, k \in Slots :
          dev'[p].obj[k].queued = dev[p].obj[k].queued - (IF Head(cmdq) \in Recreates(p, k) THEN 1 ELSE 0)
    BY <1>1, <1>2, SoundTables
<1> QED BY <1>1, <1>3, <1>4, <1>5, OtherSound, SoundTables

LEMMA RunSizeSound == ASSUME GammaSound, RunSize PROVE GammaSound'
<1> DEFINE o == Head(cmdq).out
           d == [dev EXCEPT ![o] = SizedOutput(@)]
<1>1. /\ TakeCmd("size") /\ ActorIdle /\ UNCHANGED <<available, controlsInitialized, updateTrigger>> /\ "size" \in OtherDo
      /\ ApplyOn(d)
    BY DEF RunSize, OtherDo
<1>2. PICK bad : dev' = Applied(d, bad)
    BY <1>1 DEF ApplyOn
<1>3. o \in Outs /\ \A p, k : Head(cmdq) \notin Recreates(p, k)
    BY <1>1, OtherTaken, CommandKinds
<1>4. ASSUME NEW p \in Outs
      PROVE  /\ d[p] \in OutputTables /\ Shape(d[p]) /\ d[p].tracked = dev[p].tracked /\ (Vacant(dev[p]) => Vacant(d[p]))
             /\ \A k \in Slots : d[p].obj[k].queued = dev[p].obj[k].queued
    <2> DEFINE r == dev[p]
    <2>1. r \in OutputTables /\ Shape(r) /\ d[p] = IF p = o THEN SizedOutput(r) ELSE r
        BY SoundTables
    <2>2. CASE p = o /\ r.tracked # 0
        <3>1. /\ d[p] \in OutputTables /\ d[p].tracked = r.tracked /\ d[p].ctl = r.ctl
              /\ \A k \in Slots : k # r.tracked => d[p].obj[k] = r.obj[k]
              /\ d[p].obj[r.tracked].ctl = r.obj[r.tracked].ctl /\ Waits(d[p].obj[r.tracked], r.obj[r.tracked])
            BY <2>1, <2>2, SizedFacts
        <3>2. \A k \in Slots : d[p].obj[k].ctl = r.obj[k].ctl /\ d[p].obj[k].queued = r.obj[k].queued
            BY <3>1 DEF Waits
        <3>3. Shape(d[p])
            <4> HIDE DEF d
            <4> QED BY <2>1, <3>1, <3>2, ShapeKept
        <3> QED BY <2>2, <3>1, <3>2, <3>3 DEF Vacant
    <2>3. CASE ~(p = o /\ r.tracked # 0)
        BY <2>1, <2>3 DEF SizedOutput
    <2> QED BY <2>2, <2>3
<1>5. d \in [Outs -> OutputTables]
    BY <1>4, SoundTables
<1> HIDE DEF d
<1>6. \A p \in Outs :
          /\ dev'[p] \in OutputTables /\ Shape(dev'[p]) /\ dev'[p].tracked = dev[p].tracked /\ (Vacant(dev[p]) => Vacant(dev'[p]))
          /\ \A k \in Slots : dev'[p].obj[k].queued = dev[p].obj[k].queued
    BY <1>2, <1>4, <1>5, AppliedSound, SoundTables
<1>7. DOMAIN dev' = Outs /\ dev' = [p \in Outs |-> dev'[p]]
    BY <1>2, <1>5 DEF Applied
<1>8. updateTrigger' \in BOOLEAN
    BY <1>1 DEF GammaSound, GammaTypes
<1> QED BY <1>1, <1>3, <1>6, <1>7, <1>8, OtherSound, SoundTables

LEMMA RunFailedSound == ASSUME GammaSound, RunFailed PROVE GammaSound'
<1> DEFINE o == Head(cmdq).out
<1>1. /\ TakeCmd("failed") /\ ActorIdle /\ UNCHANGED <<available, controlsInitialized, updateTrigger>> /\ "failed" \in OtherDo
      /\ dev' = [dev EXCEPT ![o] = FailedOutput(@, o)]
    BY DEF RunFailed, OtherDo
<1>2. o \in Outs /\ \A p, k : Head(cmdq) \notin Recreates(p, k)
    BY <1>1, OtherTaken, CommandKinds
<1> HIDE DEF o
<1>3. ASSUME NEW p \in Outs
      PROVE  /\ dev'[p] \in OutputTables /\ Shape(dev'[p]) /\ dev'[p].tracked = dev[p].tracked /\ (Vacant(dev[p]) => Vacant(dev'[p]))
             /\ \A k \in Slots : dev'[p].obj[k].queued = dev[p].obj[k].queued
    <2> DEFINE r == dev[p]
    <2>1. r \in OutputTables /\ Shape(r) /\ dev'[p] = IF p = o THEN FailedOutput(r, o) ELSE r
        BY <1>1, SoundTables
    <2>2. CASE p = o /\ r.tracked # 0
        <3>1. /\ dev'[p] \in OutputTables /\ Shape(dev'[p]) /\ dev'[p].tracked = r.tracked
              /\ \A k \in Slots : k # r.tracked => dev'[p].obj[k] = r.obj[k]
              /\ dev'[p].obj[r.tracked].queued = r.obj[r.tracked].queued
            BY <2>1, <2>2, FailedFacts
        <3> QED BY <2>2, <3>1 DEF Vacant
    <2>3. CASE ~(p = o /\ r.tracked # 0)
        BY <2>1, <2>3 DEF FailedOutput
    <2> QED BY <2>2, <2>3
<1>4. DOMAIN dev' = Outs /\ dev' = [p \in Outs |-> dev'[p]]
    BY <1>1, SoundTables
<1>5. updateTrigger' \in BOOLEAN
    BY <1>1 DEF GammaSound, GammaTypes
<1>6. \A p \in Outs, k \in Slots :
          dev'[p].obj[k].queued = dev[p].obj[k].queued - (IF Head(cmdq) \in Recreates(p, k) THEN 1 ELSE 0)
    BY <1>2, <1>3, SoundTables
<1>7. TakeCmd("failed") /\ ActorIdle /\ UNCHANGED <<available, controlsInitialized>> /\ "failed" \in OtherDo
    BY <1>1
<1> QED BY <1>3, <1>4, <1>5, <1>6, <1>7, OtherSound

LEMMA RunRecreateSound == ASSUME GammaSound, RunRecreate PROVE GammaSound'
<1> DEFINE o == Head(cmdq).out
           k == Head(cmdq).obj
<1>1. /\ TakeCmd("recreate") /\ ActorIdle /\ UNCHANGED <<available, controlsInitialized, updateTrigger>> /\ "recreate" \in OtherDo
      /\ FreeHandles(dev[o]) # {} /\ dev' = [dev EXCEPT ![o] = Recreated(@, o, k)]
    BY DEF RunRecreate, OtherDo
<1>2. o \in Outs /\ k \in Slots /\ \A p, j : Head(cmdq) \in Recreates(p, j) <=> p = o /\ j = k
    BY <1>1, OtherTaken, CommandKinds
<1>3. dev[o].obj[k].queued > 0
    <2>1. dev[o].obj[k].queued = HowMany(cmdq, Recreates(o, k))
        BY <1>2, SoundTables DEF OutputSound
    <2>2. Head(cmdq) \in Recreates(o, k)
        BY <1>2
    <2>3. HowMany(cmdq, Recreates(o, k)) > 0
        BY <1>1, <2>2, OtherTaken
    <2> QED BY <2>1, <2>3
<1> HIDE DEF o, k
<1>4. ASSUME NEW p \in Outs
      PROVE  /\ dev'[p] \in OutputTables /\ Shape(dev'[p]) /\ dev'[p].tracked = dev[p].tracked /\ (Vacant(dev[p]) => Vacant(dev'[p]))
             /\ \A j \in Slots : dev'[p].obj[j].queued = dev[p].obj[j].queued - (IF p = o /\ j = k THEN 1 ELSE 0)
    <2> DEFINE r == dev[p]
    <2>1. r \in OutputTables /\ Shape(r) /\ dev'[p] = (IF p = o THEN Recreated(r, o, k) ELSE r) /\ \A j \in Slots : r.obj[j].queued \in Nat
        BY <1>1, SoundTables
    <2>2. CASE p = o
        <3>1. /\ dev'[p] \in OutputTables /\ Shape(dev'[p]) /\ dev'[p].tracked = r.tracked
              /\ \A j \in Slots : dev'[p].obj[j].queued = IF j = k THEN r.obj[k].queued - 1 ELSE r.obj[j].queued
            <4>1. r \in OutputTables /\ Shape(r) /\ dev'[p] = Recreated(r, o, k) /\ r.obj[k].queued > 0 /\ FreeHandles(r) # {}
                BY <1>1, <1>3, <2>1, <2>2
            <4>2. RecreatedTable(r, k, Recreated(r, o, k))
                BY <1>2, <4>1, RecreatedFacts
            <4> QED BY <4>1, <4>2 DEF RecreatedTable
        <3>2. ~Vacant(r)
            BY <1>2, <1>3, <2>2 DEF Vacant, Inert
        <3> QED BY <2>1, <2>2, <3>1, <3>2
    <2>3. CASE p # o
        BY <2>1, <2>3
    <2> QED BY <2>2, <2>3
<1>5. DOMAIN dev' = Outs /\ dev' = [p \in Outs |-> dev'[p]]
    BY <1>1, SoundTables
<1>6. updateTrigger' \in BOOLEAN
    BY <1>1 DEF GammaSound, GammaTypes
<1>7. \A p \in Outs, j \in Slots :
          dev'[p].obj[j].queued = dev[p].obj[j].queued - (IF Head(cmdq) \in Recreates(p, j) THEN 1 ELSE 0)
    BY <1>2, <1>4
<1>8. TakeCmd("recreate") /\ ActorIdle /\ UNCHANGED <<available, controlsInitialized>> /\ "recreate" \in OtherDo
    BY <1>1
<1> QED BY <1>4, <1>5, <1>6, <1>7, <1>8, OtherSound

LEMMA RunApplySound == ASSUME GammaSound, RunApply PROVE GammaSound'
<1>1. /\ TakeCmd("apply") /\ ActorIdle /\ UNCHANGED <<available, controlsInitialized, updateTrigger>> /\ "apply" \in OtherDo
      /\ ApplyOn(dev)
    BY DEF RunApply, OtherDo
<1>2. PICK bad : dev' = Applied(dev, bad)
    BY <1>1 DEF ApplyOn
<1>3. \A p, k : Head(cmdq) \notin Recreates(p, k)
    BY <1>1, OtherTaken, CommandKinds
<1>4. \A p \in Outs :
          /\ dev'[p] \in OutputTables /\ Shape(dev'[p]) /\ dev'[p].tracked = dev[p].tracked /\ (Vacant(dev[p]) => Vacant(dev'[p]))
          /\ \A k \in Slots : dev'[p].obj[k].queued = dev[p].obj[k].queued
    BY <1>2, AppliedSound, SoundTables
<1>5. DOMAIN dev' = Outs /\ dev' = [p \in Outs |-> dev'[p]]
    BY <1>2, SoundTables DEF Applied
<1>6. updateTrigger' \in BOOLEAN
    BY <1>1 DEF GammaSound, GammaTypes
<1> QED BY <1>1, <1>3, <1>4, <1>5, <1>6, OtherSound, SoundTables

LEMMA RunResumeSound == ASSUME GammaSound, RunResume PROVE GammaSound'
<1> DEFINE d == [o \in Outs |-> Forgotten(dev[o])]
<1>1. /\ TakeCmd("resume") /\ ActorIdle /\ UNCHANGED <<available, controlsInitialized>> /\ "resume" \in OtherDo
      /\ \/ ApplyOn(d) /\ updateTrigger' = TRUE
         \/ UNCHANGED <<dev, updateTrigger>>
    BY DEF RunResume, OtherDo
<1>2. \A p, k : Head(cmdq) \notin Recreates(p, k)
    BY <1>1, OtherTaken, CommandKinds
<1>3. updateTrigger' \in BOOLEAN
    BY <1>1 DEF GammaSound, GammaTypes
<1>4. CASE ApplyOn(d)
    <2>1. PICK bad : dev' = Applied(d, bad)
        BY <1>4 DEF ApplyOn
    <2>2. ASSUME NEW p \in Outs
          PROVE  /\ d[p] \in OutputTables /\ Shape(d[p]) /\ d[p].tracked = dev[p].tracked /\ (Vacant(dev[p]) => Vacant(d[p]))
                 /\ \A k \in Slots : d[p].obj[k].queued = dev[p].obj[k].queued
        <3>1. Rewrites(dev[p], Forgotten(dev[p])) /\ d[p] = Forgotten(dev[p])
            BY ForgottenFacts, SoundTables
        <3> QED BY <3>1, RewritesShape, SoundTables DEF Rewrites, Waits
    <2>3. d \in [Outs -> OutputTables]
        BY <2>2
    <2> HIDE DEF d
    <2>4. \A p \in Outs :
              /\ dev'[p] \in OutputTables /\ Shape(dev'[p]) /\ dev'[p].tracked = dev[p].tracked /\ (Vacant(dev[p]) => Vacant(dev'[p]))
              /\ \A k \in Slots : dev'[p].obj[k].queued = dev[p].obj[k].queued
        BY <2>1, <2>2, <2>3, AppliedSound, SoundTables
    <2>5. DOMAIN dev' = Outs /\ dev' = [p \in Outs |-> dev'[p]]
        BY <2>1, <2>3 DEF Applied
    <2> QED BY <1>1, <1>2, <1>3, <2>4, <2>5, OtherSound, SoundTables
<1>5. CASE UNCHANGED dev
    <2>1. DOMAIN dev' = Outs /\ dev' = [p \in Outs |-> dev'[p]]
        BY <1>5, SoundTables
    <2> QED BY <1>1, <1>2, <1>3, <1>5, <2>1, OtherSound, SoundTables
<1> QED BY <1>1, <1>4, <1>5

\* The goroutines that post something to the actor without touching the table.
LEMMA PostingSound ==
    ASSUME GammaSound, UNCHANGED <<gammaEnabled, available, plugged, dev, controlsInitialized, caller, watcher, seen>>,
           level' \in Levels, updateTrigger' \in BOOLEAN, scheduler' \in {"wait", "post"}, resumeTimer' \in BOOLEAN,
           \/ cmdq' = cmdq
           \/ \E s \in {"apply", "resume"} : cmdq' = Posted(cmdq, Simple(s))
    PROVE  GammaSound'
<1>1. /\ cmdq' \in Seq(Closures) /\ Len(cmdq') <= CmdCap
      /\ OneAtATime' /\ (SetupDue' <=> SetupDue) /\ \A o : AddDue(o)' <=> AddDue(o)
      /\ \A o : HowMany(cmdq', Sizes(o)) = HowMany(cmdq, Sizes(o)) /\ HowMany(cmdq', Failures(o)) = HowMany(cmdq, Failures(o))
      /\ \A o, k : HowMany(cmdq', Recreates(o, k)) = HowMany(cmdq, Recreates(o, k))
    <2>1. CASE cmdq' = cmdq
        <3>1. cmdq' \in Seq(Closures) /\ Len(cmdq') <= CmdCap
            BY <2>1 DEF GammaSound, GammaTypes
        <3>2. \A S : HowMany(cmdq', S) = HowMany(cmdq, S)
            BY <2>1
        <3> QED BY <3>1, <3>2, SameDue
    <2>2. CASE \E s \in {"apply", "resume"} : cmdq' = Posted(cmdq, Simple(s))
        <3>1. PICK s \in {"apply", "resume"} : cmdq' = Posted(cmdq, Simple(s))
            BY <2>2
        <3> DEFINE c == Simple(s)
        <3>2. c \in Closures /\ c.do \in {"apply", "resume"} /\ c.do \in OtherDo
            BY CommandsMade DEF OtherDo
        <3> HIDE DEF c
        <3>3. /\ \A o : c \notin Sizes(o) /\ c \notin Failures(o)
              /\ \A o, k : c \notin Recreates(o, k)
            BY <3>2, CommandKinds
        <3>4. cmdq' = Posted(cmdq, c)
            BY <3>1 DEF c
        <3> QED BY <3>2, <3>3, <3>4, OtherPosted
    <2> QED BY <2>1, <2>2
<1>2. ASSUME NEW o \in Outs PROVE OutputSound(o)'
    <2>1. OutputSound(o) /\ dev' = dev /\ seen' = seen /\ controlsInitialized' = controlsInitialized
        BY DEF GammaSound
    <2> QED BY <1>1, <2>1 DEF OutputSound
<1>3. GammaTypes'
    BY <1>1 DEF GammaSound, GammaTypes
<1> QED BY <1>1, <1>2, <1>3 DEF GammaSound

LEMMA ApplyTriggerSound == ASSUME GammaSound, ApplyTrigger PROVE GammaSound'
BY PostingSound DEF ApplyTrigger, GammaSound, GammaTypes

LEMMA PostApplySound == ASSUME GammaSound, PostApply PROVE GammaSound'
BY PostingSound DEF PostApply, GammaSound, GammaTypes

LEMMA SetLevelSound == ASSUME GammaSound, SetLevel PROVE GammaSound'
BY PostingSound DEF SetLevel, GammaSound, GammaTypes

LEMMA FireResumeSound == ASSUME GammaSound, FireResume PROVE GammaSound'
BY PostingSound DEF FireResume, GammaSound, GammaTypes

\* Where nothing is to run and nothing is left to hear, no command is in the queue and no
\* object waits for anything.
LEMMA QuietQueue ==
    ASSUME cmdq = <<>>
    PROVE  cmdq \in Seq(Closures) /\ Len(cmdq) = 0 /\ \A S : HowMany(cmdq, S) = 0
<1>1. \A S : HowMany(cmdq, S) = 0
    BY NothingQueued, Zenon
<1> QED BY <1>1

\* Nothing is under way where the monitors or the switch are touched without a crossing.
LEMMA NothingUnderWay ==
    ASSUME GammaTypes, ~UnderWay
    PROVE  /\ caller = "idle" /\ watcher = {} /\ cmdq \in Seq(Closures)
           /\ HowMany(cmdq, Structural) = 0 /\ HowMany(cmdq, SetUps) = 0
           /\ \A s \in StructuralDo \cup {"startup"} : HowMany(cmdq, Doing(s)) = 0
           /\ \A o : HowMany(cmdq, Adds(o)) = 0 /\ HowMany(cmdq, Removals(o)) = 0
           /\ ~SetupDue /\ \A o : ~AddDue(o)
<1>1. caller = "idle" /\ watcher = {} /\ cmdq \in Seq(Closures)
    BY DEF UnderWay, GammaTypes
<1>2. \A i \in 1..Len(cmdq) : cmdq[i] \in Closures /\ cmdq[i].do \notin StructuralDo \cup {"startup"}
    BY <1>1 DEF UnderWay, Queued, StructuralDo
<1>3. ASSUME NEW S, \A c \in Closures : c \in S => c.do \in StructuralDo \cup {"startup"}
      PROVE  HowMany(cmdq, S) = 0
    BY <1>1, <1>2, <1>3, HowManyNat
<1>4. /\ HowMany(cmdq, Structural) = 0 /\ HowMany(cmdq, SetUps) = 0
      /\ \A s \in StructuralDo \cup {"startup"} : HowMany(cmdq, Doing(s)) = 0
      /\ \A o : HowMany(cmdq, Adds(o)) = 0 /\ HowMany(cmdq, Removals(o)) = 0
    BY <1>3, CommandKinds DEF StructuralDo
<1> QED BY <1>1, <1>4 DEF SetupDue, AddDue

\* Nor is anything left of the controls that were torn down.
LEMMA NothingLeft ==
    ASSUME GammaTypes, ~Leftovers
    PROVE  /\ NoBackoff
           /\ \A o : HowMany(cmdq, Sizes(o)) = 0 /\ HowMany(cmdq, Failures(o)) = 0
           /\ \A o, k : HowMany(cmdq, Recreates(o, k)) = 0
<1>1. NoBackoff /\ cmdq \in Seq(Closures)
    BY DEF Leftovers, GammaTypes
<1>2. \A i \in 1..Len(cmdq) : cmdq[i] \in Closures /\ cmdq[i].do \notin {"recreate", "size", "failed"}
    BY <1>1 DEF Leftovers, Queued
<1>3. ASSUME NEW S, \A c \in Closures : c \in S => c.do \in {"recreate", "size", "failed"}
      PROVE  HowMany(cmdq, S) = 0
    BY <1>1, <1>2, <1>3, HowManyNat
<1> QED BY <1>1, <1>3, CommandKinds

LEMMA SetGammaEnabledSound == ASSUME GammaSound, ~crossed', SetGammaEnabled PROVE GammaSound'
<1>1. /\ ~UnderWay /\ (~gammaEnabled => ~Leftovers) /\ caller' = "decide" /\ gammaEnabled' = ~gammaEnabled
      /\ UNCHANGED <<level, available, plugged, dev, controlsInitialized, cmdq, updateTrigger, scheduler, watcher, resumeTimer, seen>>
    BY DEF SetGammaEnabled
<1>2. /\ watcher = {} /\ HowMany(cmdq, Structural) = 0 /\ HowMany(cmdq, SetUps) = 0
      /\ \A o : HowMany(cmdq, Adds(o)) = 0
    BY <1>1, NothingUnderWay DEF GammaSound
<1>3. OneAtATime'
    BY <1>1, <1>2 DEF OneAtATime
<1>4. ASSUME NEW o \in Outs PROVE OutputSound(o)'
    <2>1. OutputSound(o) /\ dev' = dev /\ seen' = seen /\ controlsInitialized' = controlsInitialized /\ cmdq' = cmdq
        BY <1>1 DEF GammaSound
    <2>2. SetupDue' => /\ Vacant(dev[o])
                       /\ HowMany(cmdq, Sizes(o)) = 0 /\ HowMany(cmdq, Failures(o)) = 0
        <3> SUFFICES ASSUME SetupDue'
                     PROVE  /\ Vacant(dev[o])
                            /\ HowMany(cmdq, Sizes(o)) = 0 /\ HowMany(cmdq, Failures(o)) = 0
            OBVIOUS
        <3>1. ~controlsInitialized /\ ~gammaEnabled
            BY <1>1, <1>2 DEF SetupDue, GammaSound, GammaTypes
        <3>2. /\ NoBackoff /\ HowMany(cmdq, Sizes(o)) = 0 /\ HowMany(cmdq, Failures(o)) = 0
              /\ \A k : HowMany(cmdq, Recreates(o, k)) = 0
            BY <1>1, <3>1, NothingLeft DEF GammaSound
        <3>3. \A k \in Slots : dev[o].obj[k].timers = 0 /\ dev[o].obj[k].queued = 0
            BY <2>1, <3>2 DEF NoBackoff, OutputSound
        <3> QED BY <2>1, <3>1, <3>2, <3>3 DEF OutputSound, Shape, Vacant, Inert, Slots
    <2>3. ~AddDue(o)'
        BY <1>1, <1>2 DEF AddDue
    <2> QED BY <1>2, <2>1, <2>2, <2>3 DEF OutputSound
<1>5. GammaTypes'
    BY <1>1 DEF GammaSound, GammaTypes
<1> QED BY <1>3, <1>4, <1>5 DEF GammaSound

\* The queue after the decision: a set-up is there only if it was due.
DecidedQueue(q) ==
    /\ q \in Seq(Closures) /\ Len(q) <= CmdCap /\ HowMany(q, Structural) <= 1
    /\ HowMany(q, SetUps) > 0 => SetupDue
    /\ \A o : /\ HowMany(q, Sizes(o)) = HowMany(cmdq, Sizes(o)) /\ HowMany(q, Failures(o)) = HowMany(cmdq, Failures(o))
              /\ HowMany(q, Adds(o)) = HowMany(cmdq, Adds(o))
    /\ \A o, k : HowMany(q, Recreates(o, k)) = HowMany(cmdq, Recreates(o, k))

LEMMA DecideEnabledSound == ASSUME GammaSound, DecideEnabled PROVE GammaSound'
<1>1. /\ caller = "decide" /\ caller' = "idle" /\ watcher = {} /\ HowMany(cmdq, Structural) = 0
      /\ UNCHANGED <<gammaEnabled, level, available, plugged, dev, controlsInitialized, scheduler, watcher, resumeTimer, seen>>
    BY DEF DecideEnabled, GammaSound, OneAtATime
<1>2. updateTrigger' \in BOOLEAN
    BY DEF DecideEnabled, GammaSound, GammaTypes
<1>3. cmdq \in Seq(Closures) /\ Len(cmdq) <= CmdCap
    BY DEF GammaSound, GammaTypes
<1>4. DecidedQueue(cmdq')
    <2>1. CASE cmdq' = cmdq
        <3>1. HowMany(cmdq, SetUps) > 0 => SetupDue
            BY DEF SetupDue
        <3> QED BY <1>1, <1>3, <2>1, <3>1 DEF DecidedQueue
    <2>2. ASSUME NEW s \in {"setup", "teardown"}, cmdq' = Posted(cmdq, Simple(s)), s = "setup" => gammaEnabled /\ ~controlsInitialized
          PROVE  DecidedQueue(cmdq')
        <3> DEFINE c == Simple(s)
        <3>1. c \in Closures /\ c.do = s /\ cmdq' = Posted(cmdq, c)
            BY <2>2, CommandsMade
        <3> HIDE DEF c
        <3>2. /\ cmdq' \in Seq(Closures) /\ Len(cmdq') <= CmdCap
              /\ \A S : /\ HowMany(cmdq, S) \in Nat /\ HowMany(cmdq', S) \in Nat
                        /\ HowMany(cmdq', S) <= HowMany(cmdq, S) + (IF c \in S THEN 1 ELSE 0)
                        /\ HowMany(cmdq', S) >= HowMany(cmdq, S)
            BY <3>1, Posts DEF GammaSound
        <3>3. /\ \A o : c \notin Sizes(o) /\ c \notin Failures(o) /\ c \notin Adds(o)
              /\ \A o, k : c \notin Recreates(o, k)
              /\ s = "teardown" => c \notin SetUps
            BY <3>1, CommandKinds
        <3>4. HowMany(cmdq, SetUps) = 0
            BY <1>1, <1>3, Counted
        <3>5. HowMany(cmdq', SetUps) > 0 => SetupDue
            BY <1>1, <2>2, <3>2, <3>3, <3>4 DEF SetupDue
        <3> QED BY <1>1, <3>2, <3>3, <3>5 DEF DecidedQueue
    <2>3. \/ cmdq' = cmdq
          \/ \E s \in {"setup", "teardown"} : cmdq' = Posted(cmdq, Simple(s)) /\ (s = "setup" => gammaEnabled /\ ~controlsInitialized)
        BY DEF DecideEnabled
    <2> QED BY <2>1, <2>2, <2>3
<1>5. OneAtATime' /\ (SetupDue' => SetupDue) /\ \A o : AddDue(o)' <=> AddDue(o)
    BY <1>1, <1>4 DEF DecidedQueue, OneAtATime, SetupDue, AddDue
<1>6. ASSUME NEW o \in Outs PROVE OutputSound(o)'
    BY <1>1, <1>4, <1>5 DEF DecidedQueue, GammaSound, OutputSound
<1>7. GammaTypes'
    BY <1>1, <1>2, <1>4 DEF DecidedQueue, GammaSound, GammaTypes
<1> QED BY <1>5, <1>6, <1>7 DEF GammaSound

LEMMA PlugSound == ASSUME GammaSound, UnseenQuiet, ~crossed', NEW o \in Outs, Plug(o) PROVE GammaSound'
<1>1. /\ o \notin seen /\ watcher = {} /\ plugged' = plugged \cup {o} /\ available' = available \cup {o} /\ seen' = seen \cup {o}
      /\ watcher' = (IF gammaEnabled THEN {o} ELSE {}) /\ (gammaEnabled => ~UnderWay)
      /\ UNCHANGED <<gammaEnabled, level, dev, controlsInitialized, cmdq, updateTrigger, scheduler, caller, resumeTimer>>
    BY DEF Plug
<1>2. gammaEnabled => caller = "idle" /\ HowMany(cmdq, Structural) = 0
    BY <1>1, NothingUnderWay DEF GammaSound
<1>3. OneAtATime'
    BY <1>1, <1>2 DEF OneAtATime, GammaSound
<1>4. SetupDue' <=> SetupDue
    BY <1>1 DEF SetupDue
<1>5. ASSUME NEW p \in Outs PROVE OutputSound(p)'
    <2>1. OutputSound(p) /\ dev' = dev /\ controlsInitialized' = controlsInitialized /\ cmdq' = cmdq
        BY <1>1 DEF GammaSound
    <2>2. AddDue(p)' => AddDue(p) \/ p = o
        BY <1>1 DEF AddDue
    <2>3. p = o => Vacant(dev[p]) /\ HowMany(cmdq, Sizes(p)) = 0 /\ HowMany(cmdq, Failures(p)) = 0
        BY <1>1, <2>1 DEF OutputSound, UnseenQuiet
    <2> QED BY <1>1, <1>4, <2>1, <2>2, <2>3 DEF OutputSound
<1>6. GammaTypes'
    BY <1>1 DEF GammaSound, GammaTypes
<1> QED BY <1>3, <1>5, <1>6 DEF GammaSound

LEMMA PostAddSound == ASSUME GammaSound, NEW o \in Outs, PostAdd(o) PROVE GammaSound'
<1> DEFINE c == Cmd("add", o, 0)
<1>1. /\ o \in watcher /\ watcher' = watcher \ {o} /\ cmdq' = Posted(cmdq, c)
      /\ UNCHANGED <<gammaEnabled, level, available, plugged, dev, controlsInitialized, updateTrigger, scheduler, caller,
                     resumeTimer, seen>>
    BY DEF PostAdd
<1>2. c \in Closures /\ c.do = "add" /\ c.out = o
    BY CommandsMade
<1> HIDE DEF c
<1>3. /\ cmdq' \in Seq(Closures) /\ Len(cmdq') <= CmdCap
      /\ \A S : /\ HowMany(cmdq, S) \in Nat /\ HowMany(cmdq', S) \in Nat
                /\ HowMany(cmdq', S) <= HowMany(cmdq, S) + (IF c \in S THEN 1 ELSE 0)
                /\ HowMany(cmdq', S) >= HowMany(cmdq, S)
    BY <1>1, <1>2, Posts DEF GammaSound
<1>4. /\ \A p : c \notin Sizes(p) /\ c \notin Failures(p) /\ (p # o => c \notin Adds(p))
      /\ \A p, k : c \notin Recreates(p, k)
      /\ c \notin SetUps
    BY <1>2, CommandKinds
<1>5. HowMany(cmdq, Structural) = 0 /\ caller = "idle" /\ \A p \in watcher : p = o
    BY <1>1 DEF GammaSound, OneAtATime
<1>6. OneAtATime'
    BY <1>1, <1>3, <1>5 DEF OneAtATime
<1>7. SetupDue' <=> SetupDue
    <2>1. HowMany(cmdq', SetUps) = HowMany(cmdq, SetUps)
        BY <1>3, <1>4
    <2> QED BY <1>1, <2>1 DEF SetupDue
<1>8. \A p : AddDue(p)' => AddDue(p)
    <2>1. \A p : p # o => HowMany(cmdq', Adds(p)) = HowMany(cmdq, Adds(p))
        BY <1>3, <1>4
    <2> QED BY <1>1, <2>1 DEF AddDue
<1>9. ASSUME NEW p \in Outs PROVE OutputSound(p)'
    <2>1. OutputSound(p) /\ dev' = dev /\ seen' = seen /\ controlsInitialized' = controlsInitialized
        BY <1>1 DEF GammaSound
    <2>2. /\ HowMany(cmdq', Sizes(p)) = HowMany(cmdq, Sizes(p)) /\ HowMany(cmdq', Failures(p)) = HowMany(cmdq, Failures(p))
          /\ \A k : HowMany(cmdq', Recreates(p, k)) = HowMany(cmdq, Recreates(p, k))
        BY <1>3, <1>4
    <2> QED BY <1>7, <1>8, <2>1, <2>2 DEF OutputSound
<1>10. GammaTypes'
    BY <1>1, <1>3 DEF GammaSound, GammaTypes
<1> QED BY <1>6, <1>9, <1>10 DEF GammaSound

\* A control that is told that its output is gone leaves the shape of the table.
LEMMA VoidedShape ==
    ASSUME NEW r \in OutputTables, Shape(r), NEW c \in Handles, r.ctl[c].st # "none"
    PROVE  /\ Voided(r, c) \in OutputTables /\ Shape(Voided(r, c)) /\ Voided(r, c).tracked = r.tracked
           /\ Voided(r, c).obj = r.obj /\ ~Vacant(r)
<1> DEFINE t == Voided(r, c)
<1>1. /\ t \in OutputTables /\ t.tracked = r.tracked /\ t.obj = r.obj
      /\ \A h \in Handles : t.ctl[h] = IF h = c THEN Refused ELSE r.ctl[h]
    BY VoidedFacts
<1> HIDE DEF t
<1>2. Shape(t)
    BY <1>1, ShapeKept DEF Refused
<1>3. ~Vacant(r)
    BY DEF Shape, Vacant
<1> QED BY <1>1, <1>2, <1>3 DEF t

LEMMA UnplugSound == ASSUME GammaSound, ~crossed', NEW o \in Outs, Unplug(o) PROVE GammaSound'
<1> DEFINE m == Cmd("removed", o, 0)
           r == dev[o]
<1>1. /\ ~UnderWay /\ plugged' = plugged \ {o} /\ cmdq' = Posted(cmdq, m)
      /\ dev' = [dev EXCEPT ![o] = IF Holds(@) THEN Voided(@, CHOOSE c \in Handles : @.ctl[c].st = "holds") ELSE @]
      /\ UNCHANGED <<gammaEnabled, level, available, controlsInitialized, updateTrigger, scheduler, caller, watcher,
                     resumeTimer, seen>>
    BY DEF Unplug
<1>2. /\ watcher = {} /\ caller = "idle" /\ cmdq \in Seq(Closures) /\ HowMany(cmdq, Structural) = 0
      /\ ~SetupDue /\ \A p : ~AddDue(p)
    BY <1>1, NothingUnderWay DEF GammaSound
<1>3. m \in Closures /\ m.do = "removed" /\ m.out = o
    BY CommandsMade
<1> HIDE DEF m
<1>4. /\ cmdq' \in Seq(Closures) /\ Len(cmdq') <= CmdCap
      /\ \A S : /\ HowMany(cmdq, S) \in Nat /\ HowMany(cmdq', S) \in Nat
                /\ HowMany(cmdq', S) <= HowMany(cmdq, S) + (IF m \in S THEN 1 ELSE 0)
                /\ HowMany(cmdq', S) >= HowMany(cmdq, S)
    BY <1>1, <1>3, Posts DEF GammaSound
<1>5. m \notin SetUps /\ (\A p : m \notin Adds(p)) /\ \A p, k : m \notin Recreates(p, k)
    BY <1>3, CommandKinds
<1>6. /\ HowMany(cmdq', SetUps) = HowMany(cmdq, SetUps) /\ \A p : HowMany(cmdq', Adds(p)) = HowMany(cmdq, Adds(p))
      /\ \A p, k : HowMany(cmdq', Recreates(p, k)) = HowMany(cmdq, Recreates(p, k))
    <2>1. \A S : m \notin S => HowMany(cmdq', S) = HowMany(cmdq, S)
        BY <1>4
    <2> QED BY <1>5, <2>1
<1>7. OneAtATime'
    BY <1>1, <1>2, <1>4 DEF OneAtATime
<1>8. ~SetupDue' /\ \A p : ~AddDue(p)'
    BY <1>1, <1>2, <1>6 DEF SetupDue, AddDue
<1>9. dev \in [Outs -> OutputTables] /\ r \in OutputTables /\ Shape(r)
    BY SoundTables
<1>10. /\ dev'[o] \in OutputTables /\ Shape(dev'[o]) /\ dev'[o].tracked = r.tracked /\ dev'[o].obj = r.obj
       /\ Vacant(r) => dev'[o] = r
    <2>1. CASE Holds(r)
        <3> DEFINE c == CHOOSE c \in Handles : r.ctl[c].st = "holds"
        <3>1. c \in Handles /\ r.ctl[c].st = "holds"
            BY <2>1 DEF Holds
        <3>2. dev'[o] = Voided(r, c)
            BY <1>1, <1>9, <2>1
        <3> HIDE DEF c, r
        <3> QED BY <1>9, <3>1, <3>2, VoidedShape
    <2>2. CASE ~Holds(r)
        BY <1>1, <1>9, <2>2
    <2> QED BY <2>1, <2>2
<1>11. ASSUME NEW p \in Outs PROVE dev'[p] \in OutputTables /\ OutputSound(p)'
    <2>1. OutputSound(p) /\ (p # o => dev'[p] = dev[p])
        BY <1>1, <1>9, SoundTables
    <2>2. dev'[p] \in OutputTables /\ Shape(dev'[p]) /\ dev'[p].tracked = dev[p].tracked /\ dev'[p].obj = dev[p].obj
          /\ (Vacant(dev[p]) => dev'[p] = dev[p])
        BY <1>9, <1>10, <2>1 DEF OutputSound
    <2> QED BY <1>1, <1>2, <1>6, <1>8, <2>1, <2>2 DEF OutputSound
<1>12. dev' \in [Outs -> OutputTables]
    BY <1>1, <1>9, <1>11
<1>13. GammaTypes'
    BY <1>1, <1>2, <1>4, <1>12 DEF GammaSound, GammaTypes
<1> QED BY <1>7, <1>11, <1>13 DEF GammaSound

LEMMA HearControlSound == ASSUME GammaSound, NEW o \in Outs, NEW c \in Handles, HearControl(o, c) PROVE GammaSound'
<1> DEFINE r == dev[o]
           m == Cmd(r.ctl[c].ev, o, 0)
           t == [r EXCEPT !.ctl[c].ev = "none"]
<1>1. /\ r.ctl[c].ev # "none" /\ cmdq' = Posted(cmdq, m) /\ dev' = [dev EXCEPT ![o].ctl[c].ev = "none"]
      /\ UNCHANGED <<gammaEnabled, level, available, plugged, controlsInitialized, updateTrigger, scheduler, caller, watcher,
                     resumeTimer, seen>>
    BY DEF HearControl
<1>2. dev \in [Outs -> OutputTables] /\ r \in OutputTables /\ Shape(r) /\ r.ctl[c] \in Controls /\ OutputSound(o)
    BY SoundTables, TableParts
<1>3. r.ctl[c].ev \in {"size", "failed"} /\ r.ctl[c].st # "none"
    BY <1>1, <1>2 DEF Controls
<1>4. m \in Closures /\ m.do = r.ctl[c].ev /\ m.out = o /\ m.do \in OtherDo
    BY <1>3, CommandsMade DEF OtherDo
<1>5. dev'[o] = t /\ \A p \in Outs : p # o => dev'[p] = dev[p]
    BY <1>1, <1>2
<1>6. /\ t \in OutputTables /\ t.tracked = r.tracked /\ t.obj = r.obj
      /\ \A h \in Handles : t.ctl[h] = IF h = c THEN [st |-> r.ctl[c].st, ev |-> "none"] ELSE r.ctl[h]
    BY <1>2, HeardFacts
<1> HIDE DEF m, t
<1>7. Shape(t) /\ ~Vacant(r)
    <2>1. ~Vacant(r)
        BY <1>2, <1>3 DEF Vacant, Shape
    <2>2. Shape(t)
        <3> HIDE DEF r
        <3> QED BY <1>2, <1>6, ShapeKept
    <2> QED BY <2>1, <2>2
<1>8. /\ cmdq' \in Seq(Closures) /\ Len(cmdq') <= CmdCap
      /\ OneAtATime' /\ (SetupDue' <=> SetupDue) /\ \A p : AddDue(p)' <=> AddDue(p)
      /\ \A S : m \notin S => HowMany(cmdq', S) = HowMany(cmdq, S)
    BY <1>1, <1>4, OtherPosted
<1>9. /\ \A p, k : m \notin Recreates(p, k)
      /\ \A p : p # o => m \notin Sizes(p) /\ m \notin Failures(p)
    BY <1>3, <1>4, CommandKinds
<1>10. ASSUME NEW p \in Outs PROVE dev'[p] \in OutputTables /\ OutputSound(p)'
    <2>1. OutputSound(p) /\ dev[p] \in OutputTables
        BY SoundTables
    <2>2. dev'[p] \in OutputTables /\ Shape(dev'[p]) /\ dev'[p].tracked = dev[p].tracked /\ dev'[p].obj = dev[p].obj
        BY <1>5, <1>6, <1>7, <2>1 DEF OutputSound
    <2>3. Vacant(dev[p]) => p # o /\ dev'[p] = dev[p]
        BY <1>5, <1>7
    <2> QED BY <1>1, <1>8, <1>9, <2>1, <2>2, <2>3 DEF OutputSound
<1>11. dev' \in [Outs -> OutputTables]
    BY <1>1, <1>2, <1>10
<1>12. GammaTypes'
    BY <1>1, <1>8, <1>11 DEF GammaSound, GammaTypes
<1> QED BY <1>8, <1>10, <1>12 DEF GammaSound

\* A step of an output that leaves the queue and what is due alone.
LEMMA TableSound ==
    ASSUME GammaSound,
           UNCHANGED <<gammaEnabled, level, available, plugged, controlsInitialized, cmdq, updateTrigger, scheduler, caller,
                       watcher, seen>>, resumeTimer' \in BOOLEAN,
           dev' = [o \in Outs |-> dev'[o]],
           \A o \in Outs : /\ dev'[o] \in OutputTables /\ Shape(dev'[o]) /\ dev'[o].tracked = dev[o].tracked
                           /\ dev'[o].obj = dev[o].obj
    PROVE  GammaSound'
<1>1. OneAtATime' /\ (SetupDue' <=> SetupDue) /\ \A o : AddDue(o)' <=> AddDue(o)
    BY DEF GammaSound, OneAtATime, SetupDue, AddDue
<1>2. ASSUME NEW o \in Outs PROVE OutputSound(o)'
    BY <1>1 DEF GammaSound, OutputSound, Vacant
<1>3. GammaTypes'
    <2>1. dev' \in [Outs -> OutputTables]
        OBVIOUS
    <2> QED BY <2>1 DEF GammaSound, GammaTypes
<1> QED BY <1>1, <1>2, <1>3 DEF GammaSound

LEMMA LoseControlSound == ASSUME GammaSound, NEW o \in Outs, NEW c \in Handles, LoseControl(o, c) PROVE GammaSound'
<1>1. /\ dev[o].ctl[c].st = "holds" /\ dev' = [dev EXCEPT ![o] = Voided(@, c)]
      /\ UNCHANGED <<gammaEnabled, level, available, plugged, controlsInitialized, cmdq, updateTrigger, scheduler, caller,
                     watcher, resumeTimer, seen>>
    BY DEF LoseControl
<1>2. \A p \in Outs : dev[p] \in OutputTables /\ Shape(dev[p]) /\ dev'[p] = IF p = o THEN Voided(dev[o], c) ELSE dev[p]
    BY <1>1, SoundTables
<1>3. /\ Voided(dev[o], c) \in OutputTables /\ Shape(Voided(dev[o], c)) /\ Voided(dev[o], c).tracked = dev[o].tracked
      /\ Voided(dev[o], c).obj = dev[o].obj
    BY <1>1, <1>2, VoidedShape
<1>4. dev' = [p \in Outs |-> dev'[p]]
    BY <1>1, SoundTables
<1>5. resumeTimer' \in BOOLEAN
    BY <1>1 DEF GammaSound, GammaTypes
<1> QED BY <1>1, <1>2, <1>3, <1>4, <1>5, TableSound

LEMMA WakeUpSound == ASSUME GammaSound, WakeUp PROVE GammaSound'
<1>1. PICK lost : dev' = [o \in Outs |-> IF o \in lost THEN [dev[o] EXCEPT !.shown = Plain] ELSE dev[o]]
    BY DEF WakeUp
<1>2. ASSUME NEW o \in Outs
      PROVE  dev'[o] \in OutputTables /\ Shape(dev'[o]) /\ dev'[o].tracked = dev[o].tracked /\ dev'[o].obj = dev[o].obj
    <2> DEFINE r == dev[o]
               t == [r EXCEPT !.shown = Plain]
    <2>1. r \in OutputTables /\ Shape(r)
        BY SoundTables
    <2>2. t \in OutputTables /\ t.tracked = r.tracked /\ t.obj = r.obj /\ t.ctl = r.ctl
        BY <2>1 DEF OutputTables
    <2>3. dev'[o] \in {r, t}
        BY <1>1
    <2> HIDE DEF r, t
    <2>4. Shape(t)
        BY <2>1, <2>2, ShapeKept
    <2> QED BY <2>1, <2>2, <2>3, <2>4 DEF r
<1>3. dev' = [o \in Outs |-> dev'[o]]
    BY <1>1
<1>4. /\ UNCHANGED <<gammaEnabled, level, available, plugged, controlsInitialized, cmdq, updateTrigger, scheduler, caller,
                     watcher, seen>>
      /\ resumeTimer' \in BOOLEAN
    BY DEF WakeUp, GammaSound, GammaTypes
<1> QED BY <1>2, <1>3, <1>4, TableSound

LEMMA FireBackoffSound == ASSUME GammaSound, NEW o \in Outs, NEW k \in Slots, FireBackoff(o, k) PROVE GammaSound'
<1> DEFINE r == dev[o]
           x == r.obj[k]
           m == Cmd("recreate", o, k)
           n == x.timers - 1
           q == IF cmdq' = cmdq THEN x.queued ELSE x.queued + 1
           y == [x EXCEPT !.timers = n, !.queued = q]
           t == [r EXCEPT !.obj[k] = y]
<1>1. /\ x.timers > 0 /\ cmdq' = Posted(cmdq, m) /\ dev' = [dev EXCEPT ![o].obj[k] = y]
      /\ UNCHANGED <<gammaEnabled, level, available, plugged, controlsInitialized, updateTrigger, scheduler, caller, watcher,
                     resumeTimer, seen>>
    BY DEF FireBackoff
<1>2. dev \in [Outs -> OutputTables] /\ r \in OutputTables /\ Shape(r) /\ x.queued \in Nat /\ x.timers \in Nat
    BY SoundTables, TableParts
<1>3. n \in Nat /\ q \in Nat
    BY <1>1, <1>2
<1>4. dev'[o] = t /\ \A p \in Outs : p # o => dev'[p] = dev[p]
    BY <1>1, <1>2
<1>5. ~Vacant(r) /\ (r.tracked # 0 => k = r.tracked)
    BY <1>1, <1>2 DEF Vacant, Shape, Inert
<1> HIDE DEF m, q, n
<1>6. /\ t \in OutputTables /\ t.tracked = r.tracked /\ t.ctl = r.ctl /\ y.queued = q /\ y.ctl = x.ctl /\ t.obj[k] = y
      /\ \A j \in Slots : j # k => t.obj[j] = r.obj[j]
    <2>1. x \in Objects
        BY <1>2, TableParts
    <2>2. y \in Objects /\ y.queued = q /\ y.ctl = x.ctl
        <3> HIDE DEF x
        <3> QED BY <1>3, <2>1 DEF Objects
    <2> HIDE DEF y, r
    <2>3. t \in OutputTables /\ t.tracked = r.tracked /\ t.obj = [r.obj EXCEPT ![k] = y] /\ t.ctl = r.ctl
        BY <1>2, <2>2 DEF OutputTables
    <2> HIDE DEF t
    <2>4. t.obj[k] = y /\ \A j \in Slots : j # k => t.obj[j] = r.obj[j]
        BY <1>2, <2>3, TableParts
    <2> QED BY <2>2, <2>3, <2>4
<1>7. Shape(t)
    <2>1. \A j \in Slots : t.obj[j].ctl = r.obj[j].ctl /\ (r.tracked # 0 /\ j # r.tracked => t.obj[j] = r.obj[j])
        BY <1>5, <1>6
    <2> HIDE DEF t, r
    <2> QED BY <1>2, <1>6, <2>1, ShapeKept
<1>8. m \in Closures /\ m.do = "recreate" /\ m.out = o /\ m.obj = k /\ m.do \in OtherDo
    BY CommandsMade DEF m, OtherDo
<1>9. /\ cmdq' \in Seq(Closures) /\ Len(cmdq') <= CmdCap
      /\ OneAtATime' /\ (SetupDue' <=> SetupDue) /\ \A p : AddDue(p)' <=> AddDue(p)
      /\ \A S : /\ HowMany(cmdq, S) \in Nat /\ HowMany(cmdq', S) \in Nat
                /\ m \notin S => HowMany(cmdq', S) = HowMany(cmdq, S)
                /\ cmdq' # cmdq => HowMany(cmdq', S) = HowMany(cmdq, S) + (IF m \in S THEN 1 ELSE 0)
    BY <1>1, <1>8, OtherPosted
<1>10. /\ \A p, j : m \in Recreates(p, j) <=> p = o /\ j = k
       /\ \A p : m \notin Sizes(p) /\ m \notin Failures(p)
    BY <1>8, CommandKinds
<1> HIDE DEF t, y
<1>11. ASSUME NEW p \in Outs PROVE dev'[p] \in OutputTables /\ OutputSound(p)'
    <2>1. OutputSound(p) /\ dev[p] \in OutputTables
        BY SoundTables
    <2>2. dev'[p] \in OutputTables /\ Shape(dev'[p]) /\ dev'[p].tracked = dev[p].tracked
          /\ (Vacant(dev[p]) => dev'[p] = dev[p])
        BY <1>4, <1>5, <1>6, <1>7, <2>1 DEF OutputSound
    <2>3. \A j \in Slots : dev'[p].obj[j].queued = HowMany(cmdq', Recreates(p, j))
        <3>1. ASSUME NEW j \in Slots, ~(p = o /\ j = k) PROVE dev'[p].obj[j].queued = HowMany(cmdq', Recreates(p, j))
            BY <1>4, <1>6, <1>9, <1>10, <2>1, <3>1 DEF OutputSound
        <3>2. ASSUME p = o PROVE dev'[p].obj[k].queued = HowMany(cmdq', Recreates(p, k))
            BY <1>4, <1>6, <1>9, <1>10, <2>1, <3>2 DEF OutputSound, q
        <3> QED BY <3>1, <3>2
    <2> QED BY <1>1, <1>9, <1>10, <2>1, <2>2, <2>3 DEF OutputSound
<1>12. dev' \in [Outs -> OutputTables]
    BY <1>1, <1>2, <1>11
<1>13. GammaTypes'
    BY <1>1, <1>9, <1>12 DEF GammaSound, GammaTypes
<1> QED BY <1>9, <1>11, <1>13 DEF GammaSound

\* A step by which the environment crosses what is on its way is never taken back.
LEMMA CrossedStays == ASSUME crossed, [GammaNext]_gammaVars PROVE crossed'
<1>1. CASE UNCHANGED gammaVars
    BY <1>1 DEF gammaVars
<1>2. CASE Actor
    BY <1>2 DEF Actor, RunStartup, RunSetup, RunTeardown, RunAdd, RunRemoved, RunSize, RunFailed, RunRecreate,
                RunApply, RunResume, ActorIdle
<1>3. CASE ApplyTrigger \/ PostApply \/ SetLevel \/ SetGammaEnabled \/ DecideEnabled \/ WakeUp \/ FireResume
    BY <1>3 DEF ApplyTrigger, PostApply, SetLevel, SetGammaEnabled, DecideEnabled, WakeUp, FireResume
<1>4. ASSUME NEW o \in Outs, Plug(o) \/ PostAdd(o) \/ Unplug(o) PROVE crossed'
    BY <1>4 DEF Plug, PostAdd, Unplug
<1>5. ASSUME NEW o \in Outs, NEW c \in Handles, HearControl(o, c) \/ LoseControl(o, c) PROVE crossed'
    BY <1>5 DEF HearControl, LoseControl
<1>6. ASSUME NEW o \in Outs, NEW k \in Slots, FireBackoff(o, k) PROVE crossed'
    BY <1>6 DEF FireBackoff
<1> QED BY <1>1, <1>2, <1>3, <1>4, <1>5, <1>6 DEF GammaNext

LEMMA GammaSoundStep == ASSUME GammaInv, ~crossed', [GammaNext]_gammaVars PROVE GammaSound'
<1>1. CASE UNCHANGED gammaVars
    <2>1. OneAtATime' /\ (SetupDue' <=> SetupDue) /\ \A o : AddDue(o)' <=> AddDue(o)
        BY <1>1 DEF GammaInv, GammaSound, OneAtATime, SetupDue, AddDue, gammaVars
    <2> QED BY <1>1, <2>1 DEF GammaInv, GammaSound, GammaTypes, OutputSound, gammaVars
<1>2. CASE Actor
    BY <1>2, RunStartupSound, RunSetupSound, RunTeardownSound, RunAddSound, RunRemovedSound, RunSizeSound,
       RunFailedSound, RunRecreateSound, RunApplySound, RunResumeSound DEF Actor, GammaInv
<1> QED BY <1>1, <1>2, ApplyTriggerSound, PostApplySound, SetLevelSound, SetGammaEnabledSound, DecideEnabledSound,
           PlugSound, PostAddSound, UnplugSound, HearControlSound, LoseControlSound, FireBackoffSound, WakeUpSound,
           FireResumeSound DEF GammaNext, GammaInv

\* How a closure that runs, one that is posted and an empty start affect the set-up of NewManager.
LEMMA TakenNeedless ==
    ASSUME GammaSound, StartupNeedless, NEW do, TakeCmd(do), ActorIdle, do = "add" => controlsInitialized',
           do \notin {"teardown", "removed"} => (controlsInitialized => controlsInitialized')
    PROVE  StartupNeedless'
<1>1. /\ Head(cmdq) \in Closures /\ Head(cmdq).do = do
      /\ \A S : /\ HowMany(cmdq, S) \in Nat /\ HowMany(cmdq', S) \in Nat
                /\ HowMany(cmdq, S) = HowMany(cmdq', S) + (IF Head(cmdq) \in S THEN 1 ELSE 0)
    BY Takes DEF GammaSound
<1>2. caller' = caller /\ watcher' = watcher
    BY DEF ActorIdle
<1> SUFFICES ASSUME HowMany(cmdq', Doing("startup")) > 0
             PROVE  /\ caller = "idle" /\ watcher = {} /\ HowMany(cmdq', SetUps) = 0
                    /\ HowMany(cmdq', Doing("teardown")) = 0 /\ HowMany(cmdq', Doing("removed")) = 0
                    /\ controlsInitialized'
    BY <1>2 DEF StartupNeedless
<1>3. HowMany(cmdq, Doing("startup")) > 0
    BY <1>1
<1>4. /\ caller = "idle" /\ watcher = {} /\ HowMany(cmdq, SetUps) = 0 /\ HowMany(cmdq, Doing("teardown")) = 0
      /\ HowMany(cmdq, Doing("removed")) = 0 /\ (controlsInitialized \/ cmdq[1].do = "add")
    BY <1>3 DEF StartupNeedless
<1>5. Head(cmdq) \notin Doing("teardown") /\ Head(cmdq) \notin Doing("removed")
    BY <1>1, <1>4
<1>6. do \notin {"teardown", "removed"}
    BY <1>1, <1>5, CommandKinds
<1>7. cmdq[1] = Head(cmdq)
    BY DEF TakeCmd, GammaSound, GammaTypes
<1>8. controlsInitialized'
    BY <1>1, <1>4, <1>6, <1>7
<1> QED BY <1>1, <1>4, <1>8

LEMMA PostedNeedless ==
    ASSUME GammaSound, StartupNeedless, UNCHANGED <<controlsInitialized, caller, watcher>>,
           \/ cmdq' = cmdq
           \/ \E c \in Closures : cmdq' = Posted(cmdq, c) /\ c.do \notin StructuralDo \cup {"startup"}
    PROVE  StartupNeedless'
<1>1. CASE cmdq' = cmdq
    BY <1>1 DEF StartupNeedless
<1>2. ASSUME NEW c \in Closures, cmdq' = Posted(cmdq, c), c.do \notin StructuralDo \cup {"startup"}
      PROVE  StartupNeedless'
    <2>1. \A S : /\ HowMany(cmdq, S) \in Nat /\ HowMany(cmdq', S) \in Nat
                 /\ HowMany(cmdq', S) <= HowMany(cmdq, S) + (IF c \in S THEN 1 ELSE 0)
                 /\ HowMany(cmdq', S) >= HowMany(cmdq, S)
        BY <1>2, Posts DEF GammaSound
    <2>2. c \notin SetUps /\ \A s \in {"startup", "teardown", "removed"} : c \notin Doing(s)
        BY <1>2, CommandKinds DEF StructuralDo
    <2>3. /\ HowMany(cmdq', SetUps) = HowMany(cmdq, SetUps)
          /\ \A s \in {"startup", "teardown", "removed"} : HowMany(cmdq', Doing(s)) = HowMany(cmdq, Doing(s))
        BY <2>1, <2>2
    <2>4. HowMany(cmdq, Doing("startup")) > 0 => cmdq'[1] = cmdq[1]
        <3>1. cmdq \in Seq(Closures)
            BY DEF GammaSound, GammaTypes
        <3>2. cmdq = <<>> => HowMany(cmdq, Doing("startup")) = 0
            BY NothingQueued, Zenon
        <3>3. cmdq # <<>> => cmdq'[1] = cmdq[1]
            BY <1>2, <3>1 DEF Posted
        <3> QED BY <3>2, <3>3
    <2> QED BY <2>3, <2>4 DEF StartupNeedless
<1> QED BY <1>1, <1>2

LEMMA StartedAlready ==
    ASSUME GammaSound, HowMany(cmdq, Doing("startup")) = 0,
           cmdq' = cmdq \/ \E c \in Closures : cmdq' = Posted(cmdq, c) /\ c.do # "startup"
    PROVE  StartupNeedless'
<1>1. CASE cmdq' = cmdq
    BY <1>1 DEF StartupNeedless
<1>2. ASSUME NEW c \in Closures, cmdq' = Posted(cmdq, c), c.do # "startup" PROVE StartupNeedless'
    <2>1. /\ HowMany(cmdq', Doing("startup")) \in Nat
          /\ HowMany(cmdq', Doing("startup")) <= 0 + (IF c \in Doing("startup") THEN 1 ELSE 0)
        BY <1>2, Posts DEF GammaSound
    <2>2. c \notin Doing("startup")
        BY <1>2, CommandKinds
    <2> QED BY <2>1, <2>2 DEF StartupNeedless
<1> QED BY <1>1, <1>2

LEMMA NeedlessStep == ASSUME GammaInv, ~crossed', [GammaNext]_gammaVars PROVE StartupNeedless'
<1>1. GammaSound /\ StartupNeedless /\ GammaTypes
    BY DEF GammaInv, GammaSound
<1>2. CASE UNCHANGED gammaVars
    BY <1>2, <1>1 DEF StartupNeedless, gammaVars
<1>3. CASE RunStartup
    BY <1>1, <1>3, TakenNeedless DEF RunStartup, SetupOutputControls
<1>4. CASE RunSetup
    BY <1>1, <1>4, TakenNeedless DEF RunSetup, SetupOutputControls
<1>5. CASE RunTeardown
    BY <1>1, <1>5, TakenNeedless DEF RunTeardown
<1>6. CASE RunAdd
    BY <1>1, <1>6, TakenNeedless DEF RunAdd
<1>7. CASE RunRemoved
    BY <1>1, <1>7, TakenNeedless DEF RunRemoved
<1>8. CASE RunSize \/ RunFailed \/ RunRecreate \/ RunApply \/ RunResume
    BY <1>1, <1>8, TakenNeedless DEF RunSize, RunFailed, RunRecreate, RunApply, RunResume
<1>9. CASE ApplyTrigger \/ SetLevel \/ WakeUp
    BY <1>1, <1>9, PostedNeedless DEF ApplyTrigger, SetLevel, WakeUp
<1>10. CASE PostApply \/ FireResume
    <2>1. \E c \in Closures : cmdq' = Posted(cmdq, c) /\ c.do \notin StructuralDo \cup {"startup"}
        BY <1>10, CommandsMade DEF PostApply, FireResume, StructuralDo
    <2> QED BY <1>1, <1>10, <2>1, PostedNeedless DEF PostApply, FireResume
<1>11. CASE SetGammaEnabled
    <2>1. ~UnderWay /\ cmdq' = cmdq
        BY <1>11 DEF SetGammaEnabled
    <2> QED BY <1>1, <2>1, NothingUnderWay, StartedAlready
<1>12. CASE DecideEnabled
    <2>1. HowMany(cmdq, Doing("startup")) \in Nat /\ caller = "decide"
        BY <1>1, <1>12, HowManyNat DEF GammaTypes, DecideEnabled
    <2>2. cmdq' = cmdq \/ \E c \in Closures : cmdq' = Posted(cmdq, c) /\ c.do # "startup"
        BY <1>12, CommandsMade DEF DecideEnabled
    <2> QED BY <1>1, <2>1, <2>2, StartedAlready DEF StartupNeedless
<1>13. ASSUME NEW o \in Outs, Plug(o) PROVE StartupNeedless'
    <2>1. /\ watcher = {} /\ watcher' = (IF gammaEnabled THEN {o} ELSE {}) /\ (gammaEnabled => ~UnderWay)
          /\ UNCHANGED <<controlsInitialized, cmdq, caller>>
        BY <1>13 DEF Plug
    <2>2. CASE gammaEnabled
        BY <1>1, <2>1, <2>2, NothingUnderWay, StartedAlready
    <2>3. CASE ~gammaEnabled
        BY <1>1, <2>1, <2>3, PostedNeedless
    <2> QED BY <2>2, <2>3
<1>14. ASSUME NEW o \in Outs, PostAdd(o) PROVE StartupNeedless'
    <2>1. HowMany(cmdq, Doing("startup")) \in Nat /\ watcher # {}
        BY <1>1, <1>14, HowManyNat DEF GammaTypes, PostAdd
    <2>2. \E c \in Closures : cmdq' = Posted(cmdq, c) /\ c.do # "startup"
        BY <1>14, CommandsMade DEF PostAdd
    <2> QED BY <1>1, <2>1, <2>2, StartedAlready DEF StartupNeedless
<1>15. ASSUME NEW o \in Outs, Unplug(o) PROVE StartupNeedless'
    <2>1. ~UnderWay
        BY <1>15 DEF Unplug
    <2>2. \E c \in Closures : cmdq' = Posted(cmdq, c) /\ c.do # "startup"
        BY <1>15, CommandsMade DEF Unplug
    <2> QED BY <1>1, <2>1, <2>2, NothingUnderWay, StartedAlready
<1>16. ASSUME NEW o \in Outs, NEW c \in Handles, HearControl(o, c) PROVE StartupNeedless'
    <2>1. dev[o].ctl[c].ev \in {"size", "failed"}
        BY <1>1, <1>16, SoundTables, TableParts DEF HearControl, Controls
    <2>2. \E m \in Closures : cmdq' = Posted(cmdq, m) /\ m.do \notin StructuralDo \cup {"startup"}
        BY <1>16, <2>1, CommandsMade DEF HearControl, StructuralDo
    <2> QED BY <1>1, <1>16, <2>2, PostedNeedless DEF HearControl
<1>17. ASSUME NEW o \in Outs, NEW c \in Handles, LoseControl(o, c) PROVE StartupNeedless'
    BY <1>1, <1>17, PostedNeedless DEF LoseControl
<1>18. ASSUME NEW o \in Outs, NEW k \in Slots, FireBackoff(o, k) PROVE StartupNeedless'
    <2>1. \E m \in Closures : cmdq' = Posted(cmdq, m) /\ m.do \notin StructuralDo \cup {"startup"}
        BY <1>18, CommandsMade DEF FireBackoff, StructuralDo
    <2> QED BY <1>1, <1>18, <2>1, PostedNeedless DEF FireBackoff
<1> QED BY <1>2, <1>3, <1>4, <1>5, <1>6, <1>7, <1>8, <1>9, <1>10, <1>11, <1>12, <1>13, <1>14, <1>15, <1>16, <1>17,
           <1>18 DEF GammaNext, Actor

\* What is posted about an output is about one that was announced.
LEMMA QuietKept ==
    ASSUME GammaSound, UnseenQuiet, seen \subseteq seen',
           \/ cmdq' = cmdq
           \/ \E do : TakeCmd(do)
           \/ \E c \in Closures : cmdq' = Posted(cmdq, c) /\ (c.do \in {"size", "failed", "removed"} => c.out \in seen)
    PROVE  UnseenQuiet'
<1> SUFFICES ASSUME NEW o \in Outs, o \notin seen', NEW S \in {Sizes(o), Failures(o), Removals(o)} PROVE HowMany(cmdq', S) = 0
    BY DEF UnseenQuiet
<1>1. o \notin seen /\ HowMany(cmdq, S) = 0
    BY DEF UnseenQuiet
<1>2. ASSUME NEW do, TakeCmd(do) PROVE HowMany(cmdq', S) = 0
    <2>1. HowMany(cmdq', S) \in Nat /\ HowMany(cmdq, S) = HowMany(cmdq', S) + (IF Head(cmdq) \in S THEN 1 ELSE 0)
        BY <1>2, Takes DEF GammaSound
    <2> QED BY <1>1, <2>1
<1>3. ASSUME NEW c \in Closures, cmdq' = Posted(cmdq, c), c.do \in {"size", "failed", "removed"} => c.out \in seen
      PROVE  HowMany(cmdq', S) = 0
    <2>1. HowMany(cmdq', S) \in Nat /\ HowMany(cmdq', S) <= HowMany(cmdq, S) + (IF c \in S THEN 1 ELSE 0)
        BY <1>3, Posts DEF GammaSound
    <2>2. c \notin S
        BY <1>1, <1>3, CommandKinds
    <2> QED BY <1>1, <2>1, <2>2
<1> QED BY <1>1, <1>2, <1>3

LEMMA QuietStep == ASSUME GammaInv, [GammaNext]_gammaVars PROVE UnseenQuiet'
<1>1. GammaSound /\ UnseenQuiet /\ GammaTypes
    BY DEF GammaInv, GammaSound
<1>2. CASE UNCHANGED gammaVars
    BY <1>2, <1>1, QuietKept DEF gammaVars
<1>3. CASE Actor
    BY <1>1, <1>3, QuietKept DEF Actor, RunStartup, RunSetup, RunTeardown, RunAdd, RunRemoved, RunSize, RunFailed,
       RunRecreate, RunApply, RunResume, ActorIdle
<1>4. CASE ApplyTrigger \/ SetLevel \/ WakeUp \/ SetGammaEnabled
    BY <1>1, <1>4, QuietKept DEF ApplyTrigger, SetLevel, WakeUp, SetGammaEnabled
<1>5. CASE PostApply \/ FireResume
    <2>1. \E c \in Closures : cmdq' = Posted(cmdq, c) /\ (c.do \in {"size", "failed", "removed"} => c.out \in seen)
        BY <1>5, CommandsMade DEF PostApply, FireResume
    <2> QED BY <1>1, <1>5, <2>1, QuietKept DEF PostApply, FireResume
<1>6. CASE DecideEnabled
    <2>1. cmdq' = cmdq \/ \E c \in Closures : cmdq' = Posted(cmdq, c)
                                                 /\ (c.do \in {"size", "failed", "removed"} => c.out \in seen)
        BY <1>6, CommandsMade DEF DecideEnabled
    <2> QED BY <1>1, <1>6, <2>1, QuietKept DEF DecideEnabled
<1>7. ASSUME NEW o \in Outs, Plug(o) PROVE UnseenQuiet'
    BY <1>1, <1>7, QuietKept DEF Plug
<1>8. ASSUME NEW o \in Outs, PostAdd(o) PROVE UnseenQuiet'
    <2>1. \E c \in Closures : cmdq' = Posted(cmdq, c) /\ (c.do \in {"size", "failed", "removed"} => c.out \in seen)
        BY <1>8, CommandsMade DEF PostAdd
    <2> QED BY <1>1, <1>8, <2>1, QuietKept DEF PostAdd
<1>9. ASSUME NEW o \in Outs, Unplug(o) PROVE UnseenQuiet'
    <2>1. o \in seen
        BY <1>1, <1>9 DEF GammaTypes, Unplug
    <2>2. \E c \in Closures : cmdq' = Posted(cmdq, c) /\ (c.do \in {"size", "failed", "removed"} => c.out \in seen)
        BY <1>9, <2>1, CommandsMade DEF Unplug
    <2> QED BY <1>1, <1>9, <2>2, QuietKept DEF Unplug
<1>10. ASSUME NEW o \in Outs, NEW c \in Handles, HearControl(o, c) PROVE UnseenQuiet'
    <2>1. dev[o].ctl[c].ev \in {"size", "failed"} /\ dev[o].ctl[c].st # "none"
        BY <1>1, <1>10, SoundTables, TableParts DEF HearControl, Controls
    <2>2. o \in seen
        BY <1>1, <2>1, SoundTables DEF OutputSound, Shape, Vacant
    <2>3. \E m \in Closures : cmdq' = Posted(cmdq, m) /\ (m.do \in {"size", "failed", "removed"} => m.out \in seen)
        BY <1>10, <2>1, <2>2, CommandsMade DEF HearControl
    <2> QED BY <1>1, <1>10, <2>3, QuietKept DEF HearControl
<1>11. ASSUME NEW o \in Outs, NEW c \in Handles, LoseControl(o, c) PROVE UnseenQuiet'
    BY <1>1, <1>11, QuietKept DEF LoseControl
<1>12. ASSUME NEW o \in Outs, NEW k \in Slots, FireBackoff(o, k) PROVE UnseenQuiet'
    <2>1. \E m \in Closures : cmdq' = Posted(cmdq, m) /\ (m.do \in {"size", "failed", "removed"} => m.out \in seen)
        BY <1>12, CommandsMade DEF FireBackoff
    <2> QED BY <1>1, <1>12, <2>1, QuietKept DEF FireBackoff
<1> QED BY <1>2, <1>3, <1>4, <1>5, <1>6, <1>7, <1>8, <1>9, <1>10, <1>11, <1>12 DEF GammaNext

LEMMA GammaInvStep == ASSUME crossed \/ GammaInv, [GammaNext]_gammaVars PROVE crossed' \/ GammaInv'
<1>1. CASE crossed
    BY <1>1, CrossedStays
<1>2. CASE GammaInv /\ ~crossed'
    BY <1>2, GammaSoundStep, NeedlessStep, QuietStep DEF GammaInv
<1> QED BY <1>1, <1>2

\* Until a monitor or the switch is touched before the actor has followed the last time, every
\* object, control and backoff of an output is accounted for, of any outputs, levels and limits
\* (every closure of waylandActor).
THEOREM GammaInvariant == GammaSpec => [](crossed \/ GammaInv)
BY GammaInitSound, GammaInvStep, PTL DEF GammaSpec

\* Short of such a crossing there is at no time a control that its output's object does not
\* know: setupOutputControls and addOutputControl replace no object whose control lives.
THEOREM ControlsAreKnown == GammaSpec => []NoControlLeaks
<1>1. crossed \/ GammaInv => NoControlLeaks
    <2> SUFFICES ASSUME GammaInv, NEW o \in Outs, NEW c \in Handles, dev[o].ctl[c].st = "holds"
                 PROVE  dev[o].tracked # 0 /\ dev[o].obj[dev[o].tracked].ctl = c
        BY DEF NoControlLeaks
    <2> QED BY SoundTables DEF Shape, GammaInv
<1> QED BY <1>1, GammaInvariant, PTL

-----------------------------------------------------------------------------
(* The retries of an output: it has one backoff, or one control that may   *)
(* still fail, or one failure to hear, so its count cannot pass the limit. *)

LEMMA ChanceParts ==
    ASSUME NEW r \in OutputTables
    PROVE  /\ r.tracked # 0 => r.tracked \in Slots /\ r.obj[r.tracked].ctl \in Handles \cup {0}
           /\ \A k \in Slots : r.obj[k].timers \in Nat /\ r.obj[k].queued \in Nat /\ r.obj[k].retry \in Nat
           /\ MaxRetries \in Nat /\ MaxRetries > 0
BY TableParts, ObjectParts, GammaAssumption

\* An output that gets no new backoff, failure or control keeps its one chance.
LEMMA ChanceKept ==
    ASSUME NEW r \in OutputTables, NEW t \in OutputTables, NEW f \in Nat, NEW g \in Nat, ChanceOf(r, f), g <= f,
           \A k \in Slots : t.obj[k].retry \in {0, r.obj[k].retry},
           t.tracked # 0 =>
              LET x == r.obj[r.tracked]
                  y == t.obj[r.tracked]
              IN  /\ t.tracked = r.tracked /\ y.timers + y.queued <= x.timers + x.queued
                  /\ MayFail(t) => MayFail(r)
                  /\ y.ctl # 0 => x.ctl # 0
    PROVE  ChanceOf(t, g)
<1>1. \A k \in Slots : t.obj[k].retry <= MaxRetries
    BY ChanceParts DEF ChanceOf
<1>2. ASSUME t.tracked # 0
      PROVE  LET y == t.obj[t.tracked]
             IN  /\ y.timers + y.queued + g + (IF MayFail(t) THEN 1 ELSE 0) <= 1
                 /\ g > 0 \/ y.ctl # 0 => y.retry < MaxRetries
    <2> DEFINE k == r.tracked
               x == r.obj[k]
               y == t.obj[k]
    <2>1. /\ k # 0 /\ k \in Slots /\ t.tracked = k /\ y.timers + y.queued <= x.timers + x.queued
          /\ (MayFail(t) => MayFail(r)) /\ (y.ctl # 0 => x.ctl # 0) /\ y.retry \in {0, x.retry}
        BY <1>2, ChanceParts
    <2>2. /\ x.timers + x.queued + f + (IF MayFail(r) THEN 1 ELSE 0) <= 1
          /\ f > 0 \/ x.ctl # 0 => x.retry < MaxRetries
        BY <2>1 DEF ChanceOf
    <2>3. /\ x.timers \in Nat /\ x.queued \in Nat /\ x.retry \in Nat /\ y.timers \in Nat /\ y.queued \in Nat /\ y.retry \in Nat
          /\ MaxRetries \in Nat /\ MaxRetries > 0
        BY <2>1, ChanceParts
    <2> HIDE DEF x, y, k
    <2>4. y.timers + y.queued + g + (IF MayFail(t) THEN 1 ELSE 0) <= 1
        BY <2>1, <2>2, <2>3
    <2>5. g > 0 \/ y.ctl # 0 => y.retry < MaxRetries
        BY <2>1, <2>2, <2>3
    <2> QED BY <2>1, <2>4, <2>5 DEF x, y, k
<1> QED BY <1>1, <1>2 DEF ChanceOf

\* An output that has just been given its control.
LEMMA ChanceAttached ==
    ASSUME NEW o \in Outs, NEW r \in OutputTables, Shape(r), Vacant(r), FreeSlots(r) # {}, FreeHandles(r) # {}
    PROVE  ChanceOf(Attached(r, o), 0)
<1> DEFINE t == Attached(r, o)
<1>1. /\ t \in OutputTables /\ t.tracked \in Slots
      /\ \A k \in Slots : t.obj[k].timers = 0 /\ t.obj[k].queued = 0 /\ t.obj[k].retry = 0
    BY AttachedFacts
<1> HIDE DEF t
<1>2. ChanceOf(t, 0)
    BY <1>1, GammaAssumption DEF ChanceOf
<1> QED BY <1>2 DEF t

\* A failure uses up the chance, and the backoff it starts is the next one.
LEMMA ChanceFailed ==
    ASSUME NEW o \in Outs, NEW r \in OutputTables, Shape(r), NEW g \in Nat, ChanceOf(r, g + 1)
    PROVE  ChanceOf(FailedOutput(r, o), g)
<1>1. CASE r.tracked = 0
    BY <1>1 DEF FailedOutput, ChanceOf
<1>2. CASE r.tracked # 0
    <2> DEFINE t == FailedOutput(r, o)
               k == r.tracked
               x == r.obj[k]
               y == t.obj[k]
    <2>1. /\ t \in OutputTables /\ t.tracked = k /\ \A j \in Slots : j # k => t.obj[j] = r.obj[j]
          /\ y.ctl = 0 /\ y.retry = x.retry + 1 /\ y.queued = x.queued
          /\ y.timers = IF o \in available THEN x.timers + 1 ELSE x.timers
        BY <1>2, FailedFacts
    <2>2. k \in Slots /\ x.timers \in Nat /\ x.queued \in Nat /\ x.retry \in Nat /\ MaxRetries \in Nat
        BY <1>2, ChanceParts
    <2>3. /\ x.timers + x.queued + (g + 1) + (IF MayFail(r) THEN 1 ELSE 0) <= 1 /\ x.retry < MaxRetries
          /\ \A j \in Slots : r.obj[j].retry <= MaxRetries
        <3>1. g + 1 > 0
            OBVIOUS
        <3> QED BY <1>2, <3>1 DEF ChanceOf
    <2> HIDE DEF x
    <2>4. x.timers = 0 /\ x.queued = 0 /\ g = 0 /\ x.retry + 1 <= MaxRetries
        BY <2>2, <2>3
    <2>5. ~MayFail(t)
        BY <2>1 DEF MayFail
    <2>6. \A j \in Slots : t.obj[j].retry <= MaxRetries
        BY <2>1, <2>3, <2>4
    <2> HIDE DEF t, k
    <2>7. y.timers + y.queued + g + (IF MayFail(t) THEN 1 ELSE 0) <= 1 /\ ~(g > 0 \/ y.ctl # 0)
        BY <2>1, <2>4, <2>5
    <2>8. ChanceOf(t, g)
        BY <2>1, <2>6, <2>7 DEF ChanceOf
    <2> QED BY <2>8 DEF t
<1> QED BY <1>1, <1>2

\* A backoff that ran gives the chance to the new control, or to nobody.
LEMMA ChanceRecreated ==
    ASSUME NEW o \in Outs, NEW r \in OutputTables, Shape(r), NEW k \in Slots, r.obj[k].queued > 0, FreeHandles(r) # {},
           NEW f \in Nat, ChanceOf(r, f)
    PROVE  ChanceOf(Recreated(r, o, k), f)
<1> DEFINE t == Recreated(r, o, k)
           x == r.obj[k]
           y == t.obj[k]
<1>1. RecreatedTable(r, k, t) /\ RecreatedControl(r, o, k, t)
    BY RecreatedFacts
<1> SUFFICES ChanceOf(t, f)
    OBVIOUS
<1> HIDE DEF t
<1>2. /\ t \in OutputTables /\ t.tracked = r.tracked /\ (r.tracked # 0 => k = r.tracked)
      /\ \A j \in Slots : t.obj[j].timers = r.obj[j].timers /\ t.obj[j].retry \in {0, r.obj[j].retry}
      /\ y.queued = x.queued - 1
    BY <1>1 DEF RecreatedTable
<1>3. \A j \in Slots : t.obj[j].retry <= MaxRetries
    BY <1>2, ChanceParts DEF ChanceOf
<1>4. CASE r.tracked = 0
    BY <1>2, <1>3, <1>4 DEF ChanceOf
<1>5. CASE r.tracked # 0
    <2>1. k = r.tracked /\ x.timers \in Nat /\ x.queued \in Nat /\ x.retry \in Nat /\ MaxRetries \in Nat /\ MaxRetries > 0 /\ y.timers = x.timers
        BY <1>2, <1>5, ChanceParts
    <2>2. x.timers + x.queued + f + (IF MayFail(r) THEN 1 ELSE 0) <= 1 /\ (x.ctl # 0 => x.retry < MaxRetries)
        BY <1>5, <2>1 DEF ChanceOf
    <2>3. x.timers = 0 /\ x.queued = 1 /\ f = 0 /\ ~MayFail(r) /\ y.timers = 0 /\ y.queued = 0
        <3> HIDE DEF x, y
        <3>1. x.queued > 0
            BY DEF x
        <3> QED BY <1>2, <2>1, <2>2, <3>1
    <2>4. y.ctl # 0 => y.retry < MaxRetries
        <3>1. CASE y = [x EXCEPT !.queued = x.queued - 1]
            <4>1. x \in Objects
                BY TableParts
            <4> HIDE DEF x, y
            <4>2. y.ctl = x.ctl /\ y.retry = x.retry
                BY <3>1, <4>1 DEF Objects
            <4> QED BY <2>2, <4>2
        <3>2. CASE x.retry < MaxRetries /\ y.retry = x.retry
            BY <3>2
        <3> QED BY <1>1, <2>1, <3>1, <3>2 DEF RecreatedControl
    <2>5. y.timers + y.queued + f + (IF MayFail(t) THEN 1 ELSE 0) <= 1
        BY <2>3
    <2> QED BY <1>2, <1>3, <2>1, <2>3, <2>4, <2>5 DEF ChanceOf
<1> QED BY <1>4, <1>5

\* The failures to hear that are left when a command has been taken or another one posted.
LEMMA FailuresTaken ==
    ASSUME GammaSound, NEW do, TakeCmd(do), NEW o \in Outs
    PROVE  /\ HowMany(cmdq, Failures(o)) \in Nat /\ HowMany(cmdq', Failures(o)) \in Nat
           /\ HowMany(cmdq, Failures(o)) =
                 HowMany(cmdq', Failures(o)) + (IF do = "failed" /\ Head(cmdq).out = o THEN 1 ELSE 0)
<1>1. /\ Head(cmdq) \in Closures /\ Head(cmdq).do = do
      /\ \A S : /\ HowMany(cmdq, S) \in Nat /\ HowMany(cmdq', S) \in Nat
                /\ HowMany(cmdq, S) = HowMany(cmdq', S) + (IF Head(cmdq) \in S THEN 1 ELSE 0)
    BY Takes DEF GammaSound
<1>2. Head(cmdq) \in Failures(o) <=> do = "failed" /\ Head(cmdq).out = o
    BY <1>1, CommandKinds
<1> QED BY <1>1, <1>2

LEMMA FailuresPosted ==
    ASSUME GammaSound, NEW c \in Closures, cmdq' = Posted(cmdq, c), NEW o \in Outs
    PROVE  /\ HowMany(cmdq, Failures(o)) \in Nat /\ HowMany(cmdq', Failures(o)) \in Nat
           /\ HowMany(cmdq', Failures(o)) <= HowMany(cmdq, Failures(o)) + (IF c.do = "failed" /\ c.out = o THEN 1 ELSE 0)
           /\ c.do # "failed" \/ c.out # o => HowMany(cmdq', Failures(o)) = HowMany(cmdq, Failures(o))
<1>1. \A S : /\ HowMany(cmdq, S) \in Nat /\ HowMany(cmdq', S) \in Nat
             /\ HowMany(cmdq', S) <= HowMany(cmdq, S) + (IF c \in S THEN 1 ELSE 0)
             /\ HowMany(cmdq', S) >= HowMany(cmdq, S)
    BY Posts DEF GammaSound
<1>2. c \in Failures(o) <=> c.do = "failed" /\ c.out = o
    BY CommandKinds
<1>3. HowMany(cmdq', Failures(o)) <= HowMany(cmdq, Failures(o)) + (IF c \in Failures(o) THEN 1 ELSE 0)
    BY <1>1
<1>4. HowMany(cmdq, Failures(o)) \in Nat /\ HowMany(cmdq', Failures(o)) \in Nat
         /\ HowMany(cmdq', Failures(o)) >= HowMany(cmdq, Failures(o))
    BY <1>1
<1> QED BY <1>2, <1>3, <1>4

\* The actions that leave the table alone post no failure.
LEMMA ChanceUntouched ==
    ASSUME GammaSound, RetriesBounded, dev' = dev,
           \/ cmdq' = cmdq
           \/ \E s \in {"apply", "resume", "setup", "teardown"} : cmdq' = Posted(cmdq, Simple(s))
           \/ \E o \in Outs : cmdq' = Posted(cmdq, Cmd("add", o, 0))
    PROVE  RetriesBounded'
<1>1. CASE cmdq' = cmdq
    BY <1>1 DEF RetriesBounded
<1>2. ASSUME NEW c \in Closures, c.do # "failed", cmdq' = Posted(cmdq, c)
      PROVE  RetriesBounded'
    <2>1. \A o \in Outs : HowMany(cmdq', Failures(o)) = HowMany(cmdq, Failures(o))
        BY <1>2, FailuresPosted
    <2> QED BY <2>1 DEF RetriesBounded
<1>3. CASE \E s \in {"apply", "resume", "setup", "teardown"} : cmdq' = Posted(cmdq, Simple(s))
    <2>1. PICK s \in {"apply", "resume", "setup", "teardown"} : cmdq' = Posted(cmdq, Simple(s))
        BY <1>3
    <2>2. Simple(s) \in Closures /\ Simple(s).do # "failed"
        BY CommandsMade
    <2> QED BY <1>2, <2>1, <2>2
<1>4. CASE \E o \in Outs : cmdq' = Posted(cmdq, Cmd("add", o, 0))
    <2>1. PICK o \in Outs : cmdq' = Posted(cmdq, Cmd("add", o, 0))
        BY <1>4
    <2>2. Cmd("add", o, 0) \in Closures /\ Cmd("add", o, 0).do # "failed"
        BY CommandsMade
    <2> QED BY <1>2, <2>1, <2>2
<1> QED BY <1>1, <1>3, <1>4

LEMMA SetupRetries ==
    ASSUME GammaSound, RetriesBounded, TakeCmd("setup"), SetupOutputControls
    PROVE  RetriesBounded'
<1>1. SetupDue
    <2>1. HowMany(cmdq, SetUps) > 0
        <3>1. /\ Head(cmdq) \in Closures /\ Head(cmdq).do = "setup"
              /\ \A S : /\ HowMany(cmdq, S) \in Nat /\ HowMany(cmdq', S) \in Nat
                        /\ HowMany(cmdq, S) = HowMany(cmdq', S) + (IF Head(cmdq) \in S THEN 1 ELSE 0)
            BY Takes DEF GammaSound
        <3>2. Head(cmdq) \in SetUps
            BY <3>1, CommandKinds
        <3> QED BY <3>1, <3>2
    <2> QED BY <2>1 DEF SetupDue
<1> SUFFICES ASSUME NEW o \in Outs PROVE ChanceOf(dev'[o], HowMany(cmdq', Failures(o)))
    BY DEF RetriesBounded
<1>2. /\ Shape(dev[o]) /\ dev[o] \in OutputTables /\ Vacant(dev[o]) /\ HowMany(cmdq, Failures(o)) = 0
      /\ ChanceOf(dev[o], HowMany(cmdq, Failures(o)))
    BY <1>1, SoundTables DEF OutputSound, RetriesBounded
<1>3. HowMany(cmdq', Failures(o)) = 0
    BY <1>2, FailuresTaken
<1>4. CASE o \in available
    <2>1. dev'[o] = Attached(dev[o], o) /\ FreeSlots(dev[o]) # {} /\ FreeHandles(dev[o]) # {}
        BY <1>4 DEF SetupOutputControls, Room
    <2>2. ChanceOf(Attached(dev[o], o), 0)
        BY <1>2, <2>1, ChanceAttached
    <2> QED BY <1>3, <2>1, <2>2
<1>5. CASE o \notin available
    <2>1. dev'[o] = dev[o]
        BY <1>5 DEF SetupOutputControls
    <2> QED BY <1>2, <1>3, <2>1
<1> QED BY <1>4, <1>5

LEMMA RunAddRetries == ASSUME GammaSound, RetriesBounded, RunAdd PROVE RetriesBounded'
<1> DEFINE o == Head(cmdq).out
<1>1. /\ TakeCmd("add") /\ ActorIdle /\ "add" \in StructuralDo
      /\ Room({o}) /\ dev' = [dev EXCEPT ![o] = Attached(@, o)]
    BY DEF RunAdd, StructuralDo
<1>2. AddDue(o) /\ o \in Outs
    BY <1>1, StructuralTaken, CommandKinds
<1> HIDE DEF o
<1> SUFFICES ASSUME NEW p \in Outs PROVE ChanceOf(dev'[p], HowMany(cmdq', Failures(p)))
    BY DEF RetriesBounded
<1>3. /\ Shape(dev[p]) /\ dev[p] \in OutputTables /\ OutputSound(p) /\ dev \in [Outs -> OutputTables]
      /\ ChanceOf(dev[p], HowMany(cmdq, Failures(p)))
    BY SoundTables DEF RetriesBounded
<1>4. HowMany(cmdq', Failures(p)) = HowMany(cmdq, Failures(p))
    BY <1>1, FailuresTaken
<1>5. CASE p = o
    <2>1. Vacant(dev[p]) /\ HowMany(cmdq, Failures(p)) = 0
        BY <1>2, <1>3, <1>5 DEF OutputSound
    <2>2. dev'[p] = Attached(dev[p], p) /\ FreeSlots(dev[p]) # {} /\ FreeHandles(dev[p]) # {}
        BY <1>1, <1>3, <1>5 DEF Room
    <2>3. ChanceOf(Attached(dev[p], p), 0)
        BY <1>3, <2>1, <2>2, ChanceAttached
    <2> QED BY <1>4, <2>1, <2>2, <2>3
<1>6. CASE p # o
    <2>1. dev'[p] = dev[p]
        BY <1>1, <1>3, <1>6
    <2> QED BY <1>3, <1>4, <2>1
<1> QED BY <1>5, <1>6

LEMMA DetachedRetries ==
    ASSUME GammaSound, RetriesBounded, NEW do \in {"teardown", "removed"}, TakeCmd(do),
           \A o \in Outs : dev'[o] \in {dev[o], Detached(dev[o])}
    PROVE  RetriesBounded'
<1> SUFFICES ASSUME NEW o \in Outs PROVE ChanceOf(dev'[o], HowMany(cmdq', Failures(o)))
    BY DEF RetriesBounded
<1>1. Shape(dev[o]) /\ dev[o] \in OutputTables /\ ChanceOf(dev[o], HowMany(cmdq, Failures(o)))
    BY SoundTables DEF RetriesBounded
<1>2. /\ HowMany(cmdq', Failures(o)) = HowMany(cmdq, Failures(o)) /\ HowMany(cmdq, Failures(o)) \in Nat
    BY FailuresTaken
<1> DEFINE r == dev[o]
           t == Detached(r)
<1>3. /\ t \in OutputTables /\ t.tracked = 0
      /\ \A k \in Slots : t.obj[k].retry \in {0, r.obj[k].retry}
    BY <1>1, DetachedFacts
<1> HIDE DEF t
<1>4. ChanceOf(t, HowMany(cmdq, Failures(o)))
    BY <1>1, <1>2, <1>3, ChanceKept
<1> QED BY <1>1, <1>2, <1>4 DEF t

\* Writing a level does not give an output a new chance.
LEMMA ChanceRewritten ==
    ASSUME NEW r \in OutputTables, Shape(r), NEW t, Rewrites(r, t), NEW f \in Nat, ChanceOf(r, f)
    PROVE  ChanceOf(t, f)
<1>1. t \in OutputTables /\ t.tracked = r.tracked /\ t.ctl = r.ctl
    BY DEF Rewrites
<1>2. \A k \in Slots : t.obj[k].retry \in {0, r.obj[k].retry}
    BY RewritesShape
<1>3. r.tracked # 0 =>
          LET x == r.obj[r.tracked]
              y == t.obj[r.tracked]
          IN  y.timers = x.timers /\ y.queued = x.queued /\ y.ctl = x.ctl /\ x.timers \in Nat /\ x.queued \in Nat
    BY ChanceParts DEF Rewrites, Waits
<1>4. r.tracked # 0 => (MayFail(t) <=> MayFail(r))
    BY <1>1, <1>3 DEF MayFail
<1> QED BY <1>1, <1>2, <1>3, <1>4, ChanceKept

LEMMA ChanceApplied ==
    ASSUME NEW d \in [Outs -> OutputTables], level \in Levels, NEW bad, NEW o \in Outs, Shape(d[o]),
           NEW f \in Nat, ChanceOf(d[o], f)
    PROVE  ChanceOf(Applied(d, bad)[o], f)
<1>1. Applied(d, bad)[o] \in {d[o], AppliedOutput(d[o], o, bad)}
    BY DEF Applied
<1>2. Rewrites(d[o], AppliedOutput(d[o], o, bad))
    BY AppliedFacts
<1>3. ChanceOf(AppliedOutput(d[o], o, bad), f)
    BY <1>2, ChanceRewritten
<1> QED BY <1>1, <1>3

LEMMA ChanceSized ==
    ASSUME NEW r \in OutputTables, Shape(r), NEW f \in Nat, ChanceOf(r, f)
    PROVE  SizedOutput(r) \in OutputTables /\ Shape(SizedOutput(r)) /\ ChanceOf(SizedOutput(r), f)
<1>1. CASE r.tracked = 0
    BY <1>1 DEF SizedOutput
<1>2. CASE r.tracked # 0
    <2> DEFINE t == SizedOutput(r)
               k == r.tracked
    <2>1. /\ t \in OutputTables /\ t.tracked = k /\ t.ctl = r.ctl
          /\ \A j \in Slots : j # k => t.obj[j] = r.obj[j]
          /\ t.obj[k].ctl = r.obj[k].ctl /\ t.obj[k].retry = 0
          /\ t.obj[k].timers = r.obj[k].timers /\ t.obj[k].queued = r.obj[k].queued
        BY <1>2, SizedFacts DEF Waits
    <2> HIDE DEF t
    <2>2. \A j \in Slots : t.obj[j].retry \in {0, r.obj[j].retry} /\ t.obj[j].ctl = r.obj[j].ctl
        BY <2>1
    <2>3. MayFail(t) <=> MayFail(r)
        BY <2>1 DEF MayFail
    <2>4. r.obj[k].timers \in Nat /\ r.obj[k].queued \in Nat
        BY <1>2, ChanceParts
    <2>5. ChanceOf(t, f)
        BY <2>1, <2>2, <2>3, <2>4, ChanceKept
    <2>6. Shape(t)
        BY <2>1, <2>2, ShapeKept
    <2> QED BY <2>1, <2>5, <2>6 DEF t
<1> QED BY <1>1, <1>2

LEMMA RunSizeRetries == ASSUME GammaSound, RetriesBounded, RunSize PROVE RetriesBounded'
<1> DEFINE o == Head(cmdq).out
           d == [dev EXCEPT ![o] = SizedOutput(@)]
<1>1. TakeCmd("size") /\ ApplyOn(d)
    BY DEF RunSize
<1>2. PICK bad : dev' = Applied(d, bad)
    BY <1>1 DEF ApplyOn
<1>3. ASSUME NEW p \in Outs
      PROVE  /\ d[p] \in OutputTables /\ Shape(d[p]) /\ ChanceOf(d[p], HowMany(cmdq, Failures(p)))
             /\ HowMany(cmdq', Failures(p)) = HowMany(cmdq, Failures(p)) /\ HowMany(cmdq, Failures(p)) \in Nat
    <2>1. HowMany(cmdq', Failures(p)) = HowMany(cmdq, Failures(p)) /\ HowMany(cmdq, Failures(p)) \in Nat
        BY <1>1, FailuresTaken
    <2>2. /\ dev[p] \in OutputTables /\ Shape(dev[p]) /\ ChanceOf(dev[p], HowMany(cmdq, Failures(p)))
          /\ d[p] \in {dev[p], SizedOutput(dev[p])}
        BY SoundTables DEF RetriesBounded
    <2> QED BY <2>1, <2>2, ChanceSized
<1>4. d \in [Outs -> OutputTables] /\ level \in Levels
    BY <1>3, SoundTables
<1> HIDE DEF d
<1> SUFFICES ASSUME NEW p \in Outs PROVE ChanceOf(dev'[p], HowMany(cmdq', Failures(p)))
    BY DEF RetriesBounded
<1>5. Shape(d[p]) /\ ChanceOf(d[p], HowMany(cmdq, Failures(p))) /\ HowMany(cmdq, Failures(p)) \in Nat
    BY <1>3
<1>6. ChanceOf(Applied(d, bad)[p], HowMany(cmdq, Failures(p)))
    BY <1>4, <1>5, ChanceApplied
<1> QED BY <1>2, <1>3, <1>6

LEMMA RunFailedRetries == ASSUME GammaSound, RetriesBounded, RunFailed PROVE RetriesBounded'
<1> DEFINE o == Head(cmdq).out
<1>1. TakeCmd("failed") /\ dev' = [dev EXCEPT ![o] = FailedOutput(@, o)]
    BY DEF RunFailed
<1> SUFFICES ASSUME NEW p \in Outs PROVE ChanceOf(dev'[p], HowMany(cmdq', Failures(p)))
    BY DEF RetriesBounded
<1>2. /\ HowMany(cmdq, Failures(p)) = HowMany(cmdq', Failures(p)) + (IF o = p THEN 1 ELSE 0)
      /\ HowMany(cmdq, Failures(p)) \in Nat /\ HowMany(cmdq', Failures(p)) \in Nat
    BY <1>1, FailuresTaken
<1>3. /\ Shape(dev[p]) /\ dev[p] \in OutputTables /\ ChanceOf(dev[p], HowMany(cmdq, Failures(p)))
      /\ dev'[p] = IF o = p THEN FailedOutput(dev[p], p) ELSE dev[p]
    BY <1>1, SoundTables DEF RetriesBounded
<1> HIDE DEF o
<1>4. CASE o = p
    <2>1. ChanceOf(dev[p], HowMany(cmdq', Failures(p)) + 1)
        BY <1>2, <1>3, <1>4
    <2>2. ChanceOf(FailedOutput(dev[p], p), HowMany(cmdq', Failures(p)))
        BY <1>2, <1>3, <2>1, ChanceFailed
    <2> QED BY <1>3, <1>4, <2>2
<1>5. CASE o # p
    <2>1. HowMany(cmdq', Failures(p)) = HowMany(cmdq, Failures(p))
        BY <1>2, <1>5
    <2> QED BY <1>3, <1>5, <2>1
<1> QED BY <1>4, <1>5

LEMMA RunRecreateRetries == ASSUME GammaSound, RetriesBounded, RunRecreate PROVE RetriesBounded'
<1> DEFINE o == Head(cmdq).out
           k == Head(cmdq).obj
<1>1. /\ TakeCmd("recreate") /\ ActorIdle /\ UNCHANGED <<available, controlsInitialized>> /\ "recreate" \in OtherDo
      /\ FreeHandles(dev[o]) # {} /\ dev' = [dev EXCEPT ![o] = Recreated(@, o, k)]
    BY DEF RunRecreate, OtherDo
<1>2. o \in Outs /\ k \in Slots /\ Head(cmdq) \in Recreates(o, k)
    BY <1>1, OtherTaken, CommandKinds
<1>3. dev[o].obj[k].queued > 0
    <2>1. dev[o].obj[k].queued = HowMany(cmdq, Recreates(o, k))
        BY <1>2, SoundTables DEF OutputSound
    <2>2. HowMany(cmdq, Recreates(o, k)) > 0
        BY <1>1, <1>2, OtherTaken
    <2> QED BY <2>1, <2>2
<1> HIDE DEF o, k
<1> SUFFICES ASSUME NEW p \in Outs PROVE ChanceOf(dev'[p], HowMany(cmdq', Failures(p)))
    BY DEF RetriesBounded
<1>4. HowMany(cmdq, Failures(p)) = HowMany(cmdq', Failures(p)) /\ HowMany(cmdq, Failures(p)) \in Nat
    BY <1>1, FailuresTaken
<1>5. /\ Shape(dev[p]) /\ dev[p] \in OutputTables /\ ChanceOf(dev[p], HowMany(cmdq, Failures(p)))
      /\ dev'[p] = IF o = p THEN Recreated(dev[p], p, k) ELSE dev[p]
    BY <1>1, SoundTables DEF RetriesBounded
<1>6. CASE o = p
    <2>1. ChanceOf(Recreated(dev[p], p, k), HowMany(cmdq, Failures(p)))
        BY <1>1, <1>2, <1>3, <1>4, <1>5, <1>6, ChanceRecreated
    <2> QED BY <1>4, <1>5, <1>6, <2>1
<1>7. CASE o # p
    BY <1>4, <1>5, <1>7
<1> QED BY <1>6, <1>7

LEMMA AppliedRetries ==
    ASSUME GammaSound, RetriesBounded, NEW do \in {"apply", "resume"}, TakeCmd(do), NEW d, NEW bad,
           dev' = Applied(d, bad), d \in [Outs -> OutputTables],
           \A o \in Outs : Shape(d[o]) /\ ChanceOf(d[o], HowMany(cmdq, Failures(o)))
    PROVE  RetriesBounded'
<1> SUFFICES ASSUME NEW o \in Outs PROVE ChanceOf(dev'[o], HowMany(cmdq', Failures(o)))
    BY DEF RetriesBounded
<1>1. HowMany(cmdq', Failures(o)) = HowMany(cmdq, Failures(o)) /\ HowMany(cmdq, Failures(o)) \in Nat
    BY FailuresTaken
<1>2. ChanceOf(Applied(d, bad)[o], HowMany(cmdq, Failures(o)))
    BY <1>1, ChanceApplied, SoundTables
<1> QED BY <1>1, <1>2

LEMMA RunApplyRetries == ASSUME GammaSound, RetriesBounded, RunApply PROVE RetriesBounded'
<1>1. TakeCmd("apply") /\ ApplyOn(dev)
    BY DEF RunApply
<1>2. PICK bad : dev' = Applied(dev, bad)
    BY <1>1 DEF ApplyOn
<1> QED BY <1>1, <1>2, AppliedRetries, SoundTables DEF RetriesBounded

LEMMA RunResumeRetries == ASSUME GammaSound, RetriesBounded, RunResume PROVE RetriesBounded'
<1> DEFINE d == [o \in Outs |-> Forgotten(dev[o])]
<1>1. TakeCmd("resume") /\ (ApplyOn(d) \/ UNCHANGED dev)
    BY DEF RunResume
<1>2. \A o \in Outs : /\ HowMany(cmdq', Failures(o)) = HowMany(cmdq, Failures(o)) /\ HowMany(cmdq, Failures(o)) \in Nat
                      /\ ChanceOf(dev[o], HowMany(cmdq, Failures(o))) /\ Shape(dev[o]) /\ dev[o] \in OutputTables
    BY <1>1, FailuresTaken, SoundTables DEF RetriesBounded
<1>3. CASE ApplyOn(d)
    <2>1. PICK bad : dev' = Applied(d, bad)
        BY <1>3 DEF ApplyOn
    <2>2. ASSUME NEW o \in Outs
          PROVE  d[o] \in OutputTables /\ Shape(d[o]) /\ ChanceOf(d[o], HowMany(cmdq, Failures(o)))
        <3>1. Rewrites(dev[o], d[o])
            BY <1>2, ForgottenFacts
        <3> QED BY <1>2, <3>1, RewritesShape, ChanceRewritten DEF Rewrites
    <2>3. d \in [Outs -> OutputTables]
        BY <2>2
    <2> HIDE DEF d
    <2> QED BY <1>1, <2>1, <2>2, <2>3, AppliedRetries
<1>4. CASE UNCHANGED dev
    BY <1>2, <1>4 DEF RetriesBounded
<1> QED BY <1>1, <1>3, <1>4

\* A control that is told that its output is gone had been alive.
LEMMA ChanceVoided ==
    ASSUME NEW r \in OutputTables, Shape(r), NEW c \in Handles, r.ctl[c].st = "holds", NEW f \in Nat, ChanceOf(r, f)
    PROVE  ChanceOf(Voided(r, c), f)
<1> DEFINE t == Voided(r, c)
<1>1. /\ t \in OutputTables /\ t.tracked = r.tracked /\ t.obj = r.obj
      /\ \A h \in Handles : t.ctl[h] = IF h = c THEN Refused ELSE r.ctl[h]
    BY VoidedFacts
<1> HIDE DEF t
<1>2. r.tracked # 0 /\ r.obj[r.tracked].ctl = c /\ c # 0
    BY DEF Shape, Handles
<1>3. MayFail(r)
    <2>1. r.ctl[c] # [st |-> "void", ev |-> "none"]
        OBVIOUS
    <2> QED BY <1>2, <2>1 DEF MayFail
<1>4. r.obj[r.tracked].timers \in Nat /\ r.obj[r.tracked].queued \in Nat
    BY <1>2, ChanceParts
<1>5. ChanceOf(t, f)
    BY <1>1, <1>3, <1>4, ChanceKept
<1> QED BY <1>5 DEF t

LEMMA TableRetries ==
    ASSUME RetriesBounded, cmdq' = cmdq,
           \A o \in Outs : ChanceOf(dev[o], HowMany(cmdq, Failures(o))) => ChanceOf(dev'[o], HowMany(cmdq, Failures(o)))
    PROVE  RetriesBounded'
BY DEF RetriesBounded

LEMMA LoseControlRetries ==
    ASSUME GammaSound, RetriesBounded, NEW o \in Outs, NEW c \in Handles, LoseControl(o, c) PROVE RetriesBounded'
<1>1. dev[o].ctl[c].st = "holds" /\ dev' = [dev EXCEPT ![o] = Voided(@, c)] /\ cmdq' = cmdq
    BY DEF LoseControl
<1>2. ASSUME NEW p \in Outs, ChanceOf(dev[p], HowMany(cmdq, Failures(p)))
      PROVE  ChanceOf(dev'[p], HowMany(cmdq, Failures(p)))
    <2>1. Shape(dev[p]) /\ dev[p] \in OutputTables /\ dev'[p] = IF p = o THEN Voided(dev[p], c) ELSE dev[p]
        BY <1>1, SoundTables
    <2>2. HowMany(cmdq, Failures(p)) \in Nat
        BY Counted DEF GammaSound, GammaTypes
    <2>3. p = o => ChanceOf(Voided(dev[p], c), HowMany(cmdq, Failures(p)))
        BY <1>1, <1>2, <2>1, <2>2, ChanceVoided
    <2> QED BY <1>2, <2>1, <2>3
<1> QED BY <1>1, <1>2, TableRetries

LEMMA WakeUpRetries == ASSUME GammaSound, RetriesBounded, WakeUp PROVE RetriesBounded'
<1>1. PICK lost : dev' = [o \in Outs |-> IF o \in lost THEN [dev[o] EXCEPT !.shown = Plain] ELSE dev[o]]
    BY DEF WakeUp
<1>2. ASSUME NEW p \in Outs, ChanceOf(dev[p], HowMany(cmdq, Failures(p)))
      PROVE  ChanceOf(dev'[p], HowMany(cmdq, Failures(p)))
    <2> DEFINE r == dev[p]
               t == [r EXCEPT !.shown = Plain]
    <2>1. r \in OutputTables /\ dev'[p] \in {r, t}
        BY <1>1, SoundTables
    <2>2. t.tracked = r.tracked /\ t.obj = r.obj /\ t.ctl = r.ctl
        BY <2>1 DEF OutputTables
    <2> HIDE DEF r, t
    <2>3. ChanceOf(r, HowMany(cmdq, Failures(p))) => ChanceOf(t, HowMany(cmdq, Failures(p)))
        BY <2>2 DEF ChanceOf, MayFail
    <2> QED BY <1>2, <2>1, <2>3 DEF r
<1>3. cmdq' = cmdq
    BY DEF WakeUp
<1> QED BY <1>2, <1>3, TableRetries

LEMMA UnplugRetries == ASSUME GammaSound, RetriesBounded, NEW o \in Outs, Unplug(o) PROVE RetriesBounded'
<1> DEFINE m == Cmd("removed", o, 0)
<1>1. /\ cmdq' = Posted(cmdq, m)
      /\ dev' = [dev EXCEPT ![o] = IF Holds(@) THEN Voided(@, CHOOSE c \in Handles : @.ctl[c].st = "holds") ELSE @]
    BY DEF Unplug
<1>2. m \in Closures /\ m.do # "failed"
    BY CommandsMade
<1> HIDE DEF m
<1> SUFFICES ASSUME NEW p \in Outs PROVE ChanceOf(dev'[p], HowMany(cmdq', Failures(p)))
    BY DEF RetriesBounded
<1>3. HowMany(cmdq', Failures(p)) = HowMany(cmdq, Failures(p)) /\ HowMany(cmdq, Failures(p)) \in Nat
    BY <1>1, <1>2, FailuresPosted
<1>4. Shape(dev[p]) /\ dev[p] \in OutputTables /\ dev \in [Outs -> OutputTables] /\ ChanceOf(dev[p], HowMany(cmdq, Failures(p)))
    BY SoundTables DEF RetriesBounded
<1>5. CASE p = o /\ Holds(dev[p])
    <2> DEFINE c == CHOOSE c \in Handles : dev[p].ctl[c].st = "holds"
    <2>1. c \in Handles /\ dev[p].ctl[c].st = "holds"
        BY <1>5 DEF Holds
    <2>2. dev'[p] = Voided(dev[p], c)
        BY <1>1, <1>4, <1>5
    <2> HIDE DEF c
    <2>3. ChanceOf(Voided(dev[p], c), HowMany(cmdq, Failures(p)))
        BY <1>3, <1>4, <2>1, ChanceVoided
    <2> QED BY <1>3, <2>2, <2>3
<1>6. CASE ~(p = o /\ Holds(dev[p]))
    <2>1. dev'[p] = dev[p]
        BY <1>1, <1>4, <1>6
    <2> QED BY <1>3, <1>4, <2>1
<1> QED BY <1>5, <1>6

\* Hearing that a control failed turns its chance into a failure to run.
LEMMA ChanceHeard ==
    ASSUME NEW r \in OutputTables, Shape(r), NEW c \in Handles, r.ctl[c].ev # "none",
           NEW f \in Nat, NEW g \in Nat, ChanceOf(r, f),
           g <= f + (IF r.ctl[c].ev = "failed" THEN 1 ELSE 0)
    PROVE  ChanceOf([r EXCEPT !.ctl[c].ev = "none"], g)
<1> DEFINE t == [r EXCEPT !.ctl[c].ev = "none"]
           k == r.tracked
           x == r.obj[k]
<1> SUFFICES ChanceOf(t, g)
    OBVIOUS
<1>1. /\ t \in OutputTables /\ t.tracked = k /\ t.obj = r.obj
      /\ \A h \in Handles : t.ctl[h] = IF h = c THEN [st |-> r.ctl[c].st, ev |-> "none"] ELSE r.ctl[h]
    BY HeardFacts
<1> HIDE DEF t
<1>2. r.ctl[c] \in Controls
    BY TableParts
<1>3. /\ r.ctl[c].st # "none" /\ r.ctl[c] # [st |-> "void", ev |-> "none"]
      /\ r.ctl[c].ev \in {"size", "failed"} /\ (r.ctl[c].ev = "failed" => r.ctl[c].st = "void")
    BY <1>2 DEF Controls
<1>4. k # 0 /\ x.ctl = c /\ c # 0 /\ k \in Slots
    BY <1>3, ChanceParts DEF Shape, Handles
<1>5. MayFail(r)
    BY <1>3, <1>4 DEF MayFail
<1>6. /\ x.timers \in Nat /\ x.queued \in Nat /\ x.retry \in Nat /\ x.timers + x.queued + f + 1 <= 1 /\ x.retry < MaxRetries
      /\ \A j \in Slots : r.obj[j].retry <= MaxRetries
    BY <1>4, <1>5, ChanceParts DEF ChanceOf
<1>7. x.timers = 0 /\ x.queued = 0 /\ f = 0
    <2> HIDE DEF x
    <2> QED BY <1>6
<1>8. x.timers + x.queued + g + (IF MayFail(t) THEN 1 ELSE 0) <= 1
    <2>1. CASE r.ctl[c].ev = "failed"
        <3>1. t.ctl[c] = [st |-> "void", ev |-> "none"]
            BY <1>1, <1>3, <2>1
        <3>2. ~MayFail(t)
            BY <1>1, <1>4, <3>1 DEF MayFail
        <3>3. g <= 1
            BY <1>7, <2>1
        <3> QED BY <1>7, <3>2, <3>3
    <2>2. CASE r.ctl[c].ev # "failed"
        <3>1. g = 0
            BY <1>7, <2>2
        <3> QED BY <1>7, <3>1
    <2> QED BY <2>1, <2>2
<1> QED BY <1>1, <1>4, <1>6, <1>8 DEF ChanceOf

LEMMA HearControlRetries ==
    ASSUME GammaSound, RetriesBounded, NEW o \in Outs, NEW c \in Handles, HearControl(o, c) PROVE RetriesBounded'
<1> DEFINE m == Cmd(dev[o].ctl[c].ev, o, 0)
<1>1. dev[o].ctl[c].ev # "none" /\ cmdq' = Posted(cmdq, m) /\ dev' = [dev EXCEPT ![o].ctl[c].ev = "none"]
    BY DEF HearControl
<1>2. dev[o].ctl[c] \in Controls
    BY SoundTables, TableParts
<1>3. dev[o].ctl[c].ev \in {"size", "failed"}
    BY <1>1, <1>2 DEF Controls
<1>4. m \in Closures /\ m.do = dev[o].ctl[c].ev /\ m.out = o
    BY <1>3, CommandsMade
<1> HIDE DEF m
<1> SUFFICES ASSUME NEW p \in Outs PROVE ChanceOf(dev'[p], HowMany(cmdq', Failures(p)))
    BY DEF RetriesBounded
<1>5. /\ HowMany(cmdq, Failures(p)) \in Nat /\ HowMany(cmdq', Failures(p)) \in Nat
      /\ HowMany(cmdq', Failures(p)) <= HowMany(cmdq, Failures(p)) + (IF m.do = "failed" /\ m.out = p THEN 1 ELSE 0)
      /\ m.out # p => HowMany(cmdq', Failures(p)) = HowMany(cmdq, Failures(p))
    BY <1>1, <1>4, FailuresPosted
<1>6. Shape(dev[p]) /\ dev[p] \in OutputTables /\ dev \in [Outs -> OutputTables] /\ ChanceOf(dev[p], HowMany(cmdq, Failures(p)))
    BY SoundTables DEF RetriesBounded
<1>7. CASE p = o
    <2>1. dev'[p] = [dev[p] EXCEPT !.ctl[c].ev = "none"]
        BY <1>1, <1>6, <1>7
    <2>2. ChanceOf([dev[p] EXCEPT !.ctl[c].ev = "none"], HowMany(cmdq', Failures(p)))
        BY <1>1, <1>4, <1>5, <1>6, <1>7, ChanceHeard
    <2> QED BY <2>1, <2>2
<1>8. CASE p # o
    <2>1. dev'[p] = dev[p]
        BY <1>1, <1>6, <1>8
    <2> QED BY <1>4, <1>5, <1>6, <1>8, <2>1
<1> QED BY <1>7, <1>8

\* A backoff that fires becomes a closure to run, or nothing if the queue is full.
LEMMA ChanceFired ==
    ASSUME NEW r \in OutputTables, NEW k \in Slots, r.obj[k].timers > 0, NEW f \in Nat, ChanceOf(r, f),
           NEW q \in {r.obj[k].queued, r.obj[k].queued + 1}
    PROVE  ChanceOf([r EXCEPT !.obj[k] = [r.obj[k] EXCEPT !.timers = r.obj[k].timers - 1, !.queued = q]], f)
<1> DEFINE x == r.obj[k]
           n == x.timers - 1
           y == [x EXCEPT !.timers = n, !.queued = q]
           t == [r EXCEPT !.obj[k] = y]
<1>1. x \in Objects /\ x.timers \in Nat /\ x.queued \in Nat /\ n \in Nat /\ q \in Nat /\ n + q <= x.timers + x.queued
    BY TableParts
<1>2. y \in Objects /\ y.timers = n /\ y.queued = q /\ y.ctl = x.ctl /\ y.retry = x.retry
    <2> HIDE DEF x, n
    <2> QED BY <1>1 DEF Objects
<1> SUFFICES ChanceOf(t, f)
    OBVIOUS
<1> HIDE DEF y
<1>3. t \in OutputTables /\ t.tracked = r.tracked /\ t.obj = [r.obj EXCEPT ![k] = y] /\ t.ctl = r.ctl
    BY <1>2 DEF OutputTables
<1> HIDE DEF t
<1>4. t.obj[k] = y /\ \A j \in Slots : j # k => t.obj[j] = r.obj[j]
    BY <1>3, TableParts
<1>5. \A j \in Slots : /\ t.obj[j].retry \in {0, r.obj[j].retry} /\ t.obj[j].ctl = r.obj[j].ctl
                       /\ t.obj[j].timers + t.obj[j].queued <= r.obj[j].timers + r.obj[j].queued
    BY <1>1, <1>2, <1>4, ChanceParts
<1>6. r.tracked # 0 => r.tracked \in Slots
    BY ChanceParts
<1>7. r.tracked # 0 => (MayFail(t) <=> MayFail(r))
    BY <1>3, <1>5, <1>6 DEF MayFail
<1>8. t.tracked # 0 =>
          LET v == r.obj[r.tracked]
              w == t.obj[r.tracked]
          IN  /\ t.tracked = r.tracked /\ w.timers + w.queued <= v.timers + v.queued
              /\ MayFail(t) => MayFail(r)
              /\ w.ctl # 0 => v.ctl # 0
    BY <1>3, <1>5, <1>6, <1>7
<1> HIDE DEF x
<1>9. t \in OutputTables /\ \A j \in Slots : t.obj[j].retry \in {0, r.obj[j].retry}
    BY <1>3, <1>5
<1>10. f <= f
    OBVIOUS
<1> QED BY <1>8, <1>9, <1>10, ChanceKept

LEMMA FireBackoffRetries ==
    ASSUME GammaSound, RetriesBounded, NEW o \in Outs, NEW k \in Slots, FireBackoff(o, k) PROVE RetriesBounded'
<1> DEFINE m == Cmd("recreate", o, k)
           x == dev[o].obj[k]
           q == IF cmdq' = cmdq THEN x.queued ELSE x.queued + 1
           y == [x EXCEPT !.timers = x.timers - 1, !.queued = q]
<1>1. x.timers > 0 /\ cmdq' = Posted(cmdq, m) /\ dev' = [dev EXCEPT ![o].obj[k] = y]
    BY DEF FireBackoff
<1>2. m \in Closures /\ m.do # "failed" /\ q \in {x.queued, x.queued + 1}
    BY CommandsMade
<1> HIDE DEF m, q
<1> SUFFICES ASSUME NEW p \in Outs PROVE ChanceOf(dev'[p], HowMany(cmdq', Failures(p)))
    BY DEF RetriesBounded
<1>3. HowMany(cmdq', Failures(p)) = HowMany(cmdq, Failures(p)) /\ HowMany(cmdq, Failures(p)) \in Nat
    BY <1>1, <1>2, FailuresPosted
<1>4. Shape(dev[p]) /\ dev[p] \in OutputTables /\ dev \in [Outs -> OutputTables] /\ ChanceOf(dev[p], HowMany(cmdq, Failures(p)))
    BY SoundTables DEF RetriesBounded
<1>5. CASE p = o
    <2>1. dev'[p] = [dev[p] EXCEPT !.obj[k] = [dev[p].obj[k] EXCEPT !.timers = dev[p].obj[k].timers - 1, !.queued = q]]
        BY <1>1, <1>4, <1>5
    <2>2. ChanceOf([dev[p] EXCEPT !.obj[k] = [dev[p].obj[k] EXCEPT !.timers = dev[p].obj[k].timers - 1, !.queued = q]],
                   HowMany(cmdq, Failures(p)))
        BY <1>1, <1>2, <1>3, <1>4, <1>5, ChanceFired
    <2> QED BY <1>3, <2>1, <2>2
<1>6. CASE p # o
    <2>1. dev'[p] = dev[p]
        BY <1>1, <1>4, <1>6
    <2> QED BY <1>3, <1>4, <2>1
<1> QED BY <1>5, <1>6

LEMMA RetriesStep ==
    ASSUME GammaInv, RetriesBounded, [GammaNext]_gammaVars PROVE RetriesBounded'
<1>0. GammaSound /\ StartupNeedless
    BY DEF GammaInv
<1>1. CASE \/ UNCHANGED gammaVars \/ ApplyTrigger \/ PostApply \/ SetLevel \/ SetGammaEnabled \/ DecideEnabled
           \/ FireResume \/ \E o \in Outs : Plug(o) \/ PostAdd(o)
    <2>1. dev' = dev
        BY <1>1 DEF gammaVars, ApplyTrigger, PostApply, SetLevel, SetGammaEnabled, DecideEnabled, FireResume, Plug, PostAdd
    <2>2. \/ cmdq' = cmdq
          \/ \E s \in {"apply", "resume", "setup", "teardown"} : cmdq' = Posted(cmdq, Simple(s))
          \/ \E o \in Outs : cmdq' = Posted(cmdq, Cmd("add", o, 0))
        BY <1>1 DEF gammaVars, ApplyTrigger, PostApply, SetLevel, SetGammaEnabled, DecideEnabled, FireResume, Plug, PostAdd
    <2> QED BY <1>0, <2>1, <2>2, ChanceUntouched
<1>2. CASE RunStartup
    <2>1. TakeCmd("startup") /\ UNCHANGED dev
        BY <1>0, <1>2, StartupIsNeedless DEF RunStartup
    <2>2. \A o \in Outs : HowMany(cmdq', Failures(o)) = HowMany(cmdq, Failures(o))
        BY <1>0, <2>1, FailuresTaken
    <2> QED BY <2>1, <2>2 DEF RetriesBounded
<1>3. CASE RunSetup
    BY <1>0, <1>3, SetupRetries DEF RunSetup
<1>4. CASE RunTeardown
    <2>1. TakeCmd("teardown") /\ \A o \in Outs : dev'[o] \in {dev[o], Detached(dev[o])}
        BY <1>4 DEF RunTeardown
    <2> QED BY <1>0, <2>1, DetachedRetries
<1>5. CASE RunRemoved
    <2>1. TakeCmd("removed") /\ \A o \in Outs : dev'[o] \in {dev[o], Detached(dev[o])}
        BY <1>0, <1>5, SoundTables DEF RunRemoved
    <2> QED BY <1>0, <2>1, DetachedRetries
<1>6. CASE Actor
    BY <1>0, <1>2, <1>3, <1>4, <1>5, <1>6, RunAddRetries, RunSizeRetries, RunFailedRetries, RunRecreateRetries, RunApplyRetries,
       RunResumeRetries DEF Actor
<1> QED BY <1>0, <1>1, <1>6, UnplugRetries, HearControlRetries, LoseControlRetries, FireBackoffRetries, WakeUpRetries DEF GammaNext

LEMMA FirstRetries == GammaInit => RetriesBounded
<1> SUFFICES ASSUME GammaInit, NEW o \in Outs PROVE ChanceOf(dev[o], HowMany(cmdq, Failures(o)))
    BY DEF RetriesBounded
<1>1. dev[o].tracked = 0 /\ \A k \in Slots : dev[o].obj[k].retry = 0
    BY BlankObject DEF GammaInit, Untouched
<1> QED BY <1>1, GammaAssumption DEF ChanceOf

LEMMA RetriesAreSound == GammaSpec => [](crossed \/ (GammaInv /\ RetriesBounded))
<1>1. GammaInit => GammaInv /\ RetriesBounded
    BY GammaInitSound, FirstRetries
<1>2. (crossed \/ (GammaInv /\ RetriesBounded)) /\ [GammaNext]_gammaVars => (crossed \/ (GammaInv /\ RetriesBounded))'
    BY CrossedStays, GammaInvStep, RetriesStep
<1> QED BY <1>1, <1>2, PTL DEF GammaSpec

-----------------------------------------------------------------------------
(* The types, which hold after a crossing as well: nothing below needs the *)
(* shape of the tables.                                                    *)

\* An object knows how many of its closures wait in the queue.
QueuedCounted == \A o \in Outs, k \in Slots : dev[o].obj[k].queued = HowMany(cmdq, Recreates(o, k))
GammaTyped == GammaTypes /\ QueuedCounted

\* The table t of an output differs from r in no object's place in the queue.
SameQueued(r, t) == t \in OutputTables /\ \A k \in Slots : t.obj[k].queued = r.obj[k].queued

LEMMA StoredTyped ==
    ASSUME NEW r \in OutputTables, NEW k \in Slots, NEW b \in Objects
    PROVE  LET t == [r EXCEPT !.obj[k] = b]
           IN  t \in OutputTables /\ t.obj[k] = b /\ \A i \in Slots : i # k => t.obj[i] = r.obj[i]
<1> DEFINE t == [r EXCEPT !.obj[k] = b]
<1>1. t \in OutputTables /\ t.obj = [r.obj EXCEPT ![k] = b]
    BY DEF OutputTables
<1> HIDE DEF t
<1> QED BY <1>1, TableParts DEF t

LEMMA AttachedTyped ==
    ASSUME NEW o \in Outs, NEW r \in OutputTables, FreeSlots(r) # {}, FreeHandles(r) # {}
    PROVE  SameQueued(r, Attached(r, o))
<1> DEFINE k == Least(FreeSlots(r))
           c == Least(FreeHandles(r))
           b == [Blank EXCEPT !.ctl = c]
           g == Granted(r, o, c)
           m == [g EXCEPT !.tracked = k, !.obj[k] = b]
<1>1. k \in Slots /\ r.obj[k] = Blank
    BY LeastOfSome DEF FreeSlots, Slots
<1>2. c \in Handles
    BY LeastOfSome DEF FreeHandles, Handles
<1>3. Attached(r, o) = Tidy(m)
    BY DEF Attached
<1> HIDE DEF k, c
<1>4. b \in Objects /\ b.queued = 0
    BY <1>2 DEF Blank, Objects
<1>5. g \in OutputTables /\ g.obj = r.obj
    BY <1>2, GrantedFacts
<1> HIDE DEF b, g
<1>6. m \in OutputTables /\ m.obj[k] = b /\ \A i \in Slots : i # k => m.obj[i] = r.obj[i]
    <2>1. m \in OutputTables /\ m.obj = [g.obj EXCEPT ![k] = b]
        BY <1>1, <1>4, <1>5 DEF OutputTables
    <2> HIDE DEF m
    <2> QED BY <1>1, <1>5, <2>1, TableParts
<1> HIDE DEF m
<1>7. Tidy(m) \in OutputTables /\ \A i \in Slots : Tidy(m).obj[i].queued = m.obj[i].queued
    BY <1>6, Tidied
<1> QED BY <1>1, <1>3, <1>4, <1>6, <1>7, BlankObject DEF SameQueued

LEMMA DetachedTyped == ASSUME NEW r \in OutputTables PROVE SameQueued(r, Detached(r))
<1>1. CASE r.tracked = 0
    BY <1>1 DEF Detached, SameQueued
<1>2. CASE r.tracked # 0
    <2> DEFINE k == r.tracked
               d == Destroyed(r, r.obj[k].ctl)
               b == [d.obj[k] EXCEPT !.ctl = 0]
               m == [d EXCEPT !.tracked = 0, !.obj[k].ctl = 0]
    <2>1. k \in Slots /\ r.obj[k] \in Objects /\ r.obj[k].ctl \in Handles \cup {0}
        BY <1>2, TableParts, ObjectParts
    <2>2. d \in OutputTables /\ d.obj = r.obj
        BY <2>1, DestroyedFacts
    <2>3. Detached(r) = Tidy(m)
        BY <1>2 DEF Detached
    <2> HIDE DEF d
    <2>4. b \in Objects /\ b.queued = r.obj[k].queued
        BY <2>1, <2>2 DEF Objects
    <2>5. m = [d EXCEPT !.tracked = 0, !.obj[k] = b]
        OBVIOUS
    <2> HIDE DEF m, b
    <2>6. m \in OutputTables /\ m.obj[k] = b /\ \A i \in Slots : i # k => m.obj[i] = r.obj[i]
        <3> DEFINE u == [d EXCEPT !.tracked = 0, !.obj[k] = b]
        <3>1. u \in OutputTables /\ u.obj = [d.obj EXCEPT ![k] = b]
            BY <2>1, <2>2, <2>4 DEF OutputTables
        <3> HIDE DEF u
        <3>2. u.obj[k] = b /\ \A i \in Slots : i # k => u.obj[i] = r.obj[i]
            BY <2>1, <2>2, <3>1, TableParts
        <3> QED BY <2>5, <3>1, <3>2 DEF u
    <2>7. Tidy(m) \in OutputTables /\ \A i \in Slots : Tidy(m).obj[i].queued = m.obj[i].queued
        BY <2>6, Tidied
    <2> QED BY <2>3, <2>4, <2>6, <2>7 DEF SameQueued
<1> QED BY <1>1, <1>2

LEMMA FailedTyped == ASSUME NEW o \in Outs, NEW r \in OutputTables PROVE SameQueued(r, FailedOutput(r, o))
<1>1. CASE r.tracked = 0
    BY <1>1 DEF FailedOutput, SameQueued
<1>2. CASE r.tracked # 0
    <2> DEFINE k == r.tracked
               d == Destroyed(r, r.obj[k].ctl)
               x == r.obj[k]
               n == IF o \in available THEN x.timers + 1 ELSE x.timers
               p == x.retry + 1
               b == [x EXCEPT !.ctl = 0, !.failed = TRUE, !.ready = FALSE, !.retry = p, !.timers = n]
    <2>1. k \in Slots /\ x \in Objects /\ x.ctl \in Handles \cup {0}
        BY <1>2, TableParts, ObjectParts
    <2>2. d \in OutputTables /\ d.obj = r.obj
        BY <2>1, DestroyedFacts
    <2>3. FailedOutput(r, o) = [d EXCEPT !.obj[k] = b]
        BY <1>2 DEF FailedOutput
    <2>4. n \in Nat /\ p \in Nat
        BY <2>1, ObjectParts
    <2> HIDE DEF d, n, p
    <2>5. b \in Objects /\ b.queued = x.queued
        <3> HIDE DEF x
        <3> QED BY <2>1, <2>4 DEF Objects
    <2> HIDE DEF b
    <2>6. LET t == [d EXCEPT !.obj[k] = b]
          IN  t \in OutputTables /\ t.obj[k] = b /\ \A i \in Slots : i # k => t.obj[i] = r.obj[i]
        BY <2>1, <2>2, <2>5, StoredTyped
    <2> QED BY <2>3, <2>5, <2>6 DEF SameQueued
<1> QED BY <1>1, <1>2

LEMMA SizedTyped == ASSUME NEW r \in OutputTables PROVE SameQueued(r, SizedOutput(r))
<1>1. CASE r.tracked = 0
    BY <1>1 DEF SizedOutput, SameQueued
<1>2. CASE r.tracked # 0
    BY <1>2, SizedFacts DEF SameQueued, Waits
<1> QED BY <1>1, <1>2

LEMMA RewrittenTyped == ASSUME NEW r \in OutputTables, NEW t, Rewrites(r, t) PROVE SameQueued(r, t)
<1>1. r.tracked \in Slots \cup {0}
    BY TableParts
<1> QED BY <1>1 DEF Rewrites, Waits, SameQueued, Slots

LEMMA RecreatedTyped ==
    ASSUME NEW o \in Outs, NEW r \in OutputTables, NEW k \in Slots, r.obj[k].queued > 0, FreeHandles(r) # {}
    PROVE  LET t == Recreated(r, o, k)
           IN  t \in OutputTables /\ \A i \in Slots : t.obj[i].queued = r.obj[i].queued - (IF i = k THEN 1 ELSE 0)
<1> DEFINE n == [r EXCEPT !.obj[k].queued = @ - 1]
           p == Destroyed(n, n.obj[k].ctl)
           c == Least(FreeHandles(p))
           g == Granted(p, o, c)
           y == [g.obj[k] EXCEPT !.ctl = c, !.failed = FALSE]
           m == [g EXCEPT !.obj[k].ctl = c, !.obj[k].failed = FALSE]
<1>1. /\ n \in OutputTables /\ n.ctl = r.ctl /\ n.obj[k] = [r.obj[k] EXCEPT !.queued = r.obj[k].queued - 1]
      /\ \A j \in Slots : j # k => n.obj[j] = r.obj[j]
    BY DoneFacts
<1>2. Recreated(r, o, k) \in {Tidy(m), Tidy(n)}
    BY DEF Recreated
<1>3. r.obj[k] \in Objects /\ \A i \in Slots : r.obj[i].queued \in Nat
    BY TableParts
<1>4. \A i \in Slots : n.obj[i].queued = r.obj[i].queued - (IF i = k THEN 1 ELSE 0)
    BY <1>1, <1>3 DEF Objects
<1> HIDE DEF n
<1>5. p \in OutputTables /\ p.obj = n.obj /\ \A h \in Handles : p.ctl[h] \in {NoControl, r.ctl[h]}
    BY <1>1, TableParts, ObjectParts, DestroyedFacts
<1> HIDE DEF p
<1>6. c \in Handles
    <2>1. FreeHandles(r) \subseteq FreeHandles(p)
        BY <1>5 DEF FreeHandles
    <2> QED BY <2>1, LeastOfSome DEF FreeHandles, Handles
<1> HIDE DEF c
<1>7. g \in OutputTables /\ g.obj = n.obj
    BY <1>5, <1>6, GrantedFacts
<1> HIDE DEF g
<1>8. y \in Objects /\ y.queued = n.obj[k].queued
    <2>1. g.obj[k] \in Objects
        BY <1>7, TableParts
    <2> QED BY <1>6, <1>7, <2>1 DEF Objects
<1>9. m = [g EXCEPT !.obj[k] = y]
    BY <1>7 DEF OutputTables
<1> HIDE DEF m, y
<1>10. m \in OutputTables /\ \A i \in Slots : m.obj[i].queued = n.obj[i].queued
    BY <1>7, <1>8, <1>9, StoredTyped
<1>11. /\ Tidy(m) \in OutputTables /\ \A i \in Slots : Tidy(m).obj[i].queued = m.obj[i].queued
       /\ Tidy(n) \in OutputTables /\ \A i \in Slots : Tidy(n).obj[i].queued = n.obj[i].queued
    BY <1>1, <1>10, Tidied
<1> QED BY <1>2, <1>4, <1>10, <1>11

\* A closure that runs, a closure that is posted, and a step that does neither.
LEMMA TypedTaken ==
    ASSUME GammaTyped, NEW do, TakeCmd(do), ActorIdle,
           available' \subseteq available, controlsInitialized' \in BOOLEAN, updateTrigger' \in BOOLEAN,
           dev' \in [Outs -> OutputTables],
           \A o \in Outs, k \in Slots :
              dev'[o].obj[k].queued = dev[o].obj[k].queued - (IF Head(cmdq) \in Recreates(o, k) THEN 1 ELSE 0)
    PROVE  GammaTyped'
<1>1. /\ cmdq' \in Seq(Closures) /\ Len(cmdq') <= CmdCap
      /\ \A S : /\ HowMany(cmdq, S) \in Nat /\ HowMany(cmdq', S) \in Nat
                /\ HowMany(cmdq, S) = HowMany(cmdq', S) + (IF Head(cmdq) \in S THEN 1 ELSE 0)
    BY Takes DEF GammaTyped
<1>2. GammaTypes'
    BY <1>1 DEF GammaTyped, GammaTypes, ActorIdle
<1>3. QueuedCounted'
    BY <1>1 DEF GammaTyped, QueuedCounted
<1> QED BY <1>2, <1>3 DEF GammaTyped

\* A closure other than that of a backoff leaves every object's place in the queue.
LEMMA TypedOther ==
    ASSUME GammaTyped, NEW do, do # "recreate", TakeCmd(do), ActorIdle,
           available' \subseteq available, controlsInitialized' \in BOOLEAN, updateTrigger' \in BOOLEAN,
           dev' = [o \in Outs |-> dev'[o]], \A o \in Outs : SameQueued(dev[o], dev'[o])
    PROVE  GammaTyped'
<1>1. Head(cmdq) \in Closures /\ Head(cmdq).do = do
    BY Takes DEF GammaTyped
<1>2. \A o, k : Head(cmdq) \notin Recreates(o, k)
    BY <1>1, CommandKinds
<1>3. \A o \in Outs, k \in Slots : dev[o].obj[k].queued \in Nat
    BY TableParts DEF GammaTyped, GammaTypes
<1>4. dev' \in [Outs -> OutputTables]
    BY DEF SameQueued
<1>5. \A o \in Outs, k \in Slots :
         dev'[o].obj[k].queued = dev[o].obj[k].queued - (IF Head(cmdq) \in Recreates(o, k) THEN 1 ELSE 0)
    BY <1>2, <1>3 DEF SameQueued
<1> QED BY <1>4, <1>5, TypedTaken

LEMMA TypedApplied ==
    ASSUME GammaTyped, NEW d \in [Outs -> OutputTables], \A o \in Outs : SameQueued(dev[o], d[o]), ApplyOn(d)
    PROVE  dev' = [o \in Outs |-> dev'[o]] /\ \A o \in Outs : SameQueued(dev[o], dev'[o])
<1>1. PICK bad : dev' = Applied(d, bad)
    BY DEF ApplyOn
<1>2. level \in Levels
    BY DEF GammaTyped, GammaTypes
<1>3. ASSUME NEW o \in Outs PROVE SameQueued(d[o], Applied(d, bad)[o])
    <2>1. SameQueued(d[o], AppliedOutput(d[o], o, bad))
        BY <1>2, AppliedFacts, RewrittenTyped
    <2>2. SameQueued(d[o], d[o])
        BY DEF SameQueued
    <2> QED BY <2>1, <2>2 DEF Applied
<1>4. DOMAIN dev' = Outs /\ dev' = [o \in Outs |-> dev'[o]]
    BY <1>1 DEF Applied
<1> QED BY <1>1, <1>3, <1>4 DEF SameQueued

LEMMA TypedPosted ==
    ASSUME GammaTyped, cmdq' = cmdq \/ \E c \in Closures : cmdq' = Posted(cmdq, c) /\ c.do # "recreate",
           gammaEnabled' \in BOOLEAN, level' \in Levels, UNCHANGED controlsInitialized,
           seen' \subseteq Outs, plugged' \subseteq seen', available' \subseteq seen', watcher' \subseteq plugged',
           updateTrigger' \in BOOLEAN, scheduler' \in {"wait", "post"}, caller' \in {"idle", "decide"},
           resumeTimer' \in BOOLEAN, dev' = [o \in Outs |-> dev'[o]], \A o \in Outs : SameQueued(dev[o], dev'[o])
    PROVE  GammaTyped'
<1>1. /\ cmdq' \in Seq(Closures) /\ Len(cmdq') <= CmdCap
      /\ \A o, k : HowMany(cmdq', Recreates(o, k)) = HowMany(cmdq, Recreates(o, k))
    <2>1. CASE cmdq' = cmdq
        BY <2>1 DEF GammaTyped, GammaTypes
    <2>2. ASSUME NEW c \in Closures, cmdq' = Posted(cmdq, c), c.do # "recreate"
          PROVE  /\ cmdq' \in Seq(Closures) /\ Len(cmdq') <= CmdCap
                 /\ \A o, k : HowMany(cmdq', Recreates(o, k)) = HowMany(cmdq, Recreates(o, k))
        <3>1. /\ cmdq' \in Seq(Closures) /\ Len(cmdq') <= CmdCap
              /\ \A S : /\ HowMany(cmdq, S) \in Nat /\ HowMany(cmdq', S) \in Nat
                        /\ HowMany(cmdq', S) <= HowMany(cmdq, S) + (IF c \in S THEN 1 ELSE 0)
                        /\ HowMany(cmdq', S) >= HowMany(cmdq, S)
            BY <2>2, Posts DEF GammaTyped
        <3>2. \A o, k : c \notin Recreates(o, k)
            BY <2>2, CommandKinds
        <3> QED BY <3>1, <3>2
    <2> QED BY <2>1, <2>2
<1>2. dev' \in [Outs -> OutputTables]
    BY DEF SameQueued
<1>3. GammaTypes'
    BY <1>1, <1>2 DEF GammaTyped, GammaTypes
<1>4. QueuedCounted'
    BY <1>1 DEF GammaTyped, QueuedCounted, SameQueued
<1> QED BY <1>3, <1>4 DEF GammaTyped

LEMMA TypedTables ==
    ASSUME GammaTyped
    PROVE  /\ dev \in [Outs -> OutputTables] /\ dev = [o \in Outs |-> dev[o]]
           /\ \A o \in Outs : dev[o] \in OutputTables /\ SameQueued(dev[o], dev[o])
           /\ gammaEnabled \in BOOLEAN /\ level \in Levels /\ controlsInitialized \in BOOLEAN
           /\ seen \subseteq Outs /\ plugged \subseteq seen /\ available \subseteq seen /\ watcher \subseteq plugged
           /\ updateTrigger \in BOOLEAN /\ scheduler \in {"wait", "post"} /\ caller \in {"idle", "decide"}
           /\ resumeTimer \in BOOLEAN
BY DEF GammaTyped, GammaTypes, SameQueued

LEMMA TypedSetup ==
    ASSUME GammaTyped, SetupOutputControls
    PROVE  dev' = [o \in Outs |-> dev'[o]] /\ \A o \in Outs : SameQueued(dev[o], dev'[o])
<1>1. dev' = [o \in Outs |-> dev'[o]]
    BY DEF SetupOutputControls
<1>2. ASSUME NEW o \in Outs PROVE SameQueued(dev[o], dev'[o])
    <2>1. CASE o \in available
        <3>1. dev'[o] = Attached(dev[o], o) /\ FreeSlots(dev[o]) # {} /\ FreeHandles(dev[o]) # {}
            BY <2>1 DEF SetupOutputControls, Room
        <3> QED BY <3>1, TypedTables, AttachedTyped
    <2>2. CASE o \notin available
        BY <2>2, TypedTables DEF SetupOutputControls
    <2> QED BY <2>1, <2>2
<1> QED BY <1>1, <1>2

\* The table of one output is replaced by one with the same closures to come.
LEMMA TypedOne ==
    ASSUME GammaTyped, NEW o \in Outs, NEW t, SameQueued(dev[o], t), dev' = [dev EXCEPT ![o] = t]
    PROVE  dev' = [p \in Outs |-> dev'[p]] /\ \A p \in Outs : SameQueued(dev[p], dev'[p])
BY TypedTables

LEMMA TypedActor == ASSUME GammaTyped, Actor PROVE GammaTyped'
<1> DEFINE o == Head(cmdq).out
<1>1. \A do : TakeCmd(do) /\ do \in {"add", "removed", "size", "failed", "recreate"} => o \in Outs
    <2> SUFFICES ASSUME NEW do, TakeCmd(do), do \in {"add", "removed", "size", "failed", "recreate"} PROVE o \in Outs
        OBVIOUS
    <2>1. Head(cmdq) \in Closures /\ Head(cmdq).do = do
        BY Takes DEF GammaTyped
    <2> QED BY <2>1, CommandKinds
<1> HIDE DEF o
<1>2. CASE RunStartup
    <2>1. dev' = [p \in Outs |-> dev'[p]] /\ \A p \in Outs : SameQueued(dev[p], dev'[p])
        BY <1>2, TypedSetup, TypedTables DEF RunStartup
    <2> QED BY <1>2, <2>1, TypedOther, TypedTables DEF RunStartup, SetupOutputControls
<1>3. CASE RunSetup
    <2>1. dev' = [p \in Outs |-> dev'[p]] /\ \A p \in Outs : SameQueued(dev[p], dev'[p])
        BY <1>3, TypedSetup DEF RunSetup
    <2> QED BY <1>3, <2>1, TypedOther, TypedTables DEF RunSetup, SetupOutputControls
<1>4. CASE RunTeardown
    <2>1. dev' = [p \in Outs |-> dev'[p]] /\ \A p \in Outs : SameQueued(dev[p], dev'[p])
        BY <1>4, DetachedTyped, TypedTables DEF RunTeardown
    <2> QED BY <1>4, <2>1, TypedOther, TypedTables DEF RunTeardown
<1>5. CASE RunAdd
    <2>1. /\ TakeCmd("add") /\ ActorIdle /\ UNCHANGED <<available, updateTrigger, events>> /\ Room({o})
          /\ dev' = [dev EXCEPT ![o] = Attached(dev[o], o)] /\ controlsInitialized' = TRUE
        BY <1>5 DEF RunAdd, o
    <2>2. o \in Outs /\ SameQueued(dev[o], Attached(dev[o], o))
        BY <1>1, <2>1, AttachedTyped, TypedTables DEF Room
    <2>3. dev' = [p \in Outs |-> dev'[p]] /\ \A p \in Outs : SameQueued(dev[p], dev'[p])
        BY <2>1, <2>2, TypedOne
    <2> QED BY <2>1, <2>3, TypedOther, TypedTables
<1>6. CASE RunRemoved
    <2>1. /\ TakeCmd("removed") /\ ActorIdle /\ UNCHANGED <<updateTrigger, events>>
          /\ dev' = [dev EXCEPT ![o] = Detached(dev[o])] /\ available' \subseteq available
          /\ controlsInitialized' = (controlsInitialized /\ (dev[o].tracked # 0 => Tracked(dev') # {}))
        BY <1>6 DEF RunRemoved, o
    <2>2. o \in Outs /\ SameQueued(dev[o], Detached(dev[o]))
        BY <1>1, <2>1, DetachedTyped, TypedTables
    <2>3. dev' = [p \in Outs |-> dev'[p]] /\ \A p \in Outs : SameQueued(dev[p], dev'[p])
        BY <2>1, <2>2, TypedOne
    <2>4. controlsInitialized' \in BOOLEAN
        BY <2>1
    <2> QED BY <2>1, <2>3, <2>4, TypedOther, TypedTables
<1>7. CASE RunSize
    <2> DEFINE d == [dev EXCEPT ![o] = SizedOutput(dev[o])]
    <2>1. TakeCmd("size") /\ ActorIdle /\ UNCHANGED <<available, controlsInitialized, updateTrigger>> /\ ApplyOn(d)
        BY <1>7 DEF RunSize, o
    <2>2. o \in Outs /\ SameQueued(dev[o], SizedOutput(dev[o]))
        BY <1>1, <2>1, SizedTyped, TypedTables
    <2>3. d \in [Outs -> OutputTables] /\ \A p \in Outs : SameQueued(dev[p], d[p])
        BY <2>2, TypedTables DEF SameQueued
    <2> HIDE DEF d
    <2>4. dev' = [p \in Outs |-> dev'[p]] /\ \A p \in Outs : SameQueued(dev[p], dev'[p])
        BY <2>1, <2>3, TypedApplied
    <2> QED BY <2>1, <2>4, TypedOther, TypedTables
<1>8. CASE RunFailed
    <2>1. /\ TakeCmd("failed") /\ ActorIdle /\ UNCHANGED <<available, controlsInitialized, updateTrigger, events>>
          /\ dev' = [dev EXCEPT ![o] = FailedOutput(dev[o], o)]
        BY <1>8 DEF RunFailed, o
    <2>2. o \in Outs /\ SameQueued(dev[o], FailedOutput(dev[o], o))
        BY <1>1, <2>1, FailedTyped, TypedTables
    <2>3. dev' = [p \in Outs |-> dev'[p]] /\ \A p \in Outs : SameQueued(dev[p], dev'[p])
        BY <2>1, <2>2, TypedOne
    <2> QED BY <2>1, <2>3, TypedOther, TypedTables
<1>9. CASE RunRecreate
    <2> DEFINE k == Head(cmdq).obj
    <2>1. /\ TakeCmd("recreate") /\ ActorIdle /\ UNCHANGED <<available, controlsInitialized, updateTrigger, events>>
          /\ FreeHandles(dev[o]) # {} /\ dev' = [dev EXCEPT ![o] = Recreated(dev[o], o, k)]
        BY <1>9 DEF RunRecreate, o
    <2>2. /\ Head(cmdq) \in Closures /\ Head(cmdq).do = "recreate" /\ o \in Outs /\ k \in Slots
          /\ \A S : HowMany(cmdq, S) \in Nat /\ HowMany(cmdq', S) \in Nat
                    /\ HowMany(cmdq, S) = HowMany(cmdq', S) + (IF Head(cmdq) \in S THEN 1 ELSE 0)
        BY <1>1, <2>1, Takes, CommandKinds DEF GammaTyped
    <2>3. \A p, i : Head(cmdq) \in Recreates(p, i) <=> p = o /\ i = k
        BY <2>2, CommandKinds DEF o
    <2> HIDE DEF k
    <2>4. dev[o].obj[k].queued > 0
        BY <2>2, <2>3 DEF GammaTyped, QueuedCounted
    <2> DEFINE t == Recreated(dev[o], o, k)
    <2>5. t \in OutputTables /\ \A i \in Slots : t.obj[i].queued = dev[o].obj[i].queued - (IF i = k THEN 1 ELSE 0)
        BY <2>1, <2>2, <2>4, RecreatedTyped, TypedTables
    <2> HIDE DEF t
    <2>6. dev' \in [Outs -> OutputTables] /\ dev'[o] = t /\ \A p \in Outs : p # o => dev'[p] = dev[p]
        BY <2>1, <2>2, <2>5, TypedTables DEF t
    <2>7. \A p \in Outs, i \in Slots : dev[p].obj[i].queued \in Nat
        BY TypedTables, TableParts
    <2>8. \A p \in Outs, i \in Slots :
             dev'[p].obj[i].queued = dev[p].obj[i].queued - (IF Head(cmdq) \in Recreates(p, i) THEN 1 ELSE 0)
        BY <2>3, <2>5, <2>6, <2>7
    <2> QED BY <2>1, <2>6, <2>8, TypedTaken, TypedTables
<1>10. CASE RunApply
    <2>1. dev' = [p \in Outs |-> dev'[p]] /\ \A p \in Outs : SameQueued(dev[p], dev'[p])
        BY <1>10, TypedApplied, TypedTables DEF RunApply
    <2> QED BY <1>10, <2>1, TypedOther, TypedTables DEF RunApply
<1>11. CASE RunResume
    <2> DEFINE d == [p \in Outs |-> Forgotten(dev[p])]
    <2>1. /\ TakeCmd("resume") /\ ActorIdle /\ UNCHANGED <<available, controlsInitialized>>
          /\ updateTrigger' \in BOOLEAN /\ (dev' = dev \/ ApplyOn(d))
        BY <1>11, TypedTables DEF RunResume
    <2>2. d \in [Outs -> OutputTables] /\ \A p \in Outs : SameQueued(dev[p], d[p])
        BY TypedTables, ForgottenFacts, RewrittenTyped DEF SameQueued
    <2> HIDE DEF d
    <2>3. dev' = [p \in Outs |-> dev'[p]] /\ \A p \in Outs : SameQueued(dev[p], dev'[p])
        BY <2>1, <2>2, TypedApplied, TypedTables
    <2> QED BY <2>1, <2>3, TypedOther, TypedTables
<1> QED BY <1>2, <1>3, <1>4, <1>5, <1>6, <1>7, <1>8, <1>9, <1>10, <1>11 DEF Actor

LEMMA TypedFired == ASSUME GammaTyped, NEW o \in Outs, NEW k \in Slots, FireBackoff(o, k) PROVE GammaTyped'
<1> DEFINE m == Cmd("recreate", o, k)
           x == dev[o].obj[k]
           n == x.timers - 1
           q == IF cmdq' = cmdq THEN x.queued ELSE x.queued + 1
           y == [x EXCEPT !.timers = n, !.queued = q]
           t == [dev[o] EXCEPT !.obj[k] = y]
<1>1. /\ x.timers > 0 /\ cmdq' = Posted(cmdq, m) /\ dev' = [dev EXCEPT ![o].obj[k] = y]
      /\ UNCHANGED <<gammaEnabled, level, available, plugged, controlsInitialized, updateTrigger, scheduler, caller, watcher,
                     resumeTimer, seen>>
    BY DEF FireBackoff
<1>2. dev[o] \in OutputTables /\ dev \in [Outs -> OutputTables] /\ x \in Objects /\ x.timers \in Nat /\ x.queued \in Nat
    BY TypedTables, TableParts
<1>3. n \in Nat /\ q \in Nat
    BY <1>1, <1>2
<1>4. dev' = [dev EXCEPT ![o] = t]
    BY <1>1
<1>5. m \in Closures /\ m.do = "recreate" /\ m.out = o /\ m.obj = k
    BY CommandsMade
<1> HIDE DEF m, n, q
<1>6. y \in Objects /\ y.queued = q
    <2> HIDE DEF x
    <2> QED BY <1>2, <1>3 DEF Objects
<1> HIDE DEF y
<1>7. t \in OutputTables /\ t.obj[k] = y /\ \A i \in Slots : i # k => t.obj[i] = dev[o].obj[i]
    BY <1>2, <1>6, StoredTyped
<1> HIDE DEF t
<1>8. dev' \in [Outs -> OutputTables] /\ dev'[o] = t /\ \A p \in Outs : p # o => dev'[p] = dev[p]
    BY <1>2, <1>4, <1>7
<1>9. /\ cmdq' \in Seq(Closures) /\ Len(cmdq') <= CmdCap
      /\ \A S : /\ HowMany(cmdq, S) \in Nat /\ HowMany(cmdq', S) \in Nat
                /\ HowMany(cmdq', S) <= HowMany(cmdq, S) + (IF m \in S THEN 1 ELSE 0)
                /\ HowMany(cmdq', S) >= HowMany(cmdq, S)
                /\ cmdq' # cmdq => HowMany(cmdq', S) = HowMany(cmdq, S) + (IF m \in S THEN 1 ELSE 0)
    BY <1>1, <1>5, Posts DEF GammaTyped
<1>10. \A p, i : m \in Recreates(p, i) <=> p = o /\ i = k
    BY <1>5, CommandKinds
<1>11. QueuedCounted'
    <2> SUFFICES ASSUME NEW p \in Outs, NEW i \in Slots PROVE dev'[p].obj[i].queued = HowMany(cmdq', Recreates(p, i))
        BY DEF QueuedCounted
    <2>1. dev[p].obj[i].queued = HowMany(cmdq, Recreates(p, i))
        BY DEF GammaTyped, QueuedCounted
    <2>2. CASE p = o /\ i = k
        BY <1>6, <1>7, <1>8, <1>9, <1>10, <2>1, <2>2 DEF q, x
    <2>3. CASE ~(p = o /\ i = k)
        BY <1>7, <1>8, <1>9, <1>10, <2>1, <2>3
    <2> QED BY <2>2, <2>3
<1>12. GammaTypes'
    BY <1>1, <1>8, <1>9, TypedTables DEF GammaTypes
<1> QED BY <1>11, <1>12 DEF GammaTyped

LEMMA TypedStep == ASSUME GammaTyped, [GammaNext]_gammaVars PROVE GammaTyped'
<1>1. CASE UNCHANGED gammaVars
    BY <1>1 DEF GammaTyped, GammaTypes, QueuedCounted, gammaVars
<1>2. CASE ApplyTrigger \/ SetLevel \/ SetGammaEnabled
    BY <1>2, TypedPosted, TypedTables DEF ApplyTrigger, SetLevel, SetGammaEnabled
<1>3. CASE PostApply \/ FireResume
    <2>1. \E c \in Closures : cmdq' = Posted(cmdq, c) /\ c.do # "recreate"
        BY <1>3, CommandsMade DEF PostApply, FireResume
    <2> QED BY <1>3, <2>1, TypedPosted, TypedTables DEF PostApply, FireResume
<1>4. CASE DecideEnabled
    <2>1. cmdq' = cmdq \/ \E c \in Closures : cmdq' = Posted(cmdq, c) /\ c.do # "recreate"
        BY <1>4, CommandsMade DEF DecideEnabled
    <2>2. updateTrigger' \in BOOLEAN
        BY <1>4, TypedTables DEF DecideEnabled
    <2> QED BY <1>4, <2>1, <2>2, TypedPosted, TypedTables DEF DecideEnabled
<1>5. CASE WakeUp
    <2>1. PICK lost : dev' = [o \in Outs |-> IF o \in lost THEN [dev[o] EXCEPT !.shown = Plain] ELSE dev[o]]
        BY <1>5 DEF WakeUp
    <2>2. ASSUME NEW o \in Outs PROVE SameQueued(dev[o], dev'[o])
        <3>1. SameQueued(dev[o], [dev[o] EXCEPT !.shown = Plain])
            BY TypedTables, LostFacts DEF SameQueued
        <3> QED BY <2>1, <3>1, TypedTables
    <2>3. dev' = [o \in Outs |-> dev'[o]]
        BY <2>1
    <2> QED BY <1>5, <2>2, <2>3, TypedPosted, TypedTables DEF WakeUp
<1>6. ASSUME NEW o \in Outs, Plug(o) PROVE GammaTyped'
    BY <1>6, TypedPosted, TypedTables DEF Plug
<1>7. ASSUME NEW o \in Outs, PostAdd(o) PROVE GammaTyped'
    <2>1. \E c \in Closures : cmdq' = Posted(cmdq, c) /\ c.do # "recreate"
        BY <1>7, CommandsMade DEF PostAdd
    <2>2. watcher' \subseteq plugged'
        BY <1>7, TypedTables DEF PostAdd
    <2> QED BY <1>7, <2>1, <2>2, TypedPosted, TypedTables DEF PostAdd
<1>8. ASSUME NEW o \in Outs, Unplug(o) PROVE GammaTyped'
    <2>1. \E c \in Closures : cmdq' = Posted(cmdq, c) /\ c.do # "recreate"
        BY <1>8, CommandsMade DEF Unplug
    <2> DEFINE c == CHOOSE c \in Handles : dev[o].ctl[c].st = "holds"
               t == IF Holds(dev[o]) THEN Voided(dev[o], c) ELSE dev[o]
    <2>2. dev' = [dev EXCEPT ![o] = t]
        BY <1>8 DEF Unplug
    <2>3. Holds(dev[o]) => c \in Handles
        BY DEF Holds
    <2> HIDE DEF c
    <2>4. SameQueued(dev[o], t)
        BY <2>3, TypedTables, VoidedFacts DEF SameQueued
    <2> HIDE DEF t
    <2>5. dev' = [p \in Outs |-> dev'[p]] /\ \A p \in Outs : SameQueued(dev[p], dev'[p])
        BY <2>2, <2>4, TypedOne
    <2> QED BY <1>8, <2>1, <2>5, TypedPosted, TypedTables DEF Unplug
<1>9. ASSUME NEW o \in Outs, NEW c \in Handles, HearControl(o, c) PROVE GammaTyped'
    <2>1. dev[o].ctl[c].ev \in {"size", "failed"}
        BY <1>9, TypedTables, TableParts DEF HearControl, Controls
    <2>2. \E m \in Closures : cmdq' = Posted(cmdq, m) /\ m.do # "recreate"
        BY <1>9, <2>1, CommandsMade DEF HearControl
    <2> DEFINE t == [dev[o] EXCEPT !.ctl[c].ev = "none"]
    <2>3. dev' = [dev EXCEPT ![o] = t]
        BY <1>9 DEF HearControl
    <2>4. SameQueued(dev[o], t)
        BY TypedTables, HeardFacts DEF SameQueued
    <2> HIDE DEF t
    <2>5. dev' = [p \in Outs |-> dev'[p]] /\ \A p \in Outs : SameQueued(dev[p], dev'[p])
        BY <2>3, <2>4, TypedOne
    <2> QED BY <1>9, <2>2, <2>5, TypedPosted, TypedTables DEF HearControl
<1>10. ASSUME NEW o \in Outs, NEW c \in Handles, LoseControl(o, c) PROVE GammaTyped'
    <2>1. SameQueued(dev[o], Voided(dev[o], c)) /\ dev' = [dev EXCEPT ![o] = Voided(dev[o], c)]
        BY <1>10, TypedTables, VoidedFacts DEF SameQueued, LoseControl
    <2>2. dev' = [p \in Outs |-> dev'[p]] /\ \A p \in Outs : SameQueued(dev[p], dev'[p])
        BY <2>1, TypedOne
    <2> QED BY <1>10, <2>2, TypedPosted, TypedTables DEF LoseControl
<1> QED BY <1>1, <1>2, <1>3, <1>4, <1>5, <1>6, <1>7, <1>8, <1>9, <1>10, TypedActor, TypedFired DEF GammaNext

\* The types hold of every behaviour, of any outputs, levels and capacity.  After a crossing
\* only the bound on the retries of an object is lost.
THEOREM GammaTypesHold == GammaSpec => []GammaTypeOK
<1>1. GammaInit => GammaTyped
    BY GammaInitSound DEF GammaInv, GammaSound, OutputSound, GammaTyped, QueuedCounted
<1>2. GammaSpec => []GammaTyped
    BY <1>1, TypedStep, PTL DEF GammaSpec
<1>3. GammaTyped /\ (crossed \/ (GammaInv /\ RetriesBounded)) => GammaTypeOK
    <2> SUFFICES ASSUME GammaTyped, crossed \/ RetriesBounded PROVE GammaTypeOK
        OBVIOUS
    <2>1. /\ gammaEnabled \in BOOLEAN /\ level \in Levels /\ controlsInitialized \in BOOLEAN
          /\ plugged \subseteq Outs /\ available \subseteq Outs /\ watcher \subseteq plugged /\ Len(cmdq) <= CmdCap
        BY DEF GammaTyped, GammaTypes
    <2>2. ASSUME NEW o \in Outs
          PROVE  /\ dev[o].tracked \in Slots \cup {0} /\ dev[o].shown \in Levels \cup {Plain}
                 /\ \A k \in Slots : dev[o].obj[k].queued >= 0 /\ dev[o].obj[k].retry >= 0
                 /\ ~crossed => \A k \in Slots : dev[o].obj[k].retry <= MaxRetries
        <3>1. dev[o] \in OutputTables /\ (~crossed => ChanceOf(dev[o], HowMany(cmdq, Failures(o))))
            BY TypedTables DEF RetriesBounded
        <3> QED BY <3>1, TableParts, ChanceParts DEF ChanceOf
    <2> QED BY <2>1, <2>2 DEF GammaTypeOK
<1> QED BY <1>2, <1>3, RetriesAreSound, PTL

-----------------------------------------------------------------------------
(***************************************************************************)
(* The light follows the configuration, as long as the queue of the actor  *)
(* is never full: what an output still lacks is on its way.                *)
(***************************************************************************)

HasRoom == Len(cmdq) < CmdCap

\* The object and the control an output is tracked by.
Object(r) == r.obj[r.tracked]
Control(r) == IF Object(r).ctl = 0 THEN NoControl ELSE r.ctl[Object(r).ctl]

\* Of ns sizes and nf failures in the queue, what a tracked output still waits for.
SizeDue(r, ns) == Control(r).ev = "size" \/ ns > 0
FailureDue(r, nf) == Control(r).ev = "failed" \/ nf > 0
Proceeds(r, ns, nf) ==
    /\ Control(r).st = "void" => FailureDue(r, nf)
    /\ Object(r).ctl = 0 => Object(r).failed /\ ~Object(r).ready /\ ns = 0
    /\ ~Object(r).ready /\ ~Object(r).failed => SizeDue(r, ns) \/ FailureDue(r, nf)
ShowsLast(r) ==
    Control(r).st = "holds" /\ Object(r).ready /\ Object(r).last # Plain => r.shown = Object(r).last
ShowsLevel(r, ns, nf, l) ==
    Object(r).failed \/ r.shown = l \/ SizeDue(r, ns) \/ FailureDue(r, nf)

WakeDue == resumeTimer \/ HowMany(cmdq, Doing("resume")) > 0
ApplyDue == updateTrigger \/ scheduler = "post" \/ HowMany(cmdq, Doing("apply")) > 0

LightDue(o) ==
    LET r == dev[o]
        ns == HowMany(cmdq, Sizes(o))
        nf == HowMany(cmdq, Failures(o))
    IN  r.tracked # 0 =>
        /\ Proceeds(r, ns, nf)
        /\ gammaEnabled /\ ~WakeDue => ShowsLast(r)
        /\ gammaEnabled /\ ~WakeDue /\ ~ApplyDue /\ o \in plugged => ShowsLevel(r, ns, nf, level)

\* Only a control that holds its output colours it.
LitByControl(o) == dev[o].shown # Plain => Holds(dev[o])

\* The set-up, the tear-down and the outputs to add and remove agree with the switch.
SwitchFollowed ==
    /\ plugged \subseteq available
    /\ \A o \in plugged : HowMany(cmdq, Removals(o)) = 0
    /\ ~gammaEnabled /\ controlsInitialized => caller = "decide" \/ HowMany(cmdq, Doing("teardown")) > 0
    /\ HowMany(cmdq, SetUps) > 0 => gammaEnabled /\ ~controlsInitialized
    /\ \A o \in Outs : AddDue(o) => gammaEnabled
    /\ HowMany(cmdq, Doing("teardown")) > 0 => ~gammaEnabled
    /\ gammaEnabled => \A o \in plugged : dev[o].tracked # 0 \/ AddDue(o) \/ SetupDue

LightSound ==
    /\ SwitchFollowed
    /\ \A o \in Outs : LightDue(o) /\ LitByControl(o) /\ SizesFirst(cmdq, o)

\* What one knows of the object and the control of a tracked output.
LEMMA ControlParts ==
    ASSUME NEW r \in OutputTables, Shape(r), r.tracked # 0
    PROVE  /\ Object(r) \in Objects /\ Object(r) = r.obj[r.tracked] /\ r.tracked \in Slots
           /\ Control(r) \in Controls /\ (Control(r).st # "none" \/ (Object(r).ctl = 0 /\ Control(r) = NoControl))
           /\ Object(r).ctl # 0 => /\ Object(r).ctl \in Handles /\ Control(r) = r.ctl[Object(r).ctl]
                                   /\ Control(r).st \in {"holds", "void"}
           /\ Control(r).st = "holds" <=> Holds(r)
           /\ \A c \in Handles : r.ctl[c].st # "none" => Object(r).ctl = c /\ Control(r) = r.ctl[c]
<1>1. Object(r) \in Objects /\ Object(r) = r.obj[r.tracked] /\ r.tracked \in Slots /\ Object(r).ctl \in Handles \cup {0}
    BY TableParts, ObjectParts DEF Object
<1>2. \A c \in Handles : c # 0
    BY DEF Handles
<1>3. \A c \in Handles : r.ctl[c].st # "none" => Object(r).ctl = c /\ Control(r) = r.ctl[c]
    BY <1>1, <1>2 DEF Shape, Control
<1>4. CASE Object(r).ctl = 0
    <2>1. Control(r) = NoControl /\ NoControl \in Controls /\ NoControl.st = "none"
        BY <1>4 DEF Control, NoControl, Controls
    <2>2. ~Holds(r)
        BY <1>2, <1>3, <1>4 DEF Holds
    <2> QED BY <1>1, <1>3, <1>4, <2>1, <2>2
<1>5. CASE Object(r).ctl # 0
    <2>1. Object(r).ctl \in Handles /\ Control(r) = r.ctl[Object(r).ctl]
        BY <1>1, <1>5 DEF Control
    <2>2. Control(r) \in Controls
        BY <2>1, TableParts
    <2>3. Control(r).st # "none"
        BY <1>1, <1>5, <2>1 DEF Shape
    <2>4. Control(r).st \in {"holds", "void"}
        BY <2>2, <2>3 DEF Controls
    <2>5. Control(r).st = "holds" <=> Holds(r)
        BY <1>3, <2>1 DEF Holds
    <2> QED BY <1>1, <1>3, <1>5, <2>1, <2>2, <2>3, <2>4, <2>5
<1> QED BY <1>4, <1>5

\* A new control will tell its size, or that it failed.
LEMMA AttachedLight ==
    ASSUME NEW o \in Outs, NEW r \in OutputTables, Shape(r), Vacant(r), FreeSlots(r) # {}, FreeHandles(r) # {},
           NEW l, r.shown # Plain => Holds(r)
    PROVE  LET t == Attached(r, o)
           IN  /\ t.tracked # 0 /\ Proceeds(t, 0, 0) /\ ShowsLast(t) /\ ShowsLevel(t, 0, 0, l)
               /\ t.shown # Plain => Holds(t)
<1> DEFINE t == Attached(r, o)
<1>1. /\ t \in OutputTables /\ Shape(t) /\ t.tracked \in Slots /\ t.shown = r.shown
      /\ t.obj[t.tracked].ctl \in Handles /\ ~t.obj[t.tracked].ready /\ ~t.obj[t.tracked].failed
      /\ t.ctl[t.obj[t.tracked].ctl] = IF o \in plugged THEN [st |-> "holds", ev |-> "size"] ELSE Refused
    BY AttachedFacts
<1> HIDE DEF t
<1>2. t.tracked # 0 /\ Object(t).ctl # 0 /\ ~Object(t).ready /\ ~Object(t).failed
    BY <1>1 DEF Object, Slots, Handles
<1>3. Control(t).ev = "size" \/ Control(t).ev = "failed"
    BY <1>1, <1>2 DEF Control, Object, Refused
<1>4. Control(t).st = "void" => Control(t).ev = "failed"
    BY <1>1, <1>2 DEF Control, Object, Refused
<1>5. t.shown = Plain
    BY <1>1 DEF Holds, Vacant, Shape
<1>6. /\ t.tracked # 0 /\ Proceeds(t, 0, 0) /\ ShowsLast(t) /\ ShowsLevel(t, 0, 0, l)
      /\ t.shown # Plain => Holds(t)
    BY <1>2, <1>3, <1>4, <1>5 DEF Proceeds, ShowsLast, ShowsLevel, SizeDue, FailureDue
<1> QED BY <1>6 DEF t

\* A control that failed is given up, and its backoff will make another.
LEMMA FailedLight ==
    ASSUME NEW o \in Outs, NEW r \in OutputTables, Shape(r), r.tracked # 0, NEW g, NEW l, r.shown # Plain => Holds(r)
    PROVE  LET t == FailedOutput(r, o)
           IN  /\ t.tracked = r.tracked /\ Proceeds(t, 0, g) /\ ShowsLast(t) /\ ShowsLevel(t, 0, g, l)
               /\ t.shown # Plain => Holds(t)
<1> DEFINE t == FailedOutput(r, o)
<1>1. /\ t \in OutputTables /\ Shape(t) /\ t.tracked = r.tracked
      /\ t.obj[r.tracked].ctl = 0 /\ t.obj[r.tracked].failed /\ ~t.obj[r.tracked].ready
      /\ t.shown = IF Holds(r) THEN Plain ELSE r.shown
    BY FailedFacts
<1> HIDE DEF t
<1>2. Object(t).ctl = 0 /\ Object(t).failed /\ ~Object(t).ready /\ Control(t).st = "none"
    BY <1>1 DEF Object, Control, NoControl
<1>3. t.shown = Plain
    BY <1>1
<1>4. /\ t.tracked = r.tracked /\ Proceeds(t, 0, g) /\ ShowsLast(t) /\ ShowsLevel(t, 0, g, l)
      /\ t.shown # Plain => Holds(t)
    BY <1>1, <1>2, <1>3 DEF Proceeds, ShowsLast, ShowsLevel
<1> QED BY <1>4 DEF t

\* A size that is heard lets the level be written again.
LEMMA SizedLight ==
    ASSUME NEW r \in OutputTables, Shape(r), r.tracked # 0, NEW ns \in Nat, NEW nf \in Nat, Proceeds(r, ns + 1, nf)
    PROVE  LET t == SizedOutput(r)
           IN  /\ t \in OutputTables /\ Shape(t) /\ t.tracked = r.tracked /\ Proceeds(t, ns, nf) /\ ShowsLast(t)
               /\ t.shown = r.shown /\ t.ctl = r.ctl /\ Object(t).ready /\ ~Object(t).failed /\ Object(t).last = Plain
<1> DEFINE t == SizedOutput(r)
<1>1. /\ t \in OutputTables /\ t.tracked = r.tracked /\ t.ctl = r.ctl /\ t.shown = r.shown
      /\ \A k \in Slots : k # r.tracked => t.obj[k] = r.obj[k]
      /\ t.obj[r.tracked].ctl = r.obj[r.tracked].ctl /\ t.obj[r.tracked].ready /\ ~t.obj[r.tracked].failed
      /\ t.obj[r.tracked].last = Plain
    BY SizedFacts
<1> HIDE DEF t
<1>2. Shape(t)
    BY <1>1, ShapeKept
<1>3. Object(t).ctl = Object(r).ctl /\ Control(t) = Control(r) /\ Object(t).ready /\ ~Object(t).failed /\ Object(t).last = Plain
    BY <1>1 DEF Object, Control
<1>4. Object(r).ctl # 0
    BY DEF Proceeds
<1>5. Proceeds(t, ns, nf) /\ ShowsLast(t)
    BY <1>3, <1>4 DEF Proceeds, ShowsLast, FailureDue
<1> QED BY <1>1, <1>2, <1>3, <1>5 DEF t

\* Writing the level, or failing to.
LEMMA AppliedLight ==
    ASSUME NEW o \in Outs, NEW r \in OutputTables, Shape(r), r.tracked # 0, level \in Levels, NEW bad,
           NEW ns, NEW nf, Proceeds(r, ns, nf), r.shown # Plain => Holds(r)
    PROVE  LET t == AppliedOutput(r, o, bad)
           IN  /\ t.tracked = r.tracked /\ Proceeds(t, ns, nf) /\ (t.shown # Plain => Holds(t))
               /\ ShowsLast(r) => ShowsLast(t)
               /\ ShowsLevel(r, ns, nf, level) => ShowsLevel(t, ns, nf, level)
               /\ ShowsLast(r) /\ o \in available /\ Object(r).ready /\ ~Object(r).failed => ShowsLevel(t, ns, nf, level)
<1> DEFINE t == AppliedOutput(r, o, bad)
           x == r.obj[r.tracked]
           y == t.obj[r.tracked]
<1>1. /\ Rewrites(r, t) /\ (~CanApply(r, o) => t = r)
      /\ CanApply(r, o) /\ o \in bad =>
             y.failed /\ ~y.ready /\ y.last = Plain /\ t.shown = r.shown
      /\ CanApply(r, o) /\ o \notin bad =>
             /\ ~y.failed /\ y.ready /\ y.last = level
             /\ t.shown = IF r.ctl[x.ctl].st = "holds" THEN level ELSE r.shown
    BY AppliedFacts
<1> SUFFICES /\ t.tracked = r.tracked /\ Proceeds(t, ns, nf) /\ (t.shown # Plain => Holds(t))
             /\ ShowsLast(r) => ShowsLast(t)
             /\ ShowsLevel(r, ns, nf, level) => ShowsLevel(t, ns, nf, level)
             /\ ShowsLast(r) /\ o \in available /\ Object(r).ready /\ ~Object(r).failed => ShowsLevel(t, ns, nf, level)
    OBVIOUS
<1> HIDE DEF t
<1>2. Object(r).ctl # 0 \/ (Object(r).failed /\ ~Object(r).ready)
    BY DEF Proceeds
<1>3. CASE ~CanApply(r, o)
    <2>1. t = r
        BY <1>1, <1>3
    <2>2. ASSUME ShowsLast(r), o \in available, Object(r).ready, ~Object(r).failed PROVE ShowsLevel(r, ns, nf, level)
        <3>1. Object(r).last = level /\ Object(r).ctl # 0
            BY <1>2, <1>3, <2>2 DEF CanApply, Object
        <3>2. CASE Control(r).st = "holds"
            <4>1. Object(r).last # Plain
                BY <3>1, GammaAssumption
            <4>2. r.shown = level
                BY <2>2, <3>1, <3>2, <4>1 DEF ShowsLast
            <4> QED BY <4>2 DEF ShowsLevel
        <3>3. CASE Control(r).st # "holds"
            <4>1. Control(r).st = "void"
                BY <3>1, <3>3, ControlParts
            <4> QED BY <4>1 DEF Proceeds, ShowsLevel
        <3> QED BY <3>2, <3>3
    <2> QED BY <2>1, <2>2
<1>4. CASE CanApply(r, o)
    <2>1. /\ t.tracked = r.tracked /\ t.ctl = r.ctl /\ Object(t) = y /\ Object(r) = x /\ y.ctl = x.ctl
          /\ Control(t) = Control(r)
        BY <1>1 DEF Rewrites, Object, Control
    <2>2. x.ctl # 0 /\ x.ready /\ ~x.failed /\ Control(r) = r.ctl[x.ctl]
        BY <1>4, <2>1 DEF CanApply, Control
    <2>3. Holds(t) <=> Holds(r)
        BY <2>1 DEF Holds
    <2>4. Control(r).st = "holds" \/ (Control(r).st = "void" /\ FailureDue(r, nf))
        <3>1. Control(r).st \in {"holds", "void"}
            BY <2>1, <2>2, ControlParts
        <3> QED BY <3>1 DEF Proceeds
    <2>5. (FailureDue(t, nf) <=> FailureDue(r, nf)) /\ (SizeDue(t, ns) <=> SizeDue(r, ns))
        BY <2>1 DEF FailureDue, SizeDue
    <2>6. Control(r).st = "holds" <=> Holds(r)
        BY ControlParts
    <2> HIDE DEF x, y
    <2>7. CASE o \in bad
        <3>1. y.failed /\ ~y.ready /\ y.last = Plain /\ t.shown = r.shown
            BY <1>1, <1>4, <2>7 DEF y
        <3> QED BY <2>1, <2>2, <2>3, <2>4, <2>5, <3>1 DEF Proceeds, ShowsLast, ShowsLevel
    <2>8. CASE o \notin bad
        <3>1. ~y.failed /\ y.ready /\ y.last = level /\ t.shown = IF Control(r).st = "holds" THEN level ELSE r.shown
            BY <1>1, <1>4, <2>2, <2>8 DEF y, x
        <3>2. Proceeds(t, ns, nf)
            BY <2>1, <2>2, <2>4, <2>5, <3>1 DEF Proceeds
        <3>3. ShowsLast(t)
            BY <2>1, <2>2, <3>1 DEF ShowsLast
        <3>4. ShowsLevel(t, ns, nf, level)
            BY <2>1, <2>4, <2>5, <3>1 DEF ShowsLevel
        <3>5. t.shown # Plain => Holds(t)
            BY <2>3, <2>6, <3>1
        <3> QED BY <2>1, <3>2, <3>3, <3>4, <3>5
    <2> QED BY <2>7, <2>8
<1> QED BY <1>3, <1>4

\* A wake-up forgets the last level written, which will be written again.
LEMMA ForgottenLight ==
    ASSUME NEW r \in OutputTables, Shape(r), r.tracked # 0, NEW ns, NEW nf, Proceeds(r, ns, nf), r.shown # Plain => Holds(r)
    PROVE  LET t == Forgotten(r)
           IN  /\ t \in OutputTables /\ Shape(t) /\ t.tracked = r.tracked /\ Proceeds(t, ns, nf) /\ ShowsLast(t)
               /\ t.shown # Plain => Holds(t)
<1> DEFINE t == Forgotten(r)
<1>1. /\ Rewrites(r, t) /\ t.shown = r.shown
      /\ t.obj[r.tracked].failed = r.obj[r.tracked].failed /\ t.obj[r.tracked].ready = r.obj[r.tracked].ready
      /\ t.obj[r.tracked].last = Plain
    BY ForgottenFacts
<1> HIDE DEF t
<1>2. t \in OutputTables /\ Shape(t) /\ t.tracked = r.tracked /\ t.ctl = r.ctl
    BY <1>1, RewritesShape DEF Rewrites
<1>3. /\ Object(t).ctl = Object(r).ctl /\ Object(t).failed = Object(r).failed /\ Object(t).ready = Object(r).ready
      /\ Object(t).last = Plain /\ Control(t) = Control(r)
    BY <1>1 DEF Rewrites, Object, Control
<1>4. Proceeds(t, ns, nf) /\ ShowsLast(t) /\ (Holds(t) <=> Holds(r))
    BY <1>2, <1>3 DEF Proceeds, ShowsLast, SizeDue, FailureDue, Holds
<1> QED BY <1>1, <1>2, <1>4 DEF t

\* A backoff that ran makes a control that will be heard, or nothing of what counts changes.
LEMMA RecreatedLight ==
    ASSUME NEW o \in Outs, NEW r \in OutputTables, Shape(r), NEW k \in Slots, r.obj[k].queued > 0, FreeHandles(r) # {},
           r.tracked # 0, NEW ns \in Nat, NEW nf \in Nat, ChanceOf(r, nf), Proceeds(r, ns, nf), r.shown # Plain => Holds(r), NEW l
    PROVE  LET t == Recreated(r, o, k)
           IN  /\ t.tracked = r.tracked /\ Proceeds(t, ns, nf) /\ (t.shown # Plain => Holds(t))
               /\ ShowsLast(r) => ShowsLast(t)
               /\ ShowsLevel(r, ns, nf, l) => ShowsLevel(t, ns, nf, l)
<1> DEFINE t == Recreated(r, o, k)
           x == r.obj[k]
           y == t.obj[k]
<1>1. RecreatedTable(r, k, t) /\ RecreatedControl(r, o, k, t)
    BY RecreatedFacts
<1> SUFFICES /\ t.tracked = r.tracked /\ Proceeds(t, ns, nf) /\ (t.shown # Plain => Holds(t))
             /\ ShowsLast(r) => ShowsLast(t)
             /\ ShowsLevel(r, ns, nf, l) => ShowsLevel(t, ns, nf, l)
    OBVIOUS
<1> HIDE DEF t
<1>2. t \in OutputTables /\ Shape(t) /\ t.tracked = r.tracked /\ k = r.tracked /\ Object(r) = x /\ Object(t) = y
    BY <1>1 DEF RecreatedTable, Object
<1>3. x \in Objects /\ x.ctl \in Handles \cup {0}
    BY TableParts, ObjectParts
<1>4. x.ctl = 0
    <2>1. x.timers + x.queued + nf + (IF MayFail(r) THEN 1 ELSE 0) <= 1
        BY <1>2 DEF ChanceOf
    <2>2. x.timers \in Nat /\ x.queued \in Nat /\ x.queued > 0
        BY <1>2, ChanceParts
    <2> HIDE DEF x
    <2>3. nf = 0 /\ ~MayFail(r)
        BY <2>1, <2>2
    <2>4. ASSUME x.ctl # 0 PROVE FALSE
        <3>1. Control(r) = [st |-> "void", ev |-> "none"]
            BY <1>2, <2>3, <2>4 DEF MayFail, Control, x
        <3> QED BY <2>3, <3>1 DEF Proceeds, FailureDue
    <2> QED BY <2>4
<1>5. x.failed /\ ~x.ready /\ ns = 0 /\ Control(r) = NoControl
    BY <1>2, <1>4 DEF Proceeds, Control
<1>6. r.shown = Plain /\ ~Holds(r)
    BY <1>2, <1>5, ControlParts DEF NoControl
<1>7. CASE t.ctl = r.ctl /\ t.shown = r.shown /\ y = [x EXCEPT !.queued = x.queued - 1]
    <2>1. y.ctl = x.ctl /\ y.failed = x.failed /\ y.ready = x.ready /\ y.last = x.last
        <3> HIDE DEF x, y
        <3> QED BY <1>3, <1>7 DEF Objects
    <2>2. Control(t) = Control(r)
        BY <1>2, <1>4, <2>1 DEF Control
    <2> HIDE DEF x, y
    <2> QED BY <1>2, <1>6, <1>7, <2>1, <2>2 DEF Proceeds, ShowsLast, ShowsLevel, SizeDue, FailureDue
<1>8. CASE /\ y.ctl \in Handles /\ ~y.failed /\ y.ready = x.ready /\ y.last = x.last
           /\ t.ctl[y.ctl] = IF o \in plugged THEN [st |-> "holds", ev |-> "size"] ELSE Refused
           /\ t.shown = IF Holds(r) THEN Plain ELSE r.shown
    <2>1. y.ctl # 0 /\ Control(t) = t.ctl[y.ctl] /\ t.shown = Plain
        BY <1>2, <1>6, <1>8 DEF Control, Handles
    <2>2. Control(t).ev = "size" \/ Control(t).ev = "failed"
        BY <1>8, <2>1 DEF Refused
    <2>3. Control(t).st = "void" => Control(t).ev = "failed"
        BY <1>8, <2>1 DEF Refused
    <2> HIDE DEF x, y
    <2> QED BY <1>2, <1>5, <1>8, <2>1, <2>2, <2>3 DEF Proceeds, ShowsLast, ShowsLevel, SizeDue, FailureDue
<1> QED BY <1>1, <1>2, <1>7, <1>8 DEF RecreatedControl

\* What a control tells is on its way in the queue once it has been heard.
LEMMA HeardLight ==
    ASSUME NEW r \in OutputTables, Shape(r), NEW c \in Handles, r.ctl[c].ev # "none",
           NEW ns \in Nat, NEW nf \in Nat, Proceeds(r, ns, nf), r.shown # Plain => Holds(r), NEW l,
           NEW ms \in Nat, NEW mf \in Nat,
           ms = ns + (IF r.ctl[c].ev = "size" THEN 1 ELSE 0), mf = nf + (IF r.ctl[c].ev = "failed" THEN 1 ELSE 0)
    PROVE  LET t == [r EXCEPT !.ctl[c].ev = "none"]
           IN  /\ t.tracked = r.tracked /\ Proceeds(t, ms, mf) /\ (t.shown # Plain => Holds(t))
               /\ ShowsLast(r) => ShowsLast(t)
               /\ ShowsLevel(r, ns, nf, l) => ShowsLevel(t, ms, mf, l)
<1> DEFINE t == [r EXCEPT !.ctl[c].ev = "none"]
<1>1. /\ t \in OutputTables /\ t.tracked = r.tracked /\ t.obj = r.obj /\ t.shown = r.shown
      /\ \A h \in Handles : t.ctl[h] = IF h = c THEN [st |-> r.ctl[c].st, ev |-> "none"] ELSE r.ctl[h]
    BY HeardFacts
<1> HIDE DEF t
<1>2. r.ctl[c] \in Controls
    BY TableParts
<1>3. r.ctl[c].st # "none" /\ r.ctl[c].ev \in {"size", "failed"}
    BY <1>2 DEF Controls
<1>4. r.tracked # 0
    BY <1>3 DEF Shape
<1>5. Object(r).ctl = c /\ Control(r) = r.ctl[c]
    BY <1>3, <1>4, ControlParts
<1>6. Object(t) = Object(r) /\ Control(t) = [st |-> Control(r).st, ev |-> "none"]
    <2>1. Object(t) = Object(r) /\ c # 0
        BY <1>1 DEF Object, Handles
    <2> QED BY <1>1, <1>5, <2>1 DEF Control
<1>7. Holds(t) <=> Holds(r)
    BY <1>1 DEF Holds
<1>8. SizeDue(r, ns) => SizeDue(t, ms)
    BY <1>5 DEF SizeDue
<1>9. FailureDue(r, nf) => FailureDue(t, mf)
    BY <1>5 DEF FailureDue
<1>10. Object(r).ctl # 0
    BY <1>5 DEF Handles
<1> QED BY <1>1, <1>6, <1>7, <1>8, <1>9, <1>10 DEF t, Proceeds, ShowsLast, ShowsLevel

\* An output that is taken from its control will fail.
LEMMA VoidedLight ==
    ASSUME NEW r \in OutputTables, Shape(r), NEW c \in Handles, r.ctl[c].st = "holds",
           NEW ns, NEW nf, Proceeds(r, ns, nf), NEW l
    PROVE  LET t == Voided(r, c)
           IN  /\ t.tracked = r.tracked /\ Proceeds(t, ns, nf) /\ t.shown = Plain
               /\ ShowsLast(t) /\ ShowsLevel(t, ns, nf, l)
<1> DEFINE t == Voided(r, c)
<1>1. /\ t \in OutputTables /\ t.tracked = r.tracked /\ t.obj = r.obj /\ t.shown = Plain
      /\ \A h \in Handles : t.ctl[h] = IF h = c THEN Refused ELSE r.ctl[h]
    BY VoidedFacts
<1> HIDE DEF t
<1>2. r.tracked # 0
    BY DEF Shape
<1>3. Object(r).ctl = c /\ c # 0
    BY <1>2, ControlParts DEF Handles
<1>4. Object(t) = Object(r) /\ Control(t) = Refused
    <2>1. Object(t) = Object(r)
        BY <1>1 DEF Object
    <2> QED BY <1>1, <1>3, <2>1 DEF Control
<1>5. Control(t).st = "void" /\ Control(t).ev = "failed"
    BY <1>4 DEF Refused
<1> QED BY <1>1, <1>3, <1>4, <1>5 DEF t, Proceeds, ShowsLast, ShowsLevel, FailureDue

-----------------------------------------------------------------------------
(* The sizes of an output are ahead of its failures in the queue.          *)

LEMMA SizesFirstTaken ==
    ASSUME NEW q \in Seq(Closures), q # <<>>, NEW o, SizesFirst(q, o)
    PROVE  /\ SizesFirst(Tail(q), o)
           /\ Head(q) \in Failures(o) => HowMany(q, Sizes(o)) = 0
<1>1. /\ Tail(q) \in Seq(Closures) /\ Len(q) \in Nat /\ Len(q) > 0 /\ Len(Tail(q)) = Len(q) - 1
      /\ Head(q) = q[1] /\ \A i \in 1..Len(Tail(q)) : Tail(q)[i] = q[i + 1]
    OBVIOUS
<1>2. SizesFirst(Tail(q), o)
    <2> SUFFICES ASSUME NEW i \in 1..Len(Tail(q)), NEW j \in 1..Len(Tail(q)),
                        Tail(q)[i] \in Failures(o), Tail(q)[j] \in Sizes(o)
                 PROVE  j < i
        BY DEF SizesFirst
    <2>1. i + 1 \in 1..Len(q) /\ j + 1 \in 1..Len(q) /\ q[i + 1] \in Failures(o) /\ q[j + 1] \in Sizes(o)
        BY <1>1
    <2>2. j + 1 < i + 1
        BY <2>1 DEF SizesFirst
    <2> QED BY <1>1, <2>2
<1>3. ASSUME Head(q) \in Failures(o) PROVE HowMany(q, Sizes(o)) = 0
    <2>1. 1 \in 1..Len(q) /\ q[1] \in Failures(o)
        BY <1>1, <1>3
    <2>2. \A j \in 1..Len(q) : q[j] \notin Sizes(o)
        <3> SUFFICES ASSUME NEW j \in 1..Len(q), q[j] \in Sizes(o) PROVE FALSE
            OBVIOUS
        <3>1. j < 1
            BY <2>1 DEF SizesFirst
        <3> QED BY <1>1, <3>1
    <2> QED BY <2>2, HowManyNat
<1> QED BY <1>2, <1>3

LEMMA SizesFirstPosted ==
    ASSUME NEW q \in Seq(Closures), NEW c \in Closures, NEW o, SizesFirst(q, o),
           c \notin Sizes(o) \/ HowMany(q, Failures(o)) = 0
    PROVE  SizesFirst(Posted(q, c), o)
<1>1. ASSUME Posted(q, c) = q PROVE SizesFirst(Posted(q, c), o)
    BY <1>1 DEF SizesFirst
<1>2. ASSUME Posted(q, c) = Append(q, c) PROVE SizesFirst(Posted(q, c), o)
    <2> DEFINE n == Len(q) + 1
               p == Append(q, c)
    <2>1. /\ Len(q) \in Nat /\ Len(p) = n /\ p[n] = c /\ \A i \in 1..Len(q) : p[i] = q[i]
          /\ \A i \in 1..n : i = n \/ i \in 1..Len(q)
        OBVIOUS
    <2>2. c \notin Sizes(o) \/ c \notin Failures(o)
        BY CommandKinds
    <2>3. ASSUME NEW i \in 1..n, NEW j \in 1..n, p[i] \in Failures(o), p[j] \in Sizes(o)
          PROVE  j < i
        <3>1. CASE i \in 1..Len(q) /\ j \in 1..Len(q)
            BY <2>1, <2>3, <3>1 DEF SizesFirst
        <3>2. CASE i = n /\ j \in 1..Len(q)
            BY <2>1, <3>2
        <3>3. CASE j = n
            <4>1. c \in Sizes(o) /\ HowMany(q, Failures(o)) = 0
                BY <2>1, <2>3, <3>3
            <4>2. \A m \in 1..Len(q) : q[m] \notin Failures(o)
                BY <4>1, HowManyNat
            <4>3. i \notin 1..Len(q)
                BY <2>1, <2>3, <4>2
            <4>4. i = n
                BY <2>1, <4>3
            <4>5. c \in Failures(o)
                BY <2>1, <2>3, <4>4
            <4> QED BY <2>2, <4>1, <4>5
        <3> QED BY <2>1, <3>1, <3>2, <3>3
    <2> QED BY <1>2, <2>1, <2>3 DEF SizesFirst
<1> QED BY <1>1, <1>2 DEF Posted

\* What is due of the light when the actor has taken a command.
LEMMA LightTaken ==
    ASSUME GammaSound, LightSound, NEW do, TakeCmd(do), ActorIdle, NEW o \in Outs
    PROVE  /\ SizesFirst(cmdq', o)
           /\ HowMany(cmdq, Sizes(o)) \in Nat /\ HowMany(cmdq', Sizes(o)) \in Nat
           /\ HowMany(cmdq, Failures(o)) \in Nat /\ HowMany(cmdq', Failures(o)) \in Nat
           /\ HowMany(cmdq, Sizes(o)) = HowMany(cmdq', Sizes(o)) + (IF do = "size" /\ Head(cmdq).out = o THEN 1 ELSE 0)
           /\ HowMany(cmdq, Failures(o)) = HowMany(cmdq', Failures(o)) + (IF do = "failed" /\ Head(cmdq).out = o THEN 1 ELSE 0)
           /\ do = "failed" /\ Head(cmdq).out = o => HowMany(cmdq, Sizes(o)) = 0
           /\ do # "resume" => (WakeDue' <=> WakeDue)
           /\ do # "apply" /\ updateTrigger' = updateTrigger => (ApplyDue' <=> ApplyDue)
           /\ HowMany(cmdq', Removals(o)) \in Nat /\ HowMany(cmdq', Removals(o)) <= HowMany(cmdq, Removals(o))
           /\ HowMany(cmdq, Removals(o)) = HowMany(cmdq', Removals(o)) + (IF do = "removed" /\ Head(cmdq).out = o THEN 1 ELSE 0)
<1>1. /\ cmdq \in Seq(Closures) /\ cmdq # <<>> /\ cmdq' = Tail(cmdq) /\ Head(cmdq) \in Closures /\ Head(cmdq).do = do
      /\ \A S : /\ HowMany(cmdq, S) \in Nat /\ HowMany(cmdq', S) \in Nat
                /\ HowMany(cmdq, S) = HowMany(cmdq', S) + (IF Head(cmdq) \in S THEN 1 ELSE 0)
    BY Takes DEF GammaSound, GammaTypes, TakeCmd
<1>2. /\ Head(cmdq) \in Sizes(o) <=> do = "size" /\ Head(cmdq).out = o
      /\ Head(cmdq) \in Failures(o) <=> do = "failed" /\ Head(cmdq).out = o
      /\ Head(cmdq) \in Removals(o) <=> do = "removed" /\ Head(cmdq).out = o
      /\ Head(cmdq) \in Doing("resume") <=> do = "resume"
      /\ Head(cmdq) \in Doing("apply") <=> do = "apply"
    BY <1>1, CommandKinds
<1>3. SizesFirst(cmdq, o)
    BY DEF LightSound
<1>4. SizesFirst(cmdq', o) /\ (Head(cmdq) \in Failures(o) => HowMany(cmdq, Sizes(o)) = 0)
    BY <1>1, <1>3, SizesFirstTaken
<1>5. do # "resume" => (WakeDue' <=> WakeDue)
    <2>1. do # "resume" => HowMany(cmdq', Doing("resume")) = HowMany(cmdq, Doing("resume"))
        BY <1>1, <1>2
    <2> QED BY <2>1 DEF WakeDue, ActorIdle
<1>6. do # "apply" /\ updateTrigger' = updateTrigger => (ApplyDue' <=> ApplyDue)
    <2>1. do # "apply" => HowMany(cmdq', Doing("apply")) = HowMany(cmdq, Doing("apply"))
        BY <1>1, <1>2
    <2> QED BY <2>1 DEF ApplyDue, ActorIdle
<1>7. HowMany(cmdq', Removals(o)) \in Nat /\ HowMany(cmdq', Removals(o)) <= HowMany(cmdq, Removals(o))
    <2>1. /\ HowMany(cmdq, Removals(o)) \in Nat /\ HowMany(cmdq', Removals(o)) \in Nat
          /\ HowMany(cmdq, Removals(o)) = HowMany(cmdq', Removals(o)) + (IF Head(cmdq) \in Removals(o) THEN 1 ELSE 0)
        BY <1>1
    <2> QED BY <2>1
<1> QED BY <1>1, <1>2, <1>4, <1>5, <1>6, <1>7

\* What is due of the light when a command has been posted.
LEMMA LightPosted ==
    ASSUME GammaSound, LightSound, HasRoom, NEW c \in Closures, cmdq' = Posted(cmdq, c), NEW o \in Outs,
           c \notin Sizes(o) \/ HowMany(cmdq, Failures(o)) = 0
    PROVE  /\ SizesFirst(cmdq', o)
           /\ \A S : /\ HowMany(cmdq, S) \in Nat /\ HowMany(cmdq', S) \in Nat
                     /\ HowMany(cmdq', S) = HowMany(cmdq, S) + (IF c \in S THEN 1 ELSE 0)
<1>1. /\ \A S : /\ HowMany(cmdq, S) \in Nat /\ HowMany(cmdq', S) \in Nat
                /\ cmdq' # cmdq => HowMany(cmdq', S) = HowMany(cmdq, S) + (IF c \in S THEN 1 ELSE 0)
      /\ Len(cmdq) < CmdCap => cmdq' # cmdq
    BY Posts DEF GammaSound
<1>2. SizesFirst(cmdq', o)
    BY SizesFirstPosted DEF GammaSound, GammaTypes, LightSound
<1> QED BY <1>1, <1>2 DEF HasRoom

\* An output whose table proceeds, while nothing more is asked of it.
LEMMA LightFrom ==
    ASSUME NEW o \in Outs, LightDue(o),
           dev'[o].tracked # 0 =>
              /\ dev[o].tracked # 0
              /\ Proceeds(dev'[o], HowMany(cmdq', Sizes(o)), HowMany(cmdq', Failures(o)))
              /\ ShowsLast(dev[o]) => ShowsLast(dev'[o])
              /\ ShowsLevel(dev[o], HowMany(cmdq, Sizes(o)), HowMany(cmdq, Failures(o)), level)
                     => ShowsLevel(dev'[o], HowMany(cmdq', Sizes(o)), HowMany(cmdq', Failures(o)), level'),
           gammaEnabled' /\ ~WakeDue' => gammaEnabled /\ ~WakeDue,
           gammaEnabled' /\ ~WakeDue' /\ ~ApplyDue' /\ o \in plugged' => ~ApplyDue /\ o \in plugged
    PROVE  LightDue(o)'
BY DEF LightDue

LEMMA LightUntouched ==
    ASSUME NEW o \in Outs, LightDue(o), dev'[o] = dev[o], level' = level,
           HowMany(cmdq', Sizes(o)) = HowMany(cmdq, Sizes(o)), HowMany(cmdq', Failures(o)) = HowMany(cmdq, Failures(o)),
           gammaEnabled' /\ ~WakeDue' => gammaEnabled /\ ~WakeDue,
           gammaEnabled' /\ ~WakeDue' /\ ~ApplyDue' /\ o \in plugged' => ~ApplyDue /\ o \in plugged
    PROVE  LightDue(o)'
BY DEF LightDue

\* The switch while no structural command comes or goes.
LEMMA SwitchKept ==
    ASSUME LightSound, UNCHANGED <<gammaEnabled, plugged, available, controlsInitialized, caller>>,
           SetupDue' <=> SetupDue, \A o : AddDue(o)' <=> AddDue(o),
           HowMany(cmdq', SetUps) = HowMany(cmdq, SetUps),
           HowMany(cmdq', Doing("teardown")) = HowMany(cmdq, Doing("teardown")),
           \A o \in Outs : HowMany(cmdq', Removals(o)) = HowMany(cmdq, Removals(o)),
           plugged \subseteq Outs,
           \A o \in Outs : dev[o].tracked # 0 => dev'[o].tracked # 0
    PROVE  SwitchFollowed'
<1>1. SwitchFollowed
    BY DEF LightSound
<1>2. \A o \in plugged : HowMany(cmdq', Removals(o)) = 0
    BY <1>1 DEF SwitchFollowed
<1>3. \A o \in Outs : AddDue(o)' => gammaEnabled
    BY <1>1 DEF SwitchFollowed
<1>4. gammaEnabled => \A o \in plugged : dev'[o].tracked # 0 \/ AddDue(o)' \/ SetupDue'
    BY <1>1 DEF SwitchFollowed
<1> QED BY <1>1, <1>2, <1>3, <1>4 DEF SwitchFollowed

-----------------------------------------------------------------------------
(* The structural commands.                                                *)

LEMMA StructuralLight ==
    ASSUME GammaSound, LightSound, NEW do \in StructuralDo, TakeCmd(do), ActorIdle
    PROVE  /\ HowMany(cmdq', SetUps) = 0 /\ HowMany(cmdq', Doing("teardown")) = 0
           /\ \A o : HowMany(cmdq', Removals(o)) = 0
           /\ do = "setup" => SetupDue /\ gammaEnabled /\ ~controlsInitialized
           /\ do = "teardown" => ~gammaEnabled
           /\ do = "add" => AddDue(Head(cmdq).out) /\ gammaEnabled
           /\ do = "removed" => Head(cmdq).out \notin plugged
           /\ ~gammaEnabled /\ controlsInitialized => do = "teardown"
           /\ gammaEnabled => \A o \in plugged : \/ dev[o].tracked # 0
                                                 \/ do = "setup"
                                                 \/ do = "add" /\ Head(cmdq).out = o
<1>1. /\ cmdq \in Seq(Closures) /\ cmdq' \in Seq(Closures) /\ Head(cmdq) \in Closures /\ Head(cmdq).do = do
      /\ caller # "decide" /\ watcher = {} /\ (Head(cmdq) \in SetUps => SetupDue)
      /\ \A o : Head(cmdq) \in Adds(o) => AddDue(o)
    BY StructuralTaken DEF GammaSound, GammaTypes
<1>2. \A S : /\ HowMany(cmdq, S) \in Nat /\ HowMany(cmdq', S) \in Nat
             /\ HowMany(cmdq, S) = HowMany(cmdq', S) + (IF Head(cmdq) \in S THEN 1 ELSE 0)
    BY Takes DEF GammaSound
<1>3. HowMany(cmdq', Structural) = 0
    <2>1. HowMany(cmdq, Structural) <= 1
        BY DEF GammaSound, OneAtATime
    <2>2. Head(cmdq) \in Structural
        BY <1>1, CommandKinds
    <2>3. HowMany(cmdq', Structural) \in Nat /\ HowMany(cmdq, Structural) = HowMany(cmdq', Structural) + 1
        BY <1>2, <2>2
    <2> QED BY <2>1, <2>3
<1>4. ASSUME NEW S, S \subseteq Structural
      PROVE  HowMany(cmdq', S) = 0 /\ (HowMany(cmdq, S) > 0 <=> Head(cmdq) \in S)
    <2>1. HowMany(cmdq', S) <= HowMany(cmdq', Structural)
        BY <1>1, <1>4, HowManyLess
    <2>2. HowMany(cmdq', S) = 0
        BY <1>2, <1>3, <2>1
    <2>3. HowMany(cmdq, S) = (IF Head(cmdq) \in S THEN 1 ELSE 0)
        BY <1>2, <2>2
    <2> QED BY <2>2, <2>3
<1>5. /\ SetUps \subseteq Structural /\ Doing("teardown") \subseteq Structural
      /\ \A o : Removals(o) \subseteq Structural /\ Adds(o) \subseteq Structural
    BY DEF SetUps, Doing, Structural, Removals, Adds
<1>6. /\ Head(cmdq) \in SetUps <=> do = "setup"
      /\ Head(cmdq) \in Doing("teardown") <=> do = "teardown"
      /\ \A o : /\ Head(cmdq) \in Adds(o) <=> do = "add" /\ Head(cmdq).out = o
                /\ Head(cmdq) \in Removals(o) <=> do = "removed" /\ Head(cmdq).out = o
      /\ do = "add" => Head(cmdq).out \in Outs
    BY <1>1, CommandKinds
<1>7. SwitchFollowed
    BY DEF LightSound
<1>8. HowMany(cmdq', SetUps) = 0 /\ HowMany(cmdq', Doing("teardown")) = 0 /\ \A o : HowMany(cmdq', Removals(o)) = 0
    BY <1>4, <1>5
<1>9. do = "setup" => SetupDue /\ gammaEnabled /\ ~controlsInitialized
    <2>1. do = "setup" => HowMany(cmdq, SetUps) > 0
        BY <1>4, <1>5, <1>6
    <2> QED BY <1>1, <1>6, <1>7, <2>1 DEF SwitchFollowed
<1>10. do = "teardown" => ~gammaEnabled
    <2>1. do = "teardown" => HowMany(cmdq, Doing("teardown")) > 0
        BY <1>4, <1>5, <1>6
    <2> QED BY <1>7, <2>1 DEF SwitchFollowed
<1>11. do = "add" => AddDue(Head(cmdq).out) /\ gammaEnabled
    BY <1>1, <1>6, <1>7 DEF SwitchFollowed
<1>12. do = "removed" => Head(cmdq).out \notin plugged
    <2>1. do = "removed" => HowMany(cmdq, Removals(Head(cmdq).out)) > 0
        BY <1>4, <1>5, <1>6
    <2> QED BY <1>7, <2>1 DEF SwitchFollowed
<1>13. ~gammaEnabled /\ controlsInitialized => do = "teardown"
    <2>1. HowMany(cmdq, Doing("teardown")) > 0 => do = "teardown"
        BY <1>4, <1>5, <1>6
    <2> QED BY <1>1, <1>7, <2>1 DEF SwitchFollowed
<1>14. ASSUME gammaEnabled, NEW o \in plugged, dev[o].tracked = 0, do # "setup"
       PROVE  do = "add" /\ Head(cmdq).out = o
    <2>1. HowMany(cmdq, SetUps) > 0 => do = "setup"
        BY <1>4, <1>5, <1>6
    <2>2. ~SetupDue
        BY <1>1, <1>14, <2>1 DEF SetupDue
    <2>3. AddDue(o)
        BY <1>7, <1>14, <2>2 DEF SwitchFollowed
    <2>4. HowMany(cmdq, Adds(o)) > 0
        BY <1>1, <2>3 DEF AddDue
    <2> QED BY <1>4, <1>5, <1>6, <2>4
<1> QED BY <1>8, <1>9, <1>10, <1>11, <1>12, <1>13, <1>14

\* Afterwards no structural command is left, so all must be as the switch says.
LEMMA SwitchAfter ==
    ASSUME GammaSound, LightSound, NEW do \in StructuralDo, TakeCmd(do), ActorIdle, plugged \subseteq available',
           ~gammaEnabled => ~controlsInitialized', gammaEnabled => \A o \in plugged : dev'[o].tracked # 0
    PROVE  SwitchFollowed'
<1>1. ~SetupDue' /\ \A o : ~AddDue(o)'
    BY StructuralTaken
<1>2. HowMany(cmdq', SetUps) = 0 /\ HowMany(cmdq', Doing("teardown")) = 0 /\ \A o : HowMany(cmdq', Removals(o)) = 0
    BY StructuralLight
<1>3. gammaEnabled' = gammaEnabled /\ plugged' = plugged
    BY DEF ActorIdle
<1>4. \A o \in Outs : AddDue(o)' => gammaEnabled'
    BY <1>1
<1> QED BY <1>1, <1>2, <1>3, <1>4 DEF SwitchFollowed

\* An output that gets its control.
LEMMA AttachedDue ==
    ASSUME GammaSound, LightSound, NEW o \in Outs, SetupDue \/ AddDue(o),
           FreeSlots(dev[o]) # {}, FreeHandles(dev[o]) # {}, dev'[o] = Attached(dev[o], o),
           HowMany(cmdq', Sizes(o)) = HowMany(cmdq, Sizes(o)), HowMany(cmdq', Failures(o)) = HowMany(cmdq, Failures(o))
    PROVE  LightDue(o)' /\ LitByControl(o)' /\ dev'[o].tracked # 0
<1>1. /\ dev[o] \in OutputTables /\ Shape(dev[o]) /\ Vacant(dev[o])
      /\ HowMany(cmdq, Sizes(o)) = 0 /\ HowMany(cmdq, Failures(o)) = 0
    BY SoundTables DEF OutputSound
<1>2. dev[o].shown # Plain => Holds(dev[o])
    BY DEF LightSound, LitByControl
<1>3. \A l : LET t == Attached(dev[o], o)
             IN  /\ t.tracked # 0 /\ Proceeds(t, 0, 0) /\ ShowsLast(t) /\ ShowsLevel(t, 0, 0, l)
                 /\ t.shown # Plain => Holds(t)
    BY <1>1, <1>2, AttachedLight
<1>4. /\ dev'[o].tracked # 0 /\ Proceeds(dev'[o], 0, 0) /\ ShowsLast(dev'[o]) /\ ShowsLevel(dev'[o], 0, 0, level')
      /\ dev'[o].shown # Plain => Holds(dev'[o])
    BY <1>3
<1> QED BY <1>1, <1>4 DEF LightDue, LitByControl

LEMMA SetupLight ==
    ASSUME GammaSound, LightSound, TakeCmd("setup"), ActorIdle, available' = available,
           SetupOutputControls
    PROVE  LightSound'
<1>1. "setup" \in StructuralDo /\ SetupDue /\ gammaEnabled /\ plugged \subseteq available /\ available \subseteq Outs
    BY StructuralLight DEF StructuralDo, LightSound, SwitchFollowed, GammaSound, GammaTypes
<1>2. \A o \in Outs : /\ SizesFirst(cmdq', o)
                      /\ HowMany(cmdq', Sizes(o)) = HowMany(cmdq, Sizes(o))
                      /\ HowMany(cmdq', Failures(o)) = HowMany(cmdq, Failures(o))
    <2> TAKE o \in Outs
    <2>1. /\ SizesFirst(cmdq', o)
          /\ HowMany(cmdq, Sizes(o)) \in Nat /\ HowMany(cmdq', Sizes(o)) \in Nat
          /\ HowMany(cmdq, Failures(o)) \in Nat /\ HowMany(cmdq', Failures(o)) \in Nat
          /\ HowMany(cmdq, Sizes(o)) = HowMany(cmdq', Sizes(o)) + (IF "setup" = "size" /\ Head(cmdq).out = o THEN 1 ELSE 0)
          /\ HowMany(cmdq, Failures(o)) = HowMany(cmdq', Failures(o)) + (IF "setup" = "failed" /\ Head(cmdq).out = o THEN 1 ELSE 0)
        BY LightTaken
    <2> QED BY <2>1
<1>3. ASSUME NEW o \in available PROVE LightDue(o)' /\ LitByControl(o)' /\ dev'[o].tracked # 0
    <2>1. o \in Outs /\ FreeSlots(dev[o]) # {} /\ FreeHandles(dev[o]) # {} /\ dev'[o] = Attached(dev[o], o)
        BY <1>1 DEF SetupOutputControls, Room
    <2> QED BY <1>1, <1>2, <2>1, AttachedDue
<1>4. ASSUME NEW o \in Outs \ available PROVE LightDue(o)' /\ LitByControl(o)'
    <2>1. dev'[o] = dev[o] /\ dev[o].tracked = 0
        BY <1>1 DEF SetupOutputControls, GammaSound, OutputSound, Vacant
    <2> QED BY <2>1 DEF LightDue, LitByControl, LightSound
<1>5. SwitchFollowed'
    BY <1>1, <1>3, SwitchAfter
<1> QED BY <1>2, <1>3, <1>4, <1>5 DEF LightSound

LEMMA RunSetupLight == ASSUME GammaSound, LightSound, RunSetup PROVE LightSound'
BY SetupLight DEF RunSetup

\* What taking a structural command leaves of the other outputs.
LEMMA StructuralRest ==
    ASSUME GammaSound, LightSound, NEW do \in StructuralDo, TakeCmd(do), ActorIdle, NEW o \in Outs
    PROVE  /\ SizesFirst(cmdq', o)
           /\ HowMany(cmdq', Sizes(o)) = HowMany(cmdq, Sizes(o))
           /\ HowMany(cmdq', Failures(o)) = HowMany(cmdq, Failures(o))
           /\ dev'[o] = dev[o] /\ updateTrigger' = updateTrigger => LightDue(o)' /\ LitByControl(o)'
<1>1. do # "size" /\ do # "failed" /\ do # "resume" /\ do # "apply"
    BY DEF StructuralDo
<1>2. /\ SizesFirst(cmdq', o)
      /\ HowMany(cmdq, Sizes(o)) \in Nat /\ HowMany(cmdq', Sizes(o)) \in Nat
      /\ HowMany(cmdq, Failures(o)) \in Nat /\ HowMany(cmdq', Failures(o)) \in Nat
      /\ HowMany(cmdq, Sizes(o)) = HowMany(cmdq', Sizes(o)) + (IF do = "size" /\ Head(cmdq).out = o THEN 1 ELSE 0)
      /\ HowMany(cmdq, Failures(o)) = HowMany(cmdq', Failures(o)) + (IF do = "failed" /\ Head(cmdq).out = o THEN 1 ELSE 0)
      /\ do # "resume" => (WakeDue' <=> WakeDue)
      /\ do # "apply" /\ updateTrigger' = updateTrigger => (ApplyDue' <=> ApplyDue)
    BY LightTaken
<1>3. /\ HowMany(cmdq', Sizes(o)) = HowMany(cmdq, Sizes(o))
      /\ HowMany(cmdq', Failures(o)) = HowMany(cmdq, Failures(o))
    BY <1>1, <1>2
<1>4. ASSUME dev'[o] = dev[o], updateTrigger' = updateTrigger PROVE LightDue(o)' /\ LitByControl(o)'
    <2>1. (WakeDue' <=> WakeDue) /\ (ApplyDue' <=> ApplyDue)
        BY <1>1, <1>2, <1>4
    <2>2. LightDue(o)'
        BY <1>3, <1>4, <2>1, LightUntouched DEF LightSound, ActorIdle
    <2> QED BY <1>4, <2>2 DEF LightSound, LitByControl
<1> QED BY <1>2, <1>3, <1>4

LEMMA DetachedLight ==
    ASSUME GammaSound, LightSound, NEW o \in Outs, dev'[o] = Detached(dev[o])
    PROVE  LightDue(o)' /\ LitByControl(o)' /\ dev'[o].tracked = 0
<1>1. dev'[o].tracked = 0 /\ dev'[o].shown = IF Holds(dev[o]) THEN Plain ELSE dev[o].shown
    BY DetachedFacts, SoundTables
<1>2. dev'[o].shown = Plain
    BY <1>1 DEF LightSound, LitByControl
<1> QED BY <1>1, <1>2 DEF LightDue, LitByControl

LEMMA RunTeardownLight == ASSUME GammaSound, LightSound, RunTeardown PROVE LightSound'
<1>1. /\ TakeCmd("teardown") /\ ActorIdle /\ available' = available /\ ~controlsInitialized' /\ "teardown" \in StructuralDo
      /\ \A o \in Outs : dev'[o] = Detached(dev[o])
    BY DEF RunTeardown, StructuralDo
<1>2. ~gammaEnabled
    BY <1>1, StructuralLight
<1>3. \A o \in Outs : SizesFirst(cmdq', o)
    BY <1>1, StructuralRest
<1>4. \A o \in Outs : LightDue(o)' /\ LitByControl(o)'
    BY <1>1, DetachedLight
<1>5. SwitchFollowed'
    BY <1>1, <1>2, SwitchAfter DEF LightSound, SwitchFollowed
<1> QED BY <1>3, <1>4, <1>5 DEF LightSound

LEMMA RunAddLight == ASSUME GammaSound, LightSound, RunAdd PROVE LightSound'
<1>1. TakeCmd("add") /\ ActorIdle /\ UNCHANGED <<available, updateTrigger>> /\ "add" \in StructuralDo
    BY DEF RunAdd, StructuralDo
<1>2. PICK a \in Outs : a = Head(cmdq).out /\ AddDue(a) /\ gammaEnabled /\ "add" # "setup"
    <2>1. Head(cmdq) \in Closures /\ Head(cmdq).do = "add"
        BY <1>1, StructuralTaken
    <2> QED BY <1>1, <2>1, CommandKinds, StructuralLight
<1>3. /\ FreeSlots(dev[a]) # {} /\ FreeHandles(dev[a]) # {} /\ dev'[a] = Attached(dev[a], a)
      /\ \A o \in Outs : o # a => dev'[o] = dev[o]
    BY <1>2 DEF RunAdd, Room, GammaSound, GammaTypes
<1>4. \A o \in Outs : /\ SizesFirst(cmdq', o) /\ HowMany(cmdq', Sizes(o)) = HowMany(cmdq, Sizes(o))
                      /\ HowMany(cmdq', Failures(o)) = HowMany(cmdq, Failures(o))
                      /\ o # a => LightDue(o)' /\ LitByControl(o)'
    BY <1>1, <1>3, StructuralRest
<1>5. LightDue(a)' /\ LitByControl(a)' /\ dev'[a].tracked # 0
    BY <1>2, <1>3, <1>4, AttachedDue
<1>6. \A o \in plugged : o \in Outs /\ dev'[o].tracked # 0
    <2>1. plugged \subseteq Outs
        BY DEF GammaSound, GammaTypes
    <2>2. \A o \in plugged : dev[o].tracked # 0 \/ o = a
        BY <1>1, <1>2, StructuralLight
    <2> QED BY <1>3, <1>5, <2>1, <2>2
<1>7. SwitchFollowed'
    BY <1>1, <1>2, <1>6, SwitchAfter DEF LightSound, SwitchFollowed
<1> QED BY <1>4, <1>5, <1>7 DEF LightSound

LEMMA RunRemovedLight == ASSUME GammaSound, LightSound, RunRemoved PROVE LightSound'
<1>1. TakeCmd("removed") /\ ActorIdle /\ updateTrigger' = updateTrigger /\ "removed" \in StructuralDo
    BY DEF RunRemoved, StructuralDo
<1>2. PICK a \in Outs : a = Head(cmdq).out /\ a \notin plugged /\ "removed" \notin {"setup", "add", "teardown"}
    <2>1. Head(cmdq) \in Closures /\ Head(cmdq).do = "removed"
        BY <1>1, StructuralTaken
    <2> QED BY <1>1, <2>1, CommandKinds, StructuralLight
<1>3. /\ dev'[a] = Detached(dev[a]) /\ \A o \in Outs : o # a => dev'[o] = dev[o]
      /\ available' \in {available, available \ {a}} /\ (controlsInitialized' => controlsInitialized)
    BY <1>2 DEF RunRemoved, GammaSound, GammaTypes
<1>4. \A o \in Outs : SizesFirst(cmdq', o) /\ (o # a => LightDue(o)' /\ LitByControl(o)')
    BY <1>1, <1>3, StructuralRest
<1>5. LightDue(a)' /\ LitByControl(a)'
    BY <1>2, <1>3, DetachedLight
<1>6. /\ plugged \subseteq Outs /\ plugged \subseteq available'
      /\ gammaEnabled => \A o \in plugged : dev[o].tracked # 0
      /\ ~gammaEnabled => ~controlsInitialized
    <2>1. plugged \subseteq Outs /\ plugged \subseteq available
        BY DEF GammaSound, GammaTypes, LightSound, SwitchFollowed
    <2> QED BY <1>1, <1>2, <1>3, <2>1, StructuralLight
<1>7. gammaEnabled => \A o \in plugged : dev'[o].tracked # 0
    BY <1>2, <1>3, <1>6
<1>8. SwitchFollowed'
    BY <1>1, <1>3, <1>6, <1>7, SwitchAfter
<1> QED BY <1>4, <1>5, <1>8 DEF LightSound

-----------------------------------------------------------------------------
(* The other commands.                                                     *)

LEMMA OtherLight ==
    ASSUME GammaSound, LightSound, NEW do \in OtherDo, TakeCmd(do), ActorIdle, UNCHANGED <<available, controlsInitialized>>,
           \A o \in Outs : dev'[o].tracked = dev[o].tracked
    PROVE  SwitchFollowed' /\ \A o \in Outs : SizesFirst(cmdq', o)
<1>1. /\ Head(cmdq) \in Closures /\ Head(cmdq).do = do /\ (SetupDue' <=> SetupDue) /\ \A o : AddDue(o)' <=> AddDue(o)
      /\ UNCHANGED <<gammaEnabled, plugged, caller>>
    BY OtherTaken
<1>2. \A S : /\ HowMany(cmdq, S) \in Nat /\ HowMany(cmdq', S) \in Nat
             /\ HowMany(cmdq, S) = HowMany(cmdq', S) + (IF Head(cmdq) \in S THEN 1 ELSE 0)
    BY OtherTaken
<1>3. \A S : Head(cmdq) \notin S => HowMany(cmdq', S) = HowMany(cmdq, S)
    BY <1>2
<1>4. Head(cmdq) \notin SetUps /\ Head(cmdq) \notin Doing("teardown") /\ \A o : Head(cmdq) \notin Removals(o)
    BY <1>1, CommandKinds DEF OtherDo
<1>5. plugged \subseteq Outs
    BY DEF GammaSound, GammaTypes
<1>6. SwitchFollowed'
    BY <1>1, <1>3, <1>4, <1>5, SwitchKept
<1>7. \A o \in Outs : SizesFirst(cmdq', o)
    BY LightTaken
<1> QED BY <1>6, <1>7

\* The table d once the level has been written where it can be.
LEMMA AppliedDue ==
    ASSUME GammaSound, NEW d \in [Outs -> OutputTables], NEW p \in Outs, Shape(d[p]), NEW bad, dev' = Applied(d, bad),
           level' = level, NEW ns, NEW nf, d[p].tracked # 0 => Proceeds(d[p], ns, nf), d[p].shown # Plain => Holds(d[p])
    PROVE  /\ dev'[p].tracked = d[p].tracked /\ (dev'[p].shown # Plain => Holds(dev'[p]))
           /\ d[p].tracked # 0 =>
                 /\ Proceeds(dev'[p], ns, nf)
                 /\ ShowsLast(d[p]) => ShowsLast(dev'[p])
                 /\ ShowsLevel(d[p], ns, nf, level) => ShowsLevel(dev'[p], ns, nf, level')
                 /\ ShowsLast(d[p]) /\ p \in available /\ controlsInitialized => ShowsLevel(dev'[p], ns, nf, level')
<1> DEFINE r == d[p]
           t == AppliedOutput(r, p, bad)
<1>1. r \in OutputTables /\ level \in Levels
    BY DEF GammaSound, GammaTypes
<1>2. dev'[p] \in {r, t} /\ (controlsInitialized /\ AnyReady(d) => dev'[p] = t)
    BY DEF Applied
<1>3. CASE r.tracked = 0
    <2>1. t = r
        BY <1>3 DEF AppliedOutput, CanApply
    <2> QED BY <1>2, <1>3, <2>1
<1>4. CASE r.tracked # 0
    <2>1. /\ t.tracked = r.tracked /\ Proceeds(t, ns, nf) /\ (t.shown # Plain => Holds(t))
          /\ ShowsLast(r) => ShowsLast(t)
          /\ ShowsLevel(r, ns, nf, level) => ShowsLevel(t, ns, nf, level)
          /\ ShowsLast(r) /\ p \in available /\ Object(r).ready /\ ~Object(r).failed => ShowsLevel(t, ns, nf, level)
        BY <1>1, <1>4, AppliedLight
    <2>2. ASSUME ShowsLast(r), p \in available, controlsInitialized PROVE ShowsLevel(dev'[p], ns, nf, level)
        <3>1. CASE Object(r).ready /\ ~Object(r).failed
            <4>1. AnyReady(d)
                BY <1>4, <3>1 DEF AnyReady, Tracked, Object
            <4> QED BY <1>2, <2>1, <2>2, <3>1, <4>1
        <3>2. CASE ~(Object(r).ready /\ ~Object(r).failed)
            <4>1. ShowsLevel(r, ns, nf, level)
                BY <1>4, <3>2 DEF Proceeds, ShowsLevel
            <4> QED BY <1>2, <2>1, <4>1
        <3> QED BY <3>1, <3>2
    <2> HIDE DEF t, r
    <2>3. /\ dev'[p].tracked = r.tracked /\ (dev'[p].shown # Plain => Holds(dev'[p])) /\ Proceeds(dev'[p], ns, nf)
          /\ ShowsLast(r) => ShowsLast(dev'[p])
          /\ ShowsLevel(r, ns, nf, level) => ShowsLevel(dev'[p], ns, nf, level)
        <3>1. CASE dev'[p] = t
            BY <2>1, <3>1
        <3>2. CASE dev'[p] = r
            <4>1. Proceeds(r, ns, nf) /\ (r.shown # Plain => Holds(r))
                BY <1>4 DEF r
            <4> QED BY <3>2, <4>1
        <3> QED BY <1>2, <3>1, <3>2
    <2> QED BY <2>2, <2>3 DEF r
<1> QED BY <1>3, <1>4

\* The numbers and dues after a command that is not structural.
LEMMA OtherRest ==
    ASSUME GammaSound, LightSound, NEW do \in OtherDo, TakeCmd(do), ActorIdle, NEW o \in Outs
    PROVE  /\ do # "size" \/ Head(cmdq).out # o => HowMany(cmdq', Sizes(o)) = HowMany(cmdq, Sizes(o))
           /\ do # "failed" \/ Head(cmdq).out # o => HowMany(cmdq', Failures(o)) = HowMany(cmdq, Failures(o))
           /\ do # "resume" => (WakeDue' <=> WakeDue)
           /\ do # "apply" /\ updateTrigger' = updateTrigger => (ApplyDue' <=> ApplyDue)
<1>1. /\ HowMany(cmdq, Sizes(o)) \in Nat /\ HowMany(cmdq', Sizes(o)) \in Nat
      /\ HowMany(cmdq, Failures(o)) \in Nat /\ HowMany(cmdq', Failures(o)) \in Nat
      /\ HowMany(cmdq, Sizes(o)) = HowMany(cmdq', Sizes(o)) + (IF do = "size" /\ Head(cmdq).out = o THEN 1 ELSE 0)
      /\ HowMany(cmdq, Failures(o)) = HowMany(cmdq', Failures(o)) + (IF do = "failed" /\ Head(cmdq).out = o THEN 1 ELSE 0)
      /\ do # "resume" => (WakeDue' <=> WakeDue)
      /\ do # "apply" /\ updateTrigger' = updateTrigger => (ApplyDue' <=> ApplyDue)
    BY LightTaken
<1>2. do # "size" \/ Head(cmdq).out # o => HowMany(cmdq', Sizes(o)) = HowMany(cmdq, Sizes(o))
    BY <1>1
<1>3. do # "failed" \/ Head(cmdq).out # o => HowMany(cmdq', Failures(o)) = HowMany(cmdq, Failures(o))
    BY <1>1
<1> QED BY <1>1, <1>2, <1>3

\* The set-up of the start finds everything as it should be.
LEMMA RunStartupLight == ASSUME GammaSound, StartupNeedless, LightSound, RunStartup PROVE LightSound'
<1>1. TakeCmd("startup") /\ ActorIdle /\ UNCHANGED <<available, updateTrigger, dev, controlsInitialized>> /\ "startup" \in OtherDo
    BY StartupIsNeedless DEF RunStartup, OtherDo
<1>2. SwitchFollowed' /\ \A o \in Outs : SizesFirst(cmdq', o)
    BY <1>1, OtherLight
<1>3. ASSUME NEW o \in Outs PROVE LightDue(o)' /\ LitByControl(o)'
    <2>1. /\ HowMany(cmdq', Sizes(o)) = HowMany(cmdq, Sizes(o)) /\ HowMany(cmdq', Failures(o)) = HowMany(cmdq, Failures(o))
          /\ (WakeDue' <=> WakeDue) /\ (ApplyDue' <=> ApplyDue)
        BY <1>1, OtherRest
    <2>2. LightDue(o) /\ LitByControl(o)
        BY DEF LightSound
    <2>3. LightDue(o)'
        BY <1>1, <2>1, <2>2, LightUntouched DEF ActorIdle
    <2> QED BY <1>1, <2>2, <2>3 DEF LitByControl
<1> QED BY <1>2, <1>3 DEF LightSound

\* An output of which the commands ask nothing, and whose table at most had its level written.
LEMMA WrittenDue ==
    ASSUME GammaSound, LightSound, NEW p \in Outs, NEW d \in [Outs -> OutputTables], d[p] = dev[p], NEW bad,
           dev' = Applied(d, bad), ActorIdle,
           HowMany(cmdq', Sizes(p)) = HowMany(cmdq, Sizes(p)), HowMany(cmdq', Failures(p)) = HowMany(cmdq, Failures(p)),
           WakeDue' <=> WakeDue
    PROVE  /\ dev'[p].tracked = dev[p].tracked /\ LitByControl(p)'
           /\ (ApplyDue' <=> ApplyDue) \/ p \notin plugged => LightDue(p)'
           /\ plugged \subseteq available => LightDue(p)'
<1> DEFINE ns == HowMany(cmdq', Sizes(p))
           nf == HowMany(cmdq', Failures(p))
<1>1. LightDue(p) /\ LitByControl(p) /\ Shape(d[p]) /\ UNCHANGED <<level, gammaEnabled, plugged>>
    BY SoundTables DEF LightSound, ActorIdle
<1>2. dev[p].tracked # 0 => Proceeds(d[p], ns, nf)
    BY <1>1 DEF LightDue
<1>3. d[p].shown # Plain => Holds(d[p])
    BY <1>1 DEF LitByControl
<1> HIDE DEF ns, nf
<1>4. /\ dev'[p].tracked = d[p].tracked /\ (dev'[p].shown # Plain => Holds(dev'[p]))
      /\ d[p].tracked # 0 =>
            /\ Proceeds(dev'[p], ns, nf)
            /\ ShowsLast(d[p]) => ShowsLast(dev'[p])
            /\ ShowsLevel(d[p], ns, nf, level) => ShowsLevel(dev'[p], ns, nf, level')
            /\ ShowsLast(d[p]) /\ p \in available /\ controlsInitialized => ShowsLevel(dev'[p], ns, nf, level')
    BY <1>1, <1>2, <1>3, AppliedDue
<1>5. dev[p].tracked # 0 => controlsInitialized
    BY DEF GammaSound, OutputSound
<1>6. ns = HowMany(cmdq, Sizes(p)) /\ nf = HowMany(cmdq, Failures(p))
    BY DEF ns, nf
<1>7. LitByControl(p)'
    BY <1>4 DEF LitByControl
<1>8. ASSUME (ApplyDue' <=> ApplyDue) \/ p \notin plugged PROVE LightDue(p)'
    <2>1. dev[p].tracked # 0 => Proceeds(dev'[p], HowMany(cmdq', Sizes(p)), HowMany(cmdq', Failures(p)))
        BY <1>4 DEF ns, nf
    <2>2. dev[p].tracked # 0 /\ ShowsLevel(dev[p], HowMany(cmdq, Sizes(p)), HowMany(cmdq, Failures(p)), level)
              => ShowsLevel(dev'[p], HowMany(cmdq', Sizes(p)), HowMany(cmdq', Failures(p)), level')
        BY <1>4 DEF ns, nf
    <2> QED BY <1>1, <1>4, <1>8, <2>1, <2>2, LightFrom
<1>9. ASSUME plugged \subseteq available PROVE LightDue(p)'
    <2>1. ASSUME dev'[p].tracked # 0
          PROVE  /\ Proceeds(dev'[p], ns, nf)
                 /\ gammaEnabled' /\ ~WakeDue' => ShowsLast(dev'[p])
                 /\ gammaEnabled' /\ ~WakeDue' /\ ~ApplyDue' /\ p \in plugged' => ShowsLevel(dev'[p], ns, nf, level')
        <3>1. gammaEnabled' /\ ~WakeDue' => ShowsLast(d[p])
            BY <1>1, <1>4, <2>1 DEF LightDue
        <3> QED BY <1>1, <1>4, <1>5, <1>9, <2>1, <3>1
    <2> QED BY <2>1 DEF LightDue, ns, nf
<1> QED BY <1>4, <1>7, <1>8, <1>9

LEMMA RunFailedLight == ASSUME GammaSound, LightSound, RunFailed PROVE LightSound'
<1>1. TakeCmd("failed") /\ ActorIdle /\ UNCHANGED <<available, controlsInitialized, updateTrigger>> /\ "failed" \in OtherDo
    BY DEF RunFailed, OtherDo
<1>2. PICK a \in Outs : a = Head(cmdq).out
    <2>1. Head(cmdq) \in Closures /\ Head(cmdq).do = "failed"
        BY <1>1, OtherTaken
    <2> QED BY <2>1, CommandKinds
<1>3. dev'[a] = FailedOutput(dev[a], a) /\ \A o \in Outs : o # a => dev'[o] = dev[o]
    BY <1>2 DEF RunFailed, GammaSound, GammaTypes
<1>4. \A o \in Outs : LightDue(o) /\ LitByControl(o) /\ dev[o] \in OutputTables /\ Shape(dev[o])
    BY SoundTables DEF LightSound
<1>5. LightDue(a)' /\ LitByControl(a)' /\ dev'[a].tracked = dev[a].tracked
    <2>1. CASE dev[a].tracked = 0
        <3>1. dev'[a] = dev[a]
            BY <1>3, <2>1 DEF FailedOutput
        <3> QED BY <1>4, <2>1, <3>1 DEF LightDue, LitByControl
    <2>2. CASE dev[a].tracked # 0
        <3>1. HowMany(cmdq', Sizes(a)) = 0
            <4>1. HowMany(cmdq, Sizes(a)) = 0
                BY <1>1, <1>2, LightTaken
            <4> QED BY <1>1, <4>1, OtherRest
        <3>2. dev[a].shown # Plain => Holds(dev[a])
            BY <1>4 DEF LitByControl
        <3>3. \A g, l : LET t == FailedOutput(dev[a], a)
                        IN  /\ t.tracked = dev[a].tracked /\ Proceeds(t, 0, g) /\ ShowsLast(t) /\ ShowsLevel(t, 0, g, l)
                            /\ t.shown # Plain => Holds(t)
            BY <1>4, <2>2, <3>2, FailedLight
        <3>4. \A g, l : /\ dev'[a].tracked = dev[a].tracked /\ Proceeds(dev'[a], 0, g) /\ ShowsLast(dev'[a])
                        /\ ShowsLevel(dev'[a], 0, g, l) /\ (dev'[a].shown # Plain => Holds(dev'[a]))
            BY <1>3, <3>3
        <3> QED BY <3>1, <3>4 DEF LightDue, LitByControl
    <2> QED BY <2>1, <2>2
<1>6. ASSUME NEW o \in Outs, o # a PROVE LightDue(o)' /\ LitByControl(o)' /\ dev'[o].tracked = dev[o].tracked
    <2>1. /\ HowMany(cmdq', Sizes(o)) = HowMany(cmdq, Sizes(o)) /\ HowMany(cmdq', Failures(o)) = HowMany(cmdq, Failures(o))
          /\ (WakeDue' <=> WakeDue) /\ (ApplyDue' <=> ApplyDue)
        BY <1>1, <1>2, <1>6, OtherRest
    <2>2. LightDue(o)'
        BY <1>1, <1>3, <1>4, <1>6, <2>1, LightUntouched DEF ActorIdle
    <2> QED BY <1>3, <1>4, <1>6, <2>2 DEF LitByControl
<1>7. SwitchFollowed' /\ \A o \in Outs : SizesFirst(cmdq', o)
    BY <1>1, <1>5, <1>6, OtherLight
<1> QED BY <1>5, <1>6, <1>7 DEF LightSound

LEMMA RunRecreateLight == ASSUME GammaSound, RetriesBounded, LightSound, RunRecreate PROVE LightSound'
<1>1. TakeCmd("recreate") /\ ActorIdle /\ UNCHANGED <<available, controlsInitialized, updateTrigger>> /\ "recreate" \in OtherDo
    BY DEF RunRecreate, OtherDo
<1>2. PICK a \in Outs, k \in Slots : a = Head(cmdq).out /\ k = Head(cmdq).obj /\ Head(cmdq) \in Recreates(a, k)
    <2>1. Head(cmdq) \in Closures /\ Head(cmdq).do = "recreate"
        BY <1>1, OtherTaken
    <2> QED BY <2>1, CommandKinds
<1>3. /\ dev'[a] = Recreated(dev[a], a, k) /\ FreeHandles(dev[a]) # {}
      /\ \A o \in Outs : o # a => dev'[o] = dev[o]
    BY <1>2 DEF RunRecreate, GammaSound, GammaTypes
<1>4. \A o \in Outs : LightDue(o) /\ LitByControl(o) /\ dev[o] \in OutputTables /\ Shape(dev[o])
    BY SoundTables DEF LightSound
<1>5. \A o \in Outs :
          /\ HowMany(cmdq', Sizes(o)) = HowMany(cmdq, Sizes(o)) /\ HowMany(cmdq', Failures(o)) = HowMany(cmdq, Failures(o))
          /\ (WakeDue' <=> WakeDue) /\ (ApplyDue' <=> ApplyDue)
    BY <1>1, OtherRest
<1>6. dev[a].obj[k].queued > 0
    <2>1. /\ HowMany(cmdq, Recreates(a, k)) \in Nat /\ HowMany(cmdq', Recreates(a, k)) \in Nat
          /\ HowMany(cmdq, Recreates(a, k)) = HowMany(cmdq', Recreates(a, k)) + 1
        BY <1>1, <1>2, OtherTaken
    <2>2. dev[a].obj[k].queued = HowMany(cmdq, Recreates(a, k))
        BY DEF GammaSound, OutputSound
    <2> QED BY <2>1, <2>2
<1>7. LightDue(a)' /\ LitByControl(a)' /\ dev'[a].tracked = dev[a].tracked
    <2>1. RecreatedTable(dev[a], k, dev'[a]) /\ RecreatedControl(dev[a], a, k, dev'[a])
        BY <1>3, <1>4, <1>6, RecreatedFacts
    <2>2. dev'[a].tracked = dev[a].tracked
        BY <2>1 DEF RecreatedTable
    <2>3. CASE dev[a].tracked = 0
        <3>1. ~Holds(dev[a])
            BY <1>4, <2>3 DEF Shape, Holds
        <3>2. dev'[a].shown = Plain
            BY <1>4, <2>1, <3>1 DEF RecreatedControl, LitByControl
        <3> QED BY <2>2, <2>3, <3>2 DEF LightDue, LitByControl
    <2>4. CASE dev[a].tracked # 0
        <3> DEFINE ns == HowMany(cmdq, Sizes(a))
                   nf == HowMany(cmdq, Failures(a))
        <3>1. /\ dev[a].shown # Plain => Holds(dev[a])
              /\ ns \in Nat /\ nf \in Nat /\ ChanceOf(dev[a], nf) /\ Proceeds(dev[a], ns, nf)
            BY <1>1, <1>4, <2>4, OtherTaken DEF LitByControl, RetriesBounded, LightDue
        <3> HIDE DEF ns, nf
        <3>2. \A l : LET t == Recreated(dev[a], a, k)
                     IN  /\ t.tracked = dev[a].tracked /\ Proceeds(t, ns, nf) /\ (t.shown # Plain => Holds(t))
                         /\ ShowsLast(dev[a]) => ShowsLast(t)
                         /\ ShowsLevel(dev[a], ns, nf, l) => ShowsLevel(t, ns, nf, l)
            BY <1>3, <1>4, <1>6, <2>4, <3>1, RecreatedLight
        <3>3. /\ Proceeds(dev'[a], ns, nf) /\ (dev'[a].shown # Plain => Holds(dev'[a]))
              /\ ShowsLast(dev[a]) => ShowsLast(dev'[a])
              /\ ShowsLevel(dev[a], ns, nf, level) => ShowsLevel(dev'[a], ns, nf, level)
            BY <1>3, <3>2
        <3>4. LightDue(a)'
            <4>1. level' = level /\ gammaEnabled' = gammaEnabled /\ plugged' = plugged
                BY <1>1 DEF ActorIdle
            <4> QED BY <1>4, <1>5, <2>2, <3>3, <4>1, LightFrom DEF ns, nf
        <3> QED BY <2>2, <3>3, <3>4 DEF LitByControl
    <2> QED BY <2>3, <2>4
<1>8. ASSUME NEW o \in Outs, o # a PROVE LightDue(o)' /\ LitByControl(o)' /\ dev'[o].tracked = dev[o].tracked
    <2>1. LightDue(o)'
        BY <1>1, <1>3, <1>4, <1>5, <1>8, LightUntouched DEF ActorIdle
    <2> QED BY <1>3, <1>4, <1>8, <2>1 DEF LitByControl
<1>9. SwitchFollowed' /\ \A o \in Outs : SizesFirst(cmdq', o)
    BY <1>1, <1>7, <1>8, OtherLight
<1> QED BY <1>7, <1>8, <1>9 DEF LightSound

LEMMA RunApplyLight == ASSUME GammaSound, LightSound, RunApply PROVE LightSound'
<1>1. TakeCmd("apply") /\ ActorIdle /\ UNCHANGED <<available, controlsInitialized, updateTrigger>> /\ "apply" \in OtherDo
    BY DEF RunApply, OtherDo
<1>2. PICK bad : dev' = Applied(dev, bad)
    BY DEF RunApply, ApplyOn
<1>3. dev \in [Outs -> OutputTables] /\ plugged \subseteq available
    BY DEF GammaSound, GammaTypes, LightSound, SwitchFollowed
<1>4. ASSUME NEW o \in Outs PROVE LightDue(o)' /\ LitByControl(o)' /\ dev'[o].tracked = dev[o].tracked
    <2>1. /\ HowMany(cmdq', Sizes(o)) = HowMany(cmdq, Sizes(o)) /\ HowMany(cmdq', Failures(o)) = HowMany(cmdq, Failures(o))
          /\ WakeDue' <=> WakeDue
        BY <1>1, OtherRest
    <2> QED BY <1>1, <1>2, <1>3, <2>1, WrittenDue
<1>5. SwitchFollowed' /\ \A o \in Outs : SizesFirst(cmdq', o)
    BY <1>1, <1>4, OtherLight
<1> QED BY <1>4, <1>5 DEF LightSound

LEMMA RunSizeLight == ASSUME GammaSound, LightSound, RunSize PROVE LightSound'
<1>1. TakeCmd("size") /\ ActorIdle /\ UNCHANGED <<available, controlsInitialized, updateTrigger>> /\ "size" \in OtherDo
    BY DEF RunSize, OtherDo
<1>2. PICK a \in Outs : a = Head(cmdq).out
    <2>1. Head(cmdq) \in Closures /\ Head(cmdq).do = "size"
        BY <1>1, OtherTaken
    <2> QED BY <2>1, CommandKinds
<1>3. PICK bad : dev' = Applied([dev EXCEPT ![a] = SizedOutput(@)], bad)
    BY <1>2 DEF RunSize, ApplyOn
<1>4. /\ dev \in [Outs -> OutputTables] /\ plugged \subseteq available /\ level \in Levels
      /\ \A o \in Outs : LightDue(o) /\ LitByControl(o) /\ dev[o] \in OutputTables /\ Shape(dev[o])
                         /\ (dev[o].tracked # 0 => controlsInitialized)
    BY SoundTables DEF LightSound, SwitchFollowed, GammaSound, OutputSound
<1>5. PICK d : /\ dev' = Applied(d, bad) /\ DOMAIN d = Outs /\ d = [o \in Outs |-> d[o]]
               /\ d[a] = SizedOutput(dev[a]) /\ \A o \in Outs : o # a => d[o] = dev[o]
    <2>1. DOMAIN dev = Outs
        BY <1>4
    <2> QED BY <1>3, <1>4, <2>1
<1>6. SizedOutput(dev[a]) \in OutputTables /\ (dev[a].tracked = 0 => SizedOutput(dev[a]) = dev[a])
    <2>1. dev[a].tracked # 0 => SizedOutput(dev[a]) \in OutputTables
        BY <1>4, SizedFacts
    <2>2. dev[a].tracked = 0 => SizedOutput(dev[a]) = dev[a]
        BY DEF SizedOutput
    <2> QED BY <1>4, <2>1, <2>2
<1>7. d \in [Outs -> OutputTables]
    BY <1>4, <1>5, <1>6
<1>8. ASSUME NEW o \in Outs, o # a \/ dev[a].tracked = 0
      PROVE  LightDue(o)' /\ LitByControl(o)' /\ dev'[o].tracked = dev[o].tracked
    <2>1. d[o] = dev[o]
        BY <1>5, <1>6, <1>8
    <2>2. HowMany(cmdq', Failures(o)) = HowMany(cmdq, Failures(o)) /\ (WakeDue' <=> WakeDue)
        BY <1>1, OtherRest
    <2>3. CASE o # a
        <3>1. HowMany(cmdq', Sizes(o)) = HowMany(cmdq, Sizes(o))
            BY <1>1, <1>2, <2>3, OtherRest
        <3> QED BY <1>1, <1>4, <1>5, <1>7, <2>1, <2>2, <3>1, WrittenDue
    <2>4. CASE dev[o].tracked = 0
        <3>1. Shape(d[o]) /\ (d[o].shown # Plain => Holds(d[o])) /\ level' = level /\ d[o].tracked = 0
            BY <1>1, <1>4, <2>1, <2>4 DEF LitByControl, ActorIdle
        <3>2. dev'[o].tracked = d[o].tracked /\ (dev'[o].shown # Plain => Holds(dev'[o]))
            BY <1>5, <1>7, <3>1, AppliedDue
        <3> QED BY <2>1, <2>4, <3>2 DEF LightDue, LitByControl
    <2> QED BY <1>8, <2>3, <2>4
<1>9. ASSUME dev[a].tracked # 0 PROVE LightDue(a)' /\ LitByControl(a)' /\ dev'[a].tracked = dev[a].tracked
    <2> DEFINE ns == HowMany(cmdq', Sizes(a))
               nf == HowMany(cmdq', Failures(a))
    <2>1. ns \in Nat /\ nf \in Nat /\ HowMany(cmdq, Sizes(a)) = ns + 1 /\ HowMany(cmdq, Failures(a)) = nf
        <3>1. /\ HowMany(cmdq', Sizes(a)) \in Nat /\ HowMany(cmdq', Failures(a)) \in Nat
              /\ HowMany(cmdq, Sizes(a)) = HowMany(cmdq', Sizes(a)) + 1
            BY <1>1, <1>2, LightTaken
        <3>2. HowMany(cmdq', Failures(a)) = HowMany(cmdq, Failures(a))
            BY <1>1, OtherRest
        <3> QED BY <3>1, <3>2
    <2>2. Proceeds(dev[a], ns + 1, nf)
        BY <1>4, <1>9, <2>1 DEF LightDue
    <2> HIDE DEF ns, nf
    <2>3. LET t == SizedOutput(dev[a])
          IN  /\ t \in OutputTables /\ Shape(t) /\ t.tracked = dev[a].tracked /\ Proceeds(t, ns, nf) /\ ShowsLast(t)
              /\ t.shown = dev[a].shown /\ t.ctl = dev[a].ctl /\ Object(t).ready /\ ~Object(t).failed /\ Object(t).last = Plain
        BY <1>4, <1>9, <2>1, <2>2, SizedLight
    <2>4. /\ Shape(d[a]) /\ d[a].tracked = dev[a].tracked /\ Proceeds(d[a], ns, nf) /\ ShowsLast(d[a])
          /\ d[a].shown = dev[a].shown /\ d[a].ctl = dev[a].ctl
        BY <1>5, <2>3
    <2>5. d[a].shown # Plain => Holds(d[a])
        BY <1>4, <2>4 DEF LitByControl, Holds
    <2>6. /\ dev'[a].tracked = d[a].tracked /\ (dev'[a].shown # Plain => Holds(dev'[a]))
          /\ Proceeds(dev'[a], ns, nf) /\ ShowsLast(dev'[a])
          /\ a \in available /\ controlsInitialized => ShowsLevel(dev'[a], ns, nf, level')
        <3>1. level' = level /\ d[a].tracked # 0
            BY <1>1, <1>9, <2>4 DEF ActorIdle
        <3> QED BY <1>5, <1>7, <2>4, <2>5, <3>1, AppliedDue
    <2>7. LightDue(a)'
        <3>1. plugged' = plugged
            BY <1>1 DEF ActorIdle
        <3> QED BY <1>4, <1>9, <2>6, <3>1 DEF LightDue, ns, nf
    <2> QED BY <2>4, <2>6, <2>7 DEF LitByControl
<1>10. SwitchFollowed' /\ \A o \in Outs : SizesFirst(cmdq', o)
    BY <1>1, <1>8, <1>9, OtherLight
<1> QED BY <1>8, <1>9, <1>10 DEF LightSound

LEMMA RunResumeLight == ASSUME GammaSound, LightSound, RunResume PROVE LightSound'
<1>1. TakeCmd("resume") /\ ActorIdle /\ UNCHANGED <<available, controlsInitialized>> /\ "resume" \in OtherDo
    BY DEF RunResume, OtherDo
<1>2. \A o \in Outs : /\ LightDue(o) /\ LitByControl(o) /\ dev[o] \in OutputTables /\ Shape(dev[o])
                      /\ dev[o].tracked # 0 => controlsInitialized
    BY SoundTables DEF LightSound, GammaSound, OutputSound
<1>3. \A o \in Outs :
          HowMany(cmdq', Sizes(o)) = HowMany(cmdq, Sizes(o)) /\ HowMany(cmdq', Failures(o)) = HowMany(cmdq, Failures(o))
    BY <1>1, OtherRest
<1>4. CASE gammaEnabled /\ controlsInitialized
    <2>1. PICK bad : dev' = Applied([o \in Outs |-> Forgotten(dev[o])], bad)
        BY <1>4 DEF RunResume, ApplyOn
    <2>2. updateTrigger' /\ level' = level
        BY <1>4 DEF RunResume, ActorIdle
    <2>3. PICK d : dev' = Applied(d, bad) /\ DOMAIN d = Outs /\ d = [o \in Outs |-> d[o]] /\ \A o \in Outs : d[o] = Forgotten(dev[o])
        BY <2>1
    <2>4. \A o \in Outs : Forgotten(dev[o]) \in OutputTables /\ (dev[o].tracked = 0 => Forgotten(dev[o]) = dev[o])
        BY <1>2, ForgottenFacts DEF Rewrites
    <2>5. d \in [Outs -> OutputTables]
        BY <2>3, <2>4
    <2>6. ASSUME NEW o \in Outs PROVE LightDue(o)' /\ LitByControl(o)' /\ dev'[o].tracked = dev[o].tracked
        <3> DEFINE ns == HowMany(cmdq', Sizes(o))
                   nf == HowMany(cmdq', Failures(o))
        <3>1. dev[o].tracked # 0 => Proceeds(dev[o], ns, nf)
            BY <1>2, <1>3 DEF LightDue
        <3> HIDE DEF ns, nf
        <3>2. /\ Shape(d[o]) /\ d[o].tracked = dev[o].tracked /\ (d[o].shown # Plain => Holds(d[o]))
              /\ d[o].tracked # 0 => Proceeds(d[o], ns, nf) /\ ShowsLast(d[o])
            <4>1. CASE dev[o].tracked = 0
                BY <1>2, <2>3, <2>4, <4>1 DEF LitByControl
            <4>2. CASE dev[o].tracked # 0
                <5>1. dev[o].shown # Plain => Holds(dev[o])
                    BY <1>2 DEF LitByControl
                <5>2. LET t == Forgotten(dev[o])
                      IN  /\ t \in OutputTables /\ Shape(t) /\ t.tracked = dev[o].tracked /\ Proceeds(t, ns, nf) /\ ShowsLast(t)
                          /\ t.shown # Plain => Holds(t)
                    BY <1>2, <3>1, <4>2, <5>1, ForgottenLight
                <5> QED BY <2>3, <5>2
            <4> QED BY <4>1, <4>2
        <3>3. /\ dev'[o].tracked = d[o].tracked /\ (dev'[o].shown # Plain => Holds(dev'[o]))
              /\ d[o].tracked # 0 => Proceeds(dev'[o], ns, nf) /\ ShowsLast(dev'[o])
            BY <2>2, <2>3, <2>5, <3>2, AppliedDue
        <3>4. LightDue(o)'
            BY <2>2, <3>2, <3>3 DEF LightDue, ApplyDue, ns, nf
        <3> QED BY <3>2, <3>3, <3>4 DEF LitByControl
    <2>7. SwitchFollowed' /\ \A o \in Outs : SizesFirst(cmdq', o)
        BY <1>1, <2>6, OtherLight
    <2> QED BY <2>6, <2>7 DEF LightSound
<1>5. CASE ~(gammaEnabled /\ controlsInitialized)
    <2>1. dev' = dev /\ gammaEnabled' = gammaEnabled
        BY <1>5 DEF RunResume, ActorIdle
    <2>2. ASSUME NEW o \in Outs PROVE LightDue(o)' /\ LitByControl(o)'
        BY <1>2, <1>3, <1>5, <2>1 DEF LightDue, LitByControl
    <2>3. SwitchFollowed' /\ \A o \in Outs : SizesFirst(cmdq', o)
        BY <1>1, <2>1, OtherLight
    <2> QED BY <2>2, <2>3 DEF LightSound
<1> QED BY <1>4, <1>5

-----------------------------------------------------------------------------
(* The goroutines that post.                                               *)

LEMMA PostedLight ==
    ASSUME GammaSound, LightSound, HasRoom, NEW c \in Closures, c.do \in {"apply", "resume", "recreate"}, cmdq' = Posted(cmdq, c),
           UNCHANGED <<gammaEnabled, available, plugged, controlsInitialized, caller, watcher>>,
           \A o \in Outs : dev'[o].tracked = dev[o].tracked
    PROVE  /\ SwitchFollowed' /\ \A o \in Outs : SizesFirst(cmdq', o)
           /\ \A o \in Outs : /\ HowMany(cmdq', Sizes(o)) = HowMany(cmdq, Sizes(o))
                              /\ HowMany(cmdq', Failures(o)) = HowMany(cmdq, Failures(o))
           /\ c.do # "resume" /\ resumeTimer' = resumeTimer => (WakeDue' <=> WakeDue)
           /\ c.do = "resume" => WakeDue'
           /\ c.do # "apply" /\ UNCHANGED <<updateTrigger, scheduler>> => (ApplyDue' <=> ApplyDue)
           /\ c.do = "apply" => ApplyDue'
<1>1. c.do \in OtherDo /\ c.do \notin {"startup", "setup", "teardown", "removed", "size", "failed", "add"}
    BY DEF OtherDo
<1>2. /\ c \notin SetUps /\ c \notin Doing("teardown")
      /\ \A o : c \notin Sizes(o) /\ c \notin Failures(o) /\ c \notin Removals(o)
      /\ c \in Doing("resume") <=> c.do = "resume"
      /\ c \in Doing("apply") <=> c.do = "apply"
    BY <1>1, CommandKinds
<1>3. ASSUME NEW o \in Outs
      PROVE  /\ SizesFirst(cmdq', o)
             /\ \A S : /\ HowMany(cmdq, S) \in Nat /\ HowMany(cmdq', S) \in Nat
                       /\ HowMany(cmdq', S) = HowMany(cmdq, S) + (IF c \in S THEN 1 ELSE 0)
    BY <1>2, LightPosted
<1>4. \A S : /\ HowMany(cmdq, S) \in Nat /\ HowMany(cmdq', S) \in Nat
             /\ HowMany(cmdq', S) = HowMany(cmdq, S) + (IF c \in S THEN 1 ELSE 0)
    BY <1>3, GammaAssumption
<1>5. \A S : c \notin S => HowMany(cmdq', S) = HowMany(cmdq, S)
    BY <1>4
<1>6. (SetupDue' <=> SetupDue) /\ \A o : AddDue(o)' <=> AddDue(o)
    BY <1>1, OtherPosted
<1>7. plugged \subseteq Outs
    BY DEF GammaSound, GammaTypes
<1>8. SwitchFollowed'
    BY <1>2, <1>5, <1>6, <1>7, SwitchKept
<1>9. c.do # "resume" /\ resumeTimer' = resumeTimer => (WakeDue' <=> WakeDue)
    BY <1>2, <1>5 DEF WakeDue
<1>10. c.do # "apply" /\ UNCHANGED <<updateTrigger, scheduler>> => (ApplyDue' <=> ApplyDue)
    BY <1>2, <1>5 DEF ApplyDue
<1>11. c.do = "resume" => WakeDue'
    <2>1. c.do = "resume" => HowMany(cmdq', Doing("resume")) > 0
        BY <1>2, <1>4
    <2> QED BY <2>1 DEF WakeDue
<1>12. c.do = "apply" => ApplyDue'
    <2>1. c.do = "apply" => HowMany(cmdq', Doing("apply")) > 0
        BY <1>2, <1>4
    <2> QED BY <2>1 DEF ApplyDue
<1> QED BY <1>2, <1>3, <1>5, <1>8, <1>9, <1>10, <1>11, <1>12

LEMMA PostApplyLight == ASSUME GammaSound, LightSound, HasRoom, PostApply PROVE LightSound'
<1>1. Simple("apply") \in Closures /\ Simple("apply").do = "apply"
    BY CommandsMade
<1>2. /\ SwitchFollowed' /\ \A o \in Outs : SizesFirst(cmdq', o)
      /\ \A o \in Outs : /\ HowMany(cmdq', Sizes(o)) = HowMany(cmdq, Sizes(o))
                         /\ HowMany(cmdq', Failures(o)) = HowMany(cmdq, Failures(o))
      /\ (WakeDue' <=> WakeDue) /\ ApplyDue'
    BY <1>1, PostedLight DEF PostApply
<1>3. ASSUME NEW o \in Outs PROVE LightDue(o)' /\ LitByControl(o)'
    BY <1>2, LightUntouched DEF PostApply, LightSound, LitByControl
<1> QED BY <1>2, <1>3 DEF LightSound

LEMMA FireResumeLight == ASSUME GammaSound, LightSound, HasRoom, FireResume PROVE LightSound'
<1>1. Simple("resume") \in Closures /\ Simple("resume").do = "resume"
    BY CommandsMade
<1>2. /\ SwitchFollowed' /\ \A o \in Outs : SizesFirst(cmdq', o)
      /\ \A o \in Outs : /\ HowMany(cmdq', Sizes(o)) = HowMany(cmdq, Sizes(o))
                         /\ HowMany(cmdq', Failures(o)) = HowMany(cmdq, Failures(o))
      /\ WakeDue' /\ (ApplyDue' <=> ApplyDue)
    BY <1>1, PostedLight DEF FireResume
<1>3. ASSUME NEW o \in Outs PROVE LightDue(o)' /\ LitByControl(o)'
    BY <1>2, LightUntouched DEF FireResume, LightSound, LitByControl
<1> QED BY <1>2, <1>3 DEF LightSound

LEMMA FireBackoffLight ==
    ASSUME GammaSound, LightSound, HasRoom, NEW o \in Outs, NEW k \in Slots, FireBackoff(o, k) PROVE LightSound'
<1>1. Cmd("recreate", o, k) \in Closures /\ Cmd("recreate", o, k).do = "recreate"
    BY CommandsMade
<1>2. PICK y : /\ dev' = [dev EXCEPT ![o].obj[k] = y]
               /\ \E t, q : y = [dev[o].obj[k] EXCEPT !.timers = t, !.queued = q]
    BY DEF FireBackoff
<1>3. \A p \in Outs : dev[p] \in OutputTables /\ Shape(dev[p]) /\ LightDue(p) /\ LitByControl(p)
    BY SoundTables DEF LightSound
<1>4. dev[o].obj[k] \in Objects /\ dev[o] \in OutputTables /\ DOMAIN dev = Outs
    BY <1>3, TableParts DEF GammaSound, GammaTypes
<1>5. /\ y.ctl = dev[o].obj[k].ctl /\ y.ready = dev[o].obj[k].ready /\ y.failed = dev[o].obj[k].failed
      /\ y.last = dev[o].obj[k].last
    BY <1>2, <1>4 DEF Objects
<1>6. /\ \A p \in Outs : p # o => dev'[p] = dev[p]
      /\ dev'[o].tracked = dev[o].tracked /\ dev'[o].ctl = dev[o].ctl /\ dev'[o].shown = dev[o].shown
      /\ \A j \in Slots : dev'[o].obj[j] = IF j = k THEN y ELSE dev[o].obj[j]
    BY <1>2, <1>4 DEF OutputTables
<1>7. /\ SwitchFollowed' /\ \A p \in Outs : SizesFirst(cmdq', p)
      /\ \A p \in Outs : /\ HowMany(cmdq', Sizes(p)) = HowMany(cmdq, Sizes(p))
                         /\ HowMany(cmdq', Failures(p)) = HowMany(cmdq, Failures(p))
      /\ (WakeDue' <=> WakeDue) /\ (ApplyDue' <=> ApplyDue)
    <2>1. \A p \in Outs : dev'[p].tracked = dev[p].tracked
        BY <1>6
    <2> QED BY <1>1, <2>1, PostedLight DEF FireBackoff
<1>8. UNCHANGED <<gammaEnabled, level, plugged>>
    BY DEF FireBackoff
<1>9. ASSUME NEW p \in Outs, p # o PROVE LightDue(p)' /\ LitByControl(p)'
    BY <1>3, <1>6, <1>7, <1>8, <1>9, LightUntouched DEF LitByControl
<1>10. LightDue(o)' /\ LitByControl(o)'
    <2>1. Holds(dev'[o]) <=> Holds(dev[o])
        BY <1>6 DEF Holds
    <2>2. LitByControl(o)'
        BY <1>3, <1>6, <2>1 DEF LitByControl
    <2>3. ASSUME dev[o].tracked # 0
          PROVE  /\ Object(dev'[o]).ctl = Object(dev[o]).ctl /\ Object(dev'[o]).ready = Object(dev[o]).ready
                 /\ Object(dev'[o]).failed = Object(dev[o]).failed /\ Object(dev'[o]).last = Object(dev[o]).last
                 /\ Control(dev'[o]) = Control(dev[o])
        <3>1. dev[o].tracked \in Slots
            BY <1>4, <2>3, TableParts
        <3>2. /\ Object(dev'[o]).ctl = Object(dev[o]).ctl /\ Object(dev'[o]).ready = Object(dev[o]).ready
              /\ Object(dev'[o]).failed = Object(dev[o]).failed /\ Object(dev'[o]).last = Object(dev[o]).last
            BY <1>5, <1>6, <3>1 DEF Object
        <3> QED BY <1>6, <3>2 DEF Control
    <2>4. dev[o].tracked # 0 =>
             /\ \A ns, nf : Proceeds(dev[o], ns, nf) => Proceeds(dev'[o], ns, nf)
             /\ ShowsLast(dev[o]) => ShowsLast(dev'[o])
             /\ \A ns, nf, l : ShowsLevel(dev[o], ns, nf, l) => ShowsLevel(dev'[o], ns, nf, l)
        BY <1>6, <2>3 DEF Proceeds, ShowsLast, ShowsLevel, SizeDue, FailureDue
    <2>5. LightDue(o)'
        BY <1>3, <1>6, <1>7, <1>8, <2>4 DEF LightDue
    <2> QED BY <2>2, <2>5
<1> QED BY <1>7, <1>9, <1>10 DEF LightSound

\* A step that leaves the queue and the switch alone.
LEMMA QueueLight ==
    ASSUME GammaSound, LightSound, cmdq' = cmdq,
           UNCHANGED <<gammaEnabled, available, plugged, controlsInitialized, caller, watcher>>,
           \A o \in Outs : dev'[o].tracked = dev[o].tracked
    PROVE  /\ SwitchFollowed' /\ \A o \in Outs : SizesFirst(cmdq', o)
           /\ \A S : HowMany(cmdq', S) = HowMany(cmdq, S)
           /\ resumeTimer' = resumeTimer => (WakeDue' <=> WakeDue)
           /\ UNCHANGED <<updateTrigger, scheduler>> => (ApplyDue' <=> ApplyDue)
<1>1. \A S : HowMany(cmdq', S) = HowMany(cmdq, S)
    OBVIOUS
<1>2. (SetupDue' <=> SetupDue) /\ \A o : AddDue(o)' <=> AddDue(o)
    BY DEF SetupDue, AddDue
<1>3. plugged \subseteq Outs
    BY DEF GammaSound, GammaTypes
<1>4. SwitchFollowed'
    BY <1>1, <1>2, <1>3, SwitchKept
<1>5. \A o \in Outs : SizesFirst(cmdq', o)
    BY DEF LightSound
<1> QED BY <1>1, <1>4, <1>5 DEF WakeDue, ApplyDue

LEMMA ApplyTriggerLight == ASSUME GammaSound, LightSound, ApplyTrigger PROVE LightSound'
<1>1. /\ SwitchFollowed' /\ \A o \in Outs : SizesFirst(cmdq', o)
      /\ \A S : HowMany(cmdq', S) = HowMany(cmdq, S)
      /\ WakeDue' <=> WakeDue
    BY QueueLight DEF ApplyTrigger
<1>2. gammaEnabled => ApplyDue'
    BY DEF ApplyTrigger, ApplyDue
<1>3. ASSUME NEW o \in Outs PROVE LightDue(o)' /\ LitByControl(o)'
    BY <1>1, <1>2, LightUntouched DEF ApplyTrigger, LightSound, LitByControl
<1> QED BY <1>1, <1>3 DEF LightSound

LEMMA SetLevelLight == ASSUME GammaSound, LightSound, SetLevel PROVE LightSound'
<1>1. /\ SwitchFollowed' /\ \A o \in Outs : SizesFirst(cmdq', o)
      /\ \A S : HowMany(cmdq', S) = HowMany(cmdq, S)
      /\ WakeDue' <=> WakeDue
    BY QueueLight DEF SetLevel
<1>2. ApplyDue' /\ UNCHANGED <<dev, gammaEnabled, plugged>>
    BY DEF SetLevel, ApplyDue
<1>3. ASSUME NEW o \in Outs PROVE LightDue(o)' /\ LitByControl(o)'
    <2>1. LightDue(o) /\ LitByControl(o)
        BY DEF LightSound
    <2>2. LightDue(o)'
        BY <1>1, <1>2, <2>1 DEF LightDue
    <2> QED BY <1>2, <2>1, <2>2 DEF LitByControl
<1> QED BY <1>1, <1>3 DEF LightSound

\* With nothing under way the switch has been followed.
LEMMA SwitchAtRest ==
    ASSUME GammaSound, LightSound, ~UnderWay
    PROVE  /\ ~gammaEnabled => ~controlsInitialized
           /\ gammaEnabled => \A o \in plugged : dev[o].tracked # 0
           /\ plugged \subseteq available
           /\ \A o \in Outs : dev[o].tracked # 0 => controlsInitialized
<1>1. /\ caller = "idle" /\ ~SetupDue /\ \A o : ~AddDue(o)
      /\ "teardown" \in StructuralDo /\ \A s \in StructuralDo \cup {"startup"} : HowMany(cmdq, Doing(s)) = 0
    BY NothingUnderWay DEF GammaSound, StructuralDo
<1>2. HowMany(cmdq, Doing("teardown")) = 0
    BY <1>1
<1>3. SwitchFollowed /\ \A o \in Outs : dev[o].tracked # 0 => controlsInitialized
    BY DEF LightSound, GammaSound, OutputSound
<1> QED BY <1>1, <1>2, <1>3 DEF SwitchFollowed

LEMMA SetGammaEnabledLight == ASSUME GammaSound, LightSound, ~crossed', SetGammaEnabled PROVE LightSound'
<1>1. ~UnderWay
    BY DEF SetGammaEnabled
<1>2. /\ UNCHANGED <<level, available, plugged, dev, controlsInitialized, cmdq, watcher>>
      /\ gammaEnabled' = ~gammaEnabled /\ caller' = "decide"
    BY DEF SetGammaEnabled
<1>3. /\ ~gammaEnabled => ~controlsInitialized
      /\ plugged \subseteq available /\ plugged \subseteq Outs
      /\ \A o \in Outs : dev[o].tracked # 0 => controlsInitialized
    BY <1>1, SwitchAtRest DEF GammaSound, GammaTypes
<1>4. gammaEnabled \in BOOLEAN
    BY DEF GammaSound, GammaTypes
<1>5. SwitchFollowed'
    <2>1. /\ watcher = {} /\ HowMany(cmdq, SetUps) = 0 /\ "teardown" \in StructuralDo
          /\ \A s \in StructuralDo \cup {"startup"} : HowMany(cmdq, Doing(s)) = 0
          /\ \A o : HowMany(cmdq, Removals(o)) = 0 /\ HowMany(cmdq, Adds(o)) = 0
        BY <1>1, NothingUnderWay DEF GammaSound, StructuralDo
    <2>2. HowMany(cmdq', SetUps) = 0 /\ HowMany(cmdq', Doing("teardown")) = 0 /\ \A o : HowMany(cmdq', Removals(o)) = 0
        BY <1>2, <2>1
    <2>3. \A o : ~AddDue(o)'
        BY <1>2, <2>1 DEF AddDue
    <2>4. gammaEnabled' => SetupDue'
        BY <1>2, <1>3, <1>4 DEF SetupDue
    <2> QED BY <1>2, <1>3, <2>2, <2>3, <2>4 DEF SwitchFollowed
<1>6. ASSUME NEW o \in Outs PROVE LightDue(o)' /\ LitByControl(o)' /\ SizesFirst(cmdq', o)
    <2>1. LightDue(o) /\ LitByControl(o) /\ SizesFirst(cmdq, o)
        BY DEF LightSound
    <2>2. gammaEnabled' => dev'[o].tracked = 0
        BY <1>2, <1>3, <1>4
    <2>3. LightDue(o)'
        BY <1>2, <2>1, <2>2 DEF LightDue
    <2> QED BY <1>2, <2>1, <2>3 DEF LitByControl
<1> QED BY <1>5, <1>6 DEF LightSound

LEMMA DecideEnabledLight == ASSUME GammaSound, LightSound, HasRoom, DecideEnabled PROVE LightSound'
<1>1. /\ UNCHANGED <<gammaEnabled, level, available, plugged, dev, controlsInitialized, scheduler, watcher, resumeTimer>>
      /\ caller = "decide" /\ caller' = "idle" /\ (updateTrigger => updateTrigger')
      /\ \/ gammaEnabled /\ ~controlsInitialized /\ cmdq' = Posted(cmdq, Simple("setup"))
         \/ ~gammaEnabled /\ controlsInitialized /\ cmdq' = Posted(cmdq, Simple("teardown"))
         \/ (gammaEnabled <=> controlsInitialized) /\ cmdq' = cmdq
    BY DEF DecideEnabled, GammaSound, GammaTypes
<1>2. cmdq \in Seq(Closures) /\ plugged \subseteq Outs /\ SwitchFollowed
      /\ HowMany(cmdq, Structural) = 0 /\ watcher = {}
    BY <1>1 DEF GammaSound, GammaTypes, OneAtATime, LightSound
<1>3. ASSUME NEW S, S \subseteq Structural PROVE HowMany(cmdq, S) = 0
    <2>1. HowMany(cmdq, S) <= HowMany(cmdq, Structural) /\ HowMany(cmdq, S) \in Nat
        BY <1>2, <1>3, HowManyLess, HowManyNat
    <2> QED BY <1>2, <2>1
<1>4. /\ HowMany(cmdq, SetUps) = 0 /\ HowMany(cmdq, Doing("teardown")) = 0
      /\ \A o : HowMany(cmdq, Removals(o)) = 0 /\ HowMany(cmdq, Adds(o)) = 0
    <2>1. /\ SetUps \subseteq Structural /\ Doing("teardown") \subseteq Structural
          /\ \A o : Removals(o) \subseteq Structural /\ Adds(o) \subseteq Structural
        BY DEF SetUps, Doing, Structural, Removals, Adds
    <2> QED BY <1>3, <2>1
<1>5. \A o : ~AddDue(o)
    BY <1>2, <1>4 DEF AddDue
<1>6. ASSUME NEW do \in {"setup", "teardown"}, cmdq' = Posted(cmdq, Simple(do))
      PROVE  /\ \A o \in Outs : SizesFirst(cmdq', o)
             /\ \A o : /\ HowMany(cmdq', Removals(o)) = 0 /\ HowMany(cmdq', Adds(o)) = 0
                       /\ HowMany(cmdq', Sizes(o)) = HowMany(cmdq, Sizes(o))
                       /\ HowMany(cmdq', Failures(o)) = HowMany(cmdq, Failures(o))
             /\ HowMany(cmdq', Doing("resume")) = HowMany(cmdq, Doing("resume"))
             /\ HowMany(cmdq', Doing("apply")) = HowMany(cmdq, Doing("apply"))
             /\ HowMany(cmdq', SetUps) = (IF do = "setup" THEN 1 ELSE 0)
             /\ HowMany(cmdq', Doing("teardown")) = (IF do = "teardown" THEN 1 ELSE 0)
    <2> DEFINE c == Simple(do)
    <2>1. c \in Closures /\ c.do = do
        BY CommandsMade
    <2> HIDE DEF c
    <2>2. /\ c \in SetUps <=> do = "setup"
          /\ c \in Doing("teardown") <=> do = "teardown"
          /\ c \notin Doing("resume") /\ c \notin Doing("apply")
          /\ \A o : c \notin Removals(o) /\ c \notin Adds(o) /\ c \notin Sizes(o) /\ c \notin Failures(o)
        BY <2>1, CommandKinds
    <2>3. cmdq' = Posted(cmdq, c)
        BY <1>6 DEF c
    <2>4. \A o \in Outs :
             /\ SizesFirst(cmdq', o)
             /\ \A S : /\ HowMany(cmdq, S) \in Nat /\ HowMany(cmdq', S) \in Nat
                       /\ HowMany(cmdq', S) = HowMany(cmdq, S) + (IF c \in S THEN 1 ELSE 0)
        BY <2>1, <2>2, <2>3, LightPosted
    <2>5. \A S : /\ HowMany(cmdq, S) \in Nat /\ HowMany(cmdq', S) \in Nat
                 /\ HowMany(cmdq', S) = HowMany(cmdq, S) + (IF c \in S THEN 1 ELSE 0)
        BY <2>4, GammaAssumption
    <2>6. \A S : c \notin S => HowMany(cmdq', S) = HowMany(cmdq, S)
        BY <2>5
    <2>7. HowMany(cmdq', SetUps) = (IF do = "setup" THEN 1 ELSE 0)
        BY <1>4, <2>2, <2>5
    <2>8. HowMany(cmdq', Doing("teardown")) = (IF do = "teardown" THEN 1 ELSE 0)
        BY <1>4, <2>2, <2>5
    <2> QED BY <1>4, <2>2, <2>4, <2>6, <2>7, <2>8
<1>7. \A o \in Outs :
          /\ SizesFirst(cmdq', o)
          /\ HowMany(cmdq', Sizes(o)) = HowMany(cmdq, Sizes(o)) /\ HowMany(cmdq', Failures(o)) = HowMany(cmdq, Failures(o))
    BY <1>1, <1>6 DEF LightSound
<1>8. (WakeDue' <=> WakeDue) /\ (ApplyDue => ApplyDue')
    <2>1. /\ HowMany(cmdq', Doing("resume")) = HowMany(cmdq, Doing("resume"))
          /\ HowMany(cmdq', Doing("apply")) = HowMany(cmdq, Doing("apply"))
        BY <1>1, <1>6
    <2> QED BY <1>1, <2>1 DEF WakeDue, ApplyDue
<1>9. ASSUME NEW o \in Outs PROVE LightDue(o)' /\ LitByControl(o)'
    <2>1. LightDue(o) /\ LitByControl(o)
        BY DEF LightSound
    <2>2. LightDue(o)'
        BY <1>1, <1>7, <1>8, <2>1, LightUntouched
    <2> QED BY <1>1, <2>1, <2>2 DEF LitByControl
<1>10. SwitchFollowed'
    <2>1. \A o : HowMany(cmdq', Removals(o)) = 0 /\ HowMany(cmdq', Adds(o)) = 0
        BY <1>1, <1>4, <1>6
    <2>2. \A o : ~AddDue(o)'
        BY <1>1, <1>2, <2>1 DEF AddDue
    <2>3. plugged' \subseteq available'
        BY <1>1, <1>2 DEF SwitchFollowed
    <2>4. CASE gammaEnabled /\ ~controlsInitialized /\ cmdq' = Posted(cmdq, Simple("setup"))
        <3>1. HowMany(cmdq', SetUps) = 1 /\ HowMany(cmdq', Doing("teardown")) = 0
            BY <1>6, <2>4
        <3>2. SetupDue'
            BY <3>1 DEF SetupDue
        <3> QED BY <1>1, <2>1, <2>2, <2>3, <2>4, <3>1, <3>2 DEF SwitchFollowed
    <2>5. CASE ~gammaEnabled /\ controlsInitialized /\ cmdq' = Posted(cmdq, Simple("teardown"))
        <3>1. HowMany(cmdq', SetUps) = 0 /\ HowMany(cmdq', Doing("teardown")) = 1
            BY <1>6, <2>5
        <3> QED BY <1>1, <2>1, <2>2, <2>3, <2>5, <3>1 DEF SwitchFollowed
    <2>6. CASE (gammaEnabled <=> controlsInitialized) /\ cmdq' = cmdq
        <3>1. HowMany(cmdq', SetUps) = 0 /\ HowMany(cmdq', Doing("teardown")) = 0
            BY <1>4, <2>6
        <3>2. ~SetupDue
            BY <1>4, <2>6 DEF SetupDue
        <3>3. gammaEnabled => \A o \in plugged : dev[o].tracked # 0
            BY <1>2, <1>5, <3>2 DEF SwitchFollowed
        <3> QED BY <1>1, <2>1, <2>2, <2>3, <2>6, <3>1, <3>3 DEF SwitchFollowed
    <2> QED BY <1>1, <2>4, <2>5, <2>6
<1> QED BY <1>7, <1>9, <1>10 DEF LightSound

LEMMA PlugLight == ASSUME GammaSound, UnseenQuiet, LightSound, ~crossed', NEW o \in Outs, Plug(o) PROVE LightSound'
<1>1. gammaEnabled => ~UnderWay
    BY DEF Plug
<1>2. /\ UNCHANGED <<gammaEnabled, level, dev, controlsInitialized, cmdq, updateTrigger, scheduler, caller, resumeTimer>>
      /\ plugged' = plugged \cup {o} /\ available' = available \cup {o} /\ o \notin seen
      /\ watcher' = IF gammaEnabled THEN watcher \cup {o} ELSE watcher
    BY DEF Plug
<1>3. SwitchFollowed /\ plugged \subseteq Outs /\ \A S : HowMany(cmdq', S) = HowMany(cmdq, S)
    BY <1>2 DEF GammaSound, GammaTypes, LightSound
<1>4. dev[o].tracked = 0 /\ HowMany(cmdq, Removals(o)) = 0
    BY <1>2 DEF GammaSound, OutputSound, Vacant, UnseenQuiet
<1>5. SwitchFollowed'
    <2>1. plugged' \subseteq available' /\ \A p \in plugged' : HowMany(cmdq', Removals(p)) = 0
        BY <1>2, <1>3, <1>4 DEF SwitchFollowed
    <2>2. \A p \in Outs : AddDue(p)' => gammaEnabled'
        BY <1>2, <1>3 DEF AddDue, SwitchFollowed
    <2>3. gammaEnabled => \A p \in plugged' : dev'[p].tracked # 0 \/ AddDue(p)'
        BY <1>1, <1>2, <1>3, SwitchAtRest DEF AddDue
    <2> QED BY <1>2, <1>3, <2>1, <2>2, <2>3 DEF SwitchFollowed
<1>6. (WakeDue' <=> WakeDue) /\ (ApplyDue' <=> ApplyDue)
    BY <1>2 DEF WakeDue, ApplyDue
<1>7. ASSUME NEW p \in Outs PROVE LightDue(p)' /\ LitByControl(p)' /\ SizesFirst(cmdq', p)
    <2>1. LightDue(p) /\ LitByControl(p) /\ SizesFirst(cmdq, p)
        BY DEF LightSound
    <2>2. LightDue(p)'
        <3>1. CASE p = o
            BY <1>2, <1>4, <3>1 DEF LightDue
        <3>2. CASE p # o
            BY <1>2, <1>3, <1>6, <2>1, <3>2, LightUntouched
        <3> QED BY <3>1, <3>2
    <2> QED BY <1>2, <2>1, <2>2 DEF LitByControl
<1> QED BY <1>5, <1>7 DEF LightSound

LEMMA PostAddLight == ASSUME GammaSound, LightSound, HasRoom, NEW o \in Outs, PostAdd(o) PROVE LightSound'
<1> DEFINE c == Cmd("add", o, 0)
<1>1. c \in Closures /\ c.do = "add" /\ c.out = o
    BY CommandsMade
<1> HIDE DEF c
<1>2. /\ UNCHANGED <<gammaEnabled, level, available, plugged, dev, controlsInitialized, updateTrigger, scheduler, caller,
                     resumeTimer>>
      /\ o \in watcher /\ watcher' = watcher \ {o} /\ cmdq' = Posted(cmdq, c)
    BY DEF PostAdd, c
<1>3. /\ c \notin SetUps /\ c \notin Doing("teardown") /\ c \notin Doing("resume") /\ c \notin Doing("apply")
      /\ \A p : /\ c \notin Removals(p) /\ c \notin Sizes(p) /\ c \notin Failures(p)
                /\ c \in Adds(p) <=> p = o
    BY <1>1, CommandKinds
<1>4. \A p \in Outs :
         /\ SizesFirst(cmdq', p)
         /\ \A S : /\ HowMany(cmdq, S) \in Nat /\ HowMany(cmdq', S) \in Nat
                   /\ HowMany(cmdq', S) = HowMany(cmdq, S) + (IF c \in S THEN 1 ELSE 0)
    BY <1>1, <1>2, <1>3, LightPosted
<1>5. \A S : /\ HowMany(cmdq, S) \in Nat /\ HowMany(cmdq', S) \in Nat
             /\ HowMany(cmdq', S) = HowMany(cmdq, S) + (IF c \in S THEN 1 ELSE 0)
    BY <1>4
<1>6. \A S : c \notin S => HowMany(cmdq', S) = HowMany(cmdq, S)
    BY <1>5
<1>7. HowMany(cmdq', Adds(o)) > 0
    BY <1>3, <1>5
<1>8. ASSUME NEW p PROVE AddDue(p)' <=> AddDue(p)
    <2>1. CASE p = o
        BY <1>2, <1>7, <2>1 DEF AddDue
    <2>2. CASE p # o
        <3>1. HowMany(cmdq', Adds(p)) = HowMany(cmdq, Adds(p))
            BY <1>3, <1>6, <2>2
        <3> QED BY <1>2, <2>2, <3>1 DEF AddDue
    <2> QED BY <2>1, <2>2
<1>9. HowMany(cmdq', SetUps) = HowMany(cmdq, SetUps) /\ HowMany(cmdq', Doing("teardown")) = HowMany(cmdq, Doing("teardown"))
    BY <1>3, <1>6
<1>10. SetupDue' <=> SetupDue
    BY <1>2, <1>9 DEF SetupDue
<1>11. plugged \subseteq Outs /\ \A p \in Outs : HowMany(cmdq', Removals(p)) = HowMany(cmdq, Removals(p))
    BY <1>3, <1>6 DEF GammaSound, GammaTypes
<1>12. SwitchFollowed'
    BY <1>2, <1>8, <1>9, <1>10, <1>11, SwitchKept
<1>13. (WakeDue' <=> WakeDue) /\ (ApplyDue' <=> ApplyDue)
    BY <1>2, <1>3, <1>6 DEF WakeDue, ApplyDue
<1>14. ASSUME NEW p \in Outs PROVE LightDue(p)' /\ LitByControl(p)'
    <2>1. HowMany(cmdq', Sizes(p)) = HowMany(cmdq, Sizes(p)) /\ HowMany(cmdq', Failures(p)) = HowMany(cmdq, Failures(p))
        BY <1>3, <1>6
    <2>2. LightDue(p) /\ LitByControl(p)
        BY DEF LightSound
    <2>3. LightDue(p)'
        BY <1>2, <1>13, <2>1, <2>2, LightUntouched
    <2> QED BY <1>2, <2>2, <2>3 DEF LitByControl
<1> QED BY <1>4, <1>12, <1>14 DEF LightSound

LEMMA UnplugLight == ASSUME GammaSound, LightSound, HasRoom, ~crossed', NEW o \in Outs, Unplug(o) PROVE LightSound'
<1> DEFINE c == Cmd("removed", o, 0)
<1>1. c \in Closures /\ c.do = "removed" /\ c.out = o
    BY CommandsMade
<1> HIDE DEF c
<1>2. /\ ~UnderWay /\ cmdq' = Posted(cmdq, c) /\ plugged' = plugged \ {o}
      /\ UNCHANGED <<gammaEnabled, level, available, controlsInitialized, updateTrigger, scheduler, caller, watcher, resumeTimer>>
    BY DEF Unplug, c
<1>3. \A p \in Outs : LightDue(p) /\ LitByControl(p) /\ dev[p] \in OutputTables /\ Shape(dev[p])
    BY SoundTables DEF LightSound
<1>4. /\ \A p \in Outs : p # o => dev'[p] = dev[p]
      /\ \/ dev'[o] = dev[o]
         \/ \E h \in Handles : dev[o].ctl[h].st = "holds" /\ dev'[o] = Voided(dev[o], h)
    <2>1. DOMAIN dev = Outs
        BY DEF GammaSound, GammaTypes
    <2>2. CASE Holds(dev[o])
        <3> DEFINE h == CHOOSE x \in Handles : dev[o].ctl[x].st = "holds"
        <3>1. h \in Handles /\ dev[o].ctl[h].st = "holds"
            BY <2>2 DEF Holds
        <3>2. dev' = [dev EXCEPT ![o] = Voided(dev[o], h)]
            BY <2>2 DEF Unplug
        <3> QED BY <2>1, <3>1, <3>2
    <2>3. CASE ~Holds(dev[o])
        <3>1. dev' = [dev EXCEPT ![o] = dev[o]]
            BY <2>3 DEF Unplug
        <3> QED BY <2>1, <3>1
    <2> QED BY <2>2, <2>3
<1>5. /\ ~gammaEnabled => ~controlsInitialized
      /\ gammaEnabled => \A p \in plugged : dev[p].tracked # 0
      /\ plugged \subseteq available /\ plugged \subseteq Outs /\ watcher = {} /\ caller = "idle"
      /\ HowMany(cmdq, SetUps) = 0 /\ HowMany(cmdq, Doing("teardown")) = 0
      /\ \A p : HowMany(cmdq, Adds(p)) = 0 /\ HowMany(cmdq, Removals(p)) = 0
    BY <1>2, SwitchAtRest, NothingUnderWay DEF GammaSound, GammaTypes, StructuralDo
<1>6. /\ c \notin SetUps /\ c \notin Doing("teardown") /\ c \notin Doing("resume") /\ c \notin Doing("apply")
      /\ \A p : /\ c \notin Adds(p) /\ c \notin Sizes(p) /\ c \notin Failures(p)
                /\ c \in Removals(p) <=> p = o
    BY <1>1, CommandKinds
<1>7. \A p \in Outs :
         /\ SizesFirst(cmdq', p)
         /\ \A S : /\ HowMany(cmdq, S) \in Nat /\ HowMany(cmdq', S) \in Nat
                   /\ HowMany(cmdq', S) = HowMany(cmdq, S) + (IF c \in S THEN 1 ELSE 0)
    BY <1>1, <1>2, <1>6, LightPosted
<1>8. \A S : c \notin S => HowMany(cmdq', S) = HowMany(cmdq, S)
    <2>1. \A S : HowMany(cmdq, S) \in Nat /\ HowMany(cmdq', S) = HowMany(cmdq, S) + (IF c \in S THEN 1 ELSE 0)
        BY <1>7
    <2> QED BY <2>1
<1>9. SwitchFollowed'
    <2>1. \A p \in plugged' : HowMany(cmdq', Removals(p)) = 0
        BY <1>2, <1>5, <1>6, <1>8
    <2>2. HowMany(cmdq', SetUps) = 0 /\ HowMany(cmdq', Doing("teardown")) = 0 /\ \A p : HowMany(cmdq', Adds(p)) = 0
        BY <1>5, <1>6, <1>8
    <2>3. \A p : ~AddDue(p)'
        BY <1>2, <1>5, <2>2 DEF AddDue
    <2>4. gammaEnabled => \A p \in plugged' : dev'[p].tracked # 0
        BY <1>2, <1>4, <1>5
    <2> QED BY <1>2, <1>5, <2>1, <2>2, <2>3, <2>4 DEF SwitchFollowed
<1>10. (WakeDue' <=> WakeDue) /\ (ApplyDue' <=> ApplyDue)
    <2>1. /\ HowMany(cmdq', Doing("resume")) = HowMany(cmdq, Doing("resume"))
          /\ HowMany(cmdq', Doing("apply")) = HowMany(cmdq, Doing("apply"))
        BY <1>6, <1>8
    <2> QED BY <1>2, <2>1 DEF WakeDue, ApplyDue
<1>11. \A p \in Outs :
          HowMany(cmdq', Sizes(p)) = HowMany(cmdq, Sizes(p)) /\ HowMany(cmdq', Failures(p)) = HowMany(cmdq, Failures(p))
    BY <1>6, <1>8
<1>12. ASSUME NEW p \in Outs, dev'[p] = dev[p] PROVE LightDue(p)' /\ LitByControl(p)'
    <2>1. LightDue(p)'
        BY <1>2, <1>3, <1>10, <1>11, <1>12, LightUntouched
    <2> QED BY <1>3, <1>12, <2>1 DEF LitByControl
<1>13. ASSUME NEW h \in Handles, dev[o].ctl[h].st = "holds", dev'[o] = Voided(dev[o], h)
       PROVE  LightDue(o)' /\ LitByControl(o)'
    <2>1. dev[o].tracked # 0
        BY <1>3, <1>13 DEF Shape
    <2>2. Proceeds(dev[o], HowMany(cmdq', Sizes(o)), HowMany(cmdq', Failures(o)))
        BY <1>3, <1>11, <2>1 DEF LightDue
    <2>3. LET t == Voided(dev[o], h)
          IN  /\ t.tracked = dev[o].tracked /\ Proceeds(t, HowMany(cmdq', Sizes(o)), HowMany(cmdq', Failures(o))) /\ t.shown = Plain
              /\ ShowsLast(t)
        BY <1>3, <1>13, <2>2, VoidedLight
    <2>4. /\ Proceeds(dev'[o], HowMany(cmdq', Sizes(o)), HowMany(cmdq', Failures(o))) /\ dev'[o].shown = Plain
          /\ ShowsLast(dev'[o]) /\ o \notin plugged'
        BY <1>2, <1>13, <2>3
    <2> QED BY <2>4 DEF LightDue, LitByControl
<1>14. \A p \in Outs : LightDue(p)' /\ LitByControl(p)'
    BY <1>4, <1>12, <1>13
<1> QED BY <1>7, <1>9, <1>14 DEF LightSound

LEMMA LoseControlLight ==
    ASSUME GammaSound, LightSound, NEW o \in Outs, NEW c \in Handles, LoseControl(o, c) PROVE LightSound'
<1>1. /\ UNCHANGED <<gammaEnabled, level, available, plugged, controlsInitialized, cmdq, updateTrigger, scheduler, caller, watcher,
                     resumeTimer>>
      /\ dev[o].ctl[c].st = "holds" /\ dev'[o] = Voided(dev[o], c)
      /\ \A p \in Outs : p # o => dev'[p] = dev[p]
    BY DEF LoseControl, GammaSound, GammaTypes
<1>2. \A p \in Outs : LightDue(p) /\ LitByControl(p) /\ dev[p] \in OutputTables /\ Shape(dev[p])
    BY SoundTables DEF LightSound
<1>3. dev[o].tracked # 0
    BY <1>1, <1>2 DEF Shape
<1>4. Proceeds(dev[o], HowMany(cmdq, Sizes(o)), HowMany(cmdq, Failures(o)))
    BY <1>2, <1>3 DEF LightDue
<1>5. LET t == Voided(dev[o], c)
      IN  /\ t.tracked = dev[o].tracked /\ Proceeds(t, HowMany(cmdq, Sizes(o)), HowMany(cmdq, Failures(o))) /\ t.shown = Plain
          /\ ShowsLast(t) /\ ShowsLevel(t, HowMany(cmdq, Sizes(o)), HowMany(cmdq, Failures(o)), level)
    BY <1>1, <1>2, <1>4, VoidedLight
<1>6. /\ dev'[o].tracked = dev[o].tracked /\ Proceeds(dev'[o], HowMany(cmdq, Sizes(o)), HowMany(cmdq, Failures(o)))
      /\ dev'[o].shown = Plain
      /\ ShowsLast(dev'[o]) /\ ShowsLevel(dev'[o], HowMany(cmdq, Sizes(o)), HowMany(cmdq, Failures(o)), level)
    BY <1>1, <1>5
<1>7. /\ SwitchFollowed' /\ \A p \in Outs : SizesFirst(cmdq', p)
      /\ \A S : HowMany(cmdq', S) = HowMany(cmdq, S)
      /\ (WakeDue' <=> WakeDue) /\ (ApplyDue' <=> ApplyDue)
    <2>1. \A p \in Outs : dev'[p].tracked = dev[p].tracked
        BY <1>1, <1>6
    <2> QED BY <1>1, <2>1, QueueLight
<1>8. LightDue(o)' /\ LitByControl(o)'
    BY <1>1, <1>6 DEF LightDue, LitByControl
<1>9. ASSUME NEW p \in Outs, p # o PROVE LightDue(p)' /\ LitByControl(p)'
    <2>1. LightDue(p)'
        BY <1>1, <1>2, <1>7, <1>9, LightUntouched
    <2> QED BY <1>1, <1>2, <1>9, <2>1 DEF LitByControl
<1> QED BY <1>7, <1>8, <1>9 DEF LightSound

LEMMA WakeUpLight == ASSUME GammaSound, LightSound, WakeUp PROVE LightSound'
<1>1. /\ UNCHANGED <<gammaEnabled, level, available, plugged, controlsInitialized, cmdq, updateTrigger, scheduler, caller, watcher>>
      /\ resumeTimer' = gammaEnabled
    BY DEF WakeUp
<1>2. \A p \in Outs : LightDue(p) /\ LitByControl(p) /\ dev[p] \in OutputTables
    BY SoundTables DEF LightSound
<1>3. ASSUME NEW p \in Outs
      PROVE  /\ dev'[p].tracked = dev[p].tracked /\ dev'[p].obj = dev[p].obj /\ dev'[p].ctl = dev[p].ctl
             /\ dev'[p].shown \in {Plain, dev[p].shown}
    <2>1. PICK lost \in SUBSET Outs :
              dev' = [o \in Outs |-> IF o \in lost THEN [dev[o] EXCEPT !.shown = Plain] ELSE dev[o]]
        BY DEF WakeUp
    <2>2. dev'[p] = dev[p] \/ dev'[p] = [dev[p] EXCEPT !.shown = Plain]
        BY <2>1
    <2>3. LET t == [dev[p] EXCEPT !.shown = Plain]
          IN  t \in OutputTables /\ t.tracked = dev[p].tracked /\ t.obj = dev[p].obj /\ t.ctl = dev[p].ctl /\ t.shown = Plain
        BY <1>2, LostFacts
    <2>4. CASE dev'[p] = dev[p]
        BY <2>4
    <2>5. CASE dev'[p] = [dev[p] EXCEPT !.shown = Plain]
        BY <2>3, <2>5
    <2> QED BY <2>2, <2>4, <2>5
<1>4. SwitchFollowed' /\ (\A p \in Outs : SizesFirst(cmdq', p)) /\ \A S : HowMany(cmdq', S) = HowMany(cmdq, S)
    BY <1>1, <1>3, QueueLight
<1>5. gammaEnabled' => WakeDue'
    BY <1>1 DEF WakeDue
<1>6. ASSUME NEW p \in Outs PROVE LightDue(p)' /\ LitByControl(p)'
    <2>1. Object(dev'[p]) = Object(dev[p]) /\ Control(dev'[p]) = Control(dev[p]) /\ (Holds(dev'[p]) <=> Holds(dev[p]))
        <3>1. Object(dev'[p]) = Object(dev[p])
            BY <1>3 DEF Object
        <3> QED BY <1>3, <3>1 DEF Control, Holds
    <2>2. LightDue(p)'
        BY <1>2, <1>3, <1>4, <1>5, <2>1 DEF LightDue, Proceeds, SizeDue, FailureDue
    <2> QED BY <1>2, <1>3, <2>1, <2>2 DEF LitByControl
<1> QED BY <1>4, <1>6 DEF LightSound

LEMMA HearControlLight ==
    ASSUME GammaSound, RetriesBounded, LightSound, HasRoom, NEW o \in Outs, NEW c \in Handles, HearControl(o, c)
    PROVE  LightSound'
<1>1. \A p \in Outs : LightDue(p) /\ LitByControl(p) /\ dev[p] \in OutputTables /\ Shape(dev[p])
    BY SoundTables DEF LightSound
<1>2. PICK e \in {"size", "failed"} : e = dev[o].ctl[c].ev /\ (e = "size" => dev[o].ctl[c].st = "holds")
    <2>1. dev[o].ctl[c] \in Controls
        BY <1>1, TableParts
    <2> QED BY <2>1 DEF Controls, HearControl
<1> DEFINE x == Cmd(e, o, 0)
<1>3. x \in Closures /\ x.do = e /\ x.out = o
    BY CommandsMade
<1> HIDE DEF x
<1>4. /\ UNCHANGED <<gammaEnabled, level, available, plugged, controlsInitialized, updateTrigger, scheduler, caller, watcher,
                     resumeTimer>>
      /\ cmdq' = Posted(cmdq, x) /\ dev'[o] = [dev[o] EXCEPT !.ctl[c].ev = "none"]
      /\ \A p \in Outs : p # o => dev'[p] = dev[p]
    BY <1>2 DEF HearControl, x, GammaSound, GammaTypes
<1>5. /\ x \notin SetUps /\ x \notin Doing("teardown") /\ x \notin Doing("resume") /\ x \notin Doing("apply")
      /\ \A p : /\ x \notin Removals(p) /\ x \notin Adds(p)
                /\ x \in Sizes(p) <=> e = "size" /\ p = o
                /\ x \in Failures(p) <=> e = "failed" /\ p = o
    BY <1>3, CommandKinds
<1>6. cmdq \in Seq(Closures)
    BY DEF GammaSound, GammaTypes
<1>7. e = "size" => HowMany(cmdq, Failures(o)) = 0
    <2> DEFINE f == HowMany(cmdq, Failures(o))
    <2>1. ChanceOf(dev[o], f) /\ f \in Nat
        BY <1>6, HowManyNat DEF RetriesBounded
    <2> HIDE DEF f
    <2> SUFFICES ASSUME e = "size" PROVE f = 0
        BY DEF f
    <2>2. dev[o].tracked # 0 /\ dev[o].obj[dev[o].tracked].ctl = c /\ dev[o].ctl[c].ev = "size" /\ c # 0
        BY <1>1, <1>2 DEF Shape, Handles
    <2>3. MayFail(dev[o])
        BY <2>2 DEF MayFail
    <2>4. PICK t \in Nat, q \in Nat : t + q + f + 1 <= 1
        BY <1>1, <2>1, <2>2, <2>3, ChanceParts DEF ChanceOf
    <2> QED BY <2>1, <2>4
<1>8. \A p \in Outs :
         /\ SizesFirst(cmdq', p)
         /\ \A S : /\ HowMany(cmdq, S) \in Nat /\ HowMany(cmdq', S) \in Nat
                   /\ HowMany(cmdq', S) = HowMany(cmdq, S) + (IF x \in S THEN 1 ELSE 0)
    BY <1>3, <1>4, <1>5, <1>7, LightPosted
<1>9. \A S : /\ HowMany(cmdq, S) \in Nat /\ HowMany(cmdq', S) \in Nat
             /\ HowMany(cmdq', S) = HowMany(cmdq, S) + (IF x \in S THEN 1 ELSE 0)
    BY <1>8
<1>10. \A S : x \notin S => HowMany(cmdq', S) = HowMany(cmdq, S)
    BY <1>9
<1>11. (SetupDue' <=> SetupDue) /\ \A p : AddDue(p)' <=> AddDue(p)
    BY <1>4, <1>5, <1>10 DEF SetupDue, AddDue
<1>12. (WakeDue' <=> WakeDue) /\ (ApplyDue' <=> ApplyDue)
    BY <1>4, <1>5, <1>10 DEF WakeDue, ApplyDue
<1>13. ASSUME NEW p \in Outs, p # o PROVE LightDue(p)' /\ LitByControl(p)'
    <2>1. HowMany(cmdq', Sizes(p)) = HowMany(cmdq, Sizes(p)) /\ HowMany(cmdq', Failures(p)) = HowMany(cmdq, Failures(p))
        BY <1>5, <1>10, <1>13
    <2>2. LightDue(p)'
        BY <1>1, <1>4, <1>12, <1>13, <2>1, LightUntouched
    <2> QED BY <1>1, <1>4, <1>13, <2>2 DEF LitByControl
<1>14. LightDue(o)' /\ LitByControl(o)' /\ dev'[o].tracked = dev[o].tracked
    <2> DEFINE ns == HowMany(cmdq, Sizes(o))
               nf == HowMany(cmdq, Failures(o))
               ms == HowMany(cmdq', Sizes(o))
               mf == HowMany(cmdq', Failures(o))
    <2>1. /\ ns \in Nat /\ nf \in Nat /\ ms \in Nat /\ mf \in Nat
          /\ ms = ns + (IF x \in Sizes(o) THEN 1 ELSE 0) /\ mf = nf + (IF x \in Failures(o) THEN 1 ELSE 0)
        BY <1>9
    <2>2. /\ x \in Sizes(o) <=> dev[o].ctl[c].ev = "size"
          /\ x \in Failures(o) <=> dev[o].ctl[c].ev = "failed"
        BY <1>2, <1>5
    <2>3. dev[o].tracked # 0 /\ dev[o].ctl[c].ev # "none" /\ (dev[o].shown # Plain => Holds(dev[o]))
        <3>1. dev[o].ctl[c].st # "none"
            BY <1>1, <1>2, TableParts DEF Controls
        <3> QED BY <1>1, <1>2, <3>1 DEF Shape, LitByControl
    <2>4. Proceeds(dev[o], ns, nf)
        BY <1>1, <2>3 DEF LightDue
    <2> HIDE DEF ns, nf, ms, mf
    <2>5. /\ ms = ns + (IF dev[o].ctl[c].ev = "size" THEN 1 ELSE 0)
          /\ mf = nf + (IF dev[o].ctl[c].ev = "failed" THEN 1 ELSE 0)
        BY <2>1, <2>2
    <2>6. \A l : LET t == [dev[o] EXCEPT !.ctl[c].ev = "none"]
                 IN  /\ t.tracked = dev[o].tracked /\ Proceeds(t, ms, mf) /\ (t.shown # Plain => Holds(t))
                     /\ ShowsLast(dev[o]) => ShowsLast(t)
                     /\ ShowsLevel(dev[o], ns, nf, l) => ShowsLevel(t, ms, mf, l)
        BY <1>1, <2>1, <2>3, <2>4, <2>5, HeardLight
    <2>7. /\ dev'[o].tracked = dev[o].tracked /\ Proceeds(dev'[o], ms, mf) /\ (dev'[o].shown # Plain => Holds(dev'[o]))
          /\ ShowsLast(dev[o]) => ShowsLast(dev'[o])
          /\ ShowsLevel(dev[o], ns, nf, level) => ShowsLevel(dev'[o], ms, mf, level')
        BY <1>4, <2>6
    <2>8. LightDue(o)'
        BY <1>1, <1>4, <1>12, <2>3, <2>7, LightFrom DEF ns, nf, ms, mf
    <2> QED BY <2>7, <2>8 DEF LitByControl
<1>15. plugged \subseteq Outs
    BY DEF GammaSound, GammaTypes
<1>16. SwitchFollowed'
    <2>1. /\ HowMany(cmdq', SetUps) = HowMany(cmdq, SetUps)
          /\ HowMany(cmdq', Doing("teardown")) = HowMany(cmdq, Doing("teardown"))
          /\ \A p \in Outs : HowMany(cmdq', Removals(p)) = HowMany(cmdq, Removals(p))
        BY <1>5, <1>10
    <2>2. \A p \in Outs : dev'[p].tracked = dev[p].tracked
        BY <1>4, <1>14
    <2> QED BY <1>4, <1>11, <1>15, <2>1, <2>2, SwitchKept
<1> QED BY <1>8, <1>13, <1>14, <1>16 DEF LightSound

LEMMA LightStep ==
    ASSUME GammaInv, ~crossed', RetriesBounded, LightSound, HasRoom, [GammaNext]_gammaVars PROVE LightSound'
<1> USE DEF GammaInv
<1>1. CASE GammaNext
    <2>1. CASE Actor
        BY <2>1, RunStartupLight, RunSetupLight, RunTeardownLight, RunAddLight, RunRemovedLight, RunSizeLight,
           RunFailedLight, RunRecreateLight, RunApplyLight, RunResumeLight DEF Actor
    <2>2. CASE ApplyTrigger \/ PostApply \/ SetLevel \/ SetGammaEnabled \/ DecideEnabled \/ WakeUp \/ FireResume
        BY <2>2, ApplyTriggerLight, PostApplyLight, SetLevelLight, SetGammaEnabledLight, DecideEnabledLight, WakeUpLight,
           FireResumeLight
    <2>3. CASE \E o \in Outs : Plug(o) \/ PostAdd(o) \/ Unplug(o)
        BY <2>3, PlugLight, PostAddLight, UnplugLight
    <2>4. CASE \E o \in Outs, c \in Handles : HearControl(o, c) \/ LoseControl(o, c)
        BY <2>4, HearControlLight, LoseControlLight
    <2>5. CASE \E o \in Outs, k \in Slots : FireBackoff(o, k)
        BY <2>5, FireBackoffLight
    <2> QED BY <1>1, <2>1, <2>2, <2>3, <2>4, <2>5 DEF GammaNext
<1>2. CASE UNCHANGED gammaVars
    BY <1>2 DEF gammaVars, LightSound, SwitchFollowed, LightDue, LitByControl, SizesFirst, SetupDue, AddDue, WakeDue, ApplyDue
<1> QED BY <1>1, <1>2

LEMMA FirstLight == GammaInit => LightSound
<1> SUFFICES ASSUME GammaInit PROVE LightSound
    OBVIOUS
<1>1. /\ \A o \in Outs : dev[o] = Untouched
      /\ controlsInitialized = FALSE /\ watcher = {} /\ caller = "idle" /\ gammaEnabled \in BOOLEAN
    BY DEF GammaInit
<1>2. PICK o \in Outs :
          /\ available = {o} /\ plugged = {o}
          /\ \A s : s \notin {"add", "startup", "apply"} => HowMany(cmdq, Doing(s)) = 0
          /\ HowMany(cmdq, SetUps) = 0 /\ HowMany(cmdq, Adds(o)) = (IF gammaEnabled THEN 1 ELSE 0)
          /\ \A p : (p # o => HowMany(cmdq, Adds(p)) = 0) /\ HowMany(cmdq, Removals(p)) = 0
          /\ \A p : SizesFirst(cmdq, p)
    BY QueueAtStart
<1>3. HowMany(cmdq, Doing("teardown")) = 0
    BY <1>2
<1>4. (AddDue(o) <=> gammaEnabled) /\ \A p : p # o => ~AddDue(p)
    BY <1>1, <1>2 DEF AddDue
<1>5. SwitchFollowed
    BY <1>1, <1>2, <1>3, <1>4 DEF SwitchFollowed
<1>6. \A p \in Outs : LightDue(p) /\ LitByControl(p)
    BY <1>1 DEF Untouched, LightDue, LitByControl
<1> QED BY <1>2, <1>5, <1>6 DEF LightSound

\* At rest nothing is due of the light any more.
LEMMA LightAtRest == GammaSound /\ LightSound => LightFollowsConfig
<1> SUFFICES ASSUME GammaSound, LightSound, Settled, NoTimer
             PROVE  IF gammaEnabled
                    THEN /\ plugged \subseteq Tracked(dev) /\ (plugged # {} => controlsInitialized)
                         /\ \A o \in plugged :
                               dev[o].obj[dev[o].tracked].failed \/ dev[o].shown = level
                    ELSE /\ Tracked(dev) = {}
                         /\ \A o \in Outs : dev[o].shown = Plain
    BY DEF LightFollowsConfig
<1>1. /\ \A S : HowMany(cmdq, S) = 0
      /\ ~gammaEnabled => ~controlsInitialized
      /\ gammaEnabled => \A o \in plugged : dev[o].tracked # 0
      /\ \A o \in Outs : dev[o].tracked # 0 => controlsInitialized
    <2>1. ~UnderWay /\ \A S : HowMany(cmdq, S) = 0
        BY QuietQueue DEF Settled, NothingToRun, UnderWay, Queued
    <2> QED BY <2>1, SwitchAtRest
<1>2. ~WakeDue /\ ~ApplyDue
    <2>1. ~(HowMany(cmdq, Doing("resume")) > 0) /\ ~(HowMany(cmdq, Doing("apply")) > 0)
        BY <1>1
    <2> QED BY <2>1 DEF WakeDue, ApplyDue, Settled, NothingToRun, NoTimer
<1>3. \A o \in Outs : LightDue(o) /\ LitByControl(o) /\ dev[o] \in OutputTables /\ Shape(dev[o])
    BY SoundTables DEF LightSound
<1>4. plugged \subseteq Outs
    BY DEF GammaSound, GammaTypes
<1>5. CASE gammaEnabled
    <2>1. plugged \subseteq Tracked(dev)
        BY <1>1, <1>4, <1>5 DEF Tracked
    <2>2. ASSUME NEW o \in plugged PROVE dev[o].obj[dev[o].tracked].failed \/ dev[o].shown = level
        <3>1. o \in Outs /\ dev[o].tracked # 0
            BY <1>1, <1>4, <1>5
        <3>2. ShowsLevel(dev[o], 0, 0, level)
            BY <1>1, <1>2, <1>3, <1>5, <3>1 DEF LightDue
        <3>3. Control(dev[o]).ev = "none"
            <4>1. CASE Object(dev[o]).ctl = 0
                BY <4>1 DEF Control, NoControl
            <4>2. CASE Object(dev[o]).ctl # 0
                <5>1. Object(dev[o]).ctl \in Handles /\ Control(dev[o]) = dev[o].ctl[Object(dev[o]).ctl]
                    BY <1>3, <3>1, <4>2, ControlParts
                <5> QED BY <3>1, <5>1 DEF Settled, NothingToHear
            <4> QED BY <4>1, <4>2
        <3> QED BY <3>2, <3>3 DEF ShowsLevel, SizeDue, FailureDue, Object
    <2>3. plugged # {} => controlsInitialized
        BY <1>1, <1>4, <1>5
    <2> QED BY <1>5, <2>1, <2>2, <2>3
<1>6. CASE ~gammaEnabled
    <2>1. \A o \in Outs : dev[o].tracked = 0
        BY <1>1, <1>6
    <2>2. ASSUME NEW o \in Outs PROVE dev[o].shown = Plain
        <3>1. ~Holds(dev[o])
            BY <1>3, <2>1 DEF Shape, Holds
        <3> QED BY <1>3, <3>1 DEF LitByControl
    <2> QED BY <1>6, <2>1, <2>2 DEF Tracked
<1> QED BY <1>5, <1>6

\* Whatever the order of requests, monitors, wake-ups, failures and backoffs, once all that was
\* posted has run the light is as it is configured, of any outputs, levels and limits, unless a
\* monitor or the switch was touched before the actor had followed the last time, and as long as
\* post finds room (every closure of waylandActor, post).
THEOREM LightFollows == GammaSpec /\ []HasRoom => []LightFollowsConfig
<1>1. GammaInit => crossed \/ LightSound
    BY FirstLight
<1>2. (crossed \/ LightSound) /\ (crossed \/ (GammaInv /\ RetriesBounded)) /\ HasRoom /\ [GammaNext]_gammaVars
          => (crossed \/ LightSound)'
    BY CrossedStays, LightStep
<1>3. (crossed \/ LightSound) /\ (crossed \/ (GammaInv /\ RetriesBounded)) => LightFollowsConfig
    BY LightAtRest DEF GammaInv, LightFollowsConfig
<1>4. GammaSpec => [](crossed \/ (GammaInv /\ RetriesBounded))
    BY RetriesAreSound
<1> QED BY <1>1, <1>2, <1>3, <1>4, PTL DEF GammaSpec
====
