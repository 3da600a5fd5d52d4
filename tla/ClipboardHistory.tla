--------------------------- MODULE ClipboardHistory ---------------------------
(***************************************************************************)
(* The clipboard history (internal/server/clipboard: manager.go and        *)
(* handlers.go).                                                           *)
(*                                                                         *)
(* Entries lie in a database whose transactions are atomic.  A request     *)
(* makes one or several of them, each a step here, and then rebuilds the   *)
(* published state: it reads the history in one transaction and stores     *)
(* what it read afterwards.  Reading also starts a goroutine that deletes  *)
(* the entries found too old.  Clearing a history without pinned entries   *)
(* closes the database, copies it and opens it again; transactions fail    *)
(* meanwhile.  Two clears never run at the same time here, and the         *)
(* database can always be opened again.                                    *)
(***************************************************************************)
EXTENDS Integers, FiniteSets

CONSTANTS
    Contents, NoContent,   \* what is copied
    Handlers,              \* goroutines that serve requests or store a selection
    MaxHistory, MaxPinned, \* configuration
    MaxIds,                \* bound on the database sequence
    MaxRequestsServed      \* bound on requests, restarts and entries that age

ASSUME ClipboardAssumption ==
    /\ NoContent \notin Contents
    /\ MaxHistory \in Nat /\ MaxPinned \in Nat /\ MaxIds \in Nat

VARIABLES
    entry,      \* the bucket: for each id, what is stored under it
    sequence,   \* the bucket's last id
    closed,     \* the database is being compacted
    autoClear, clearAtStartup,   \* configuration
    serving,    \* for each goroutine, where it is and what it holds
    sweeps,     \* running deleteStaleEntries, each the ids it was given
    published,  \* m.state.History: the ids, and those of them that are pinned
    overtaken,  \* goroutines whose reading was followed by the publication of another
    lagging,    \* the published state was read before one published already
    served

clipVars == <<entry, sequence, closed, autoClear, clearAtStartup, serving, sweeps,
              published, overtaken, lagging, served>>

Ids == 1..MaxIds
Nothing == [data |-> NoContent, pinned |-> FALSE, old |-> FALSE]
Idle == [pc |-> "idle", id |-> 0, data |-> NoContent, pinned |-> FALSE,
         seen |-> [ids |-> {}, pins |-> {}]]

Stored(e) == {i \in Ids : e[i].data # NoContent}
Pinned(e) == {i \in Stored(e) : e[i].pinned}
Unpinned(e) == Stored(e) \ Pinned(e)
Stale(e) == IF autoClear THEN {i \in Stored(e) : e[i].old} ELSE {}
Without(e, ids) == [i \in Ids |-> IF i \in ids THEN Nothing ELSE e[i]]
SameContent(e, d) == {i \in Stored(e) : e[i].data = d}
\* What GetHistory returns of the table e.
History(e) == [ids |-> Stored(e) \ Stale(e), pins |-> Pinned(e) \ Stale(e)]
-----------------------------------------------------------------------------
(* The transactions, as functions of the table.                            *)

\* Mutation: storing removes no twin.
DeduplicatedNot(e, d) == e

Deduplicated(e, d) == Without(e, SameContent(e, d) \cap Unpinned(e))
Trimmed(e) ==
    Without(e, {i \in Unpinned(e) : Cardinality({j \in Unpinned(e) : j > i}) >= MaxHistory})

\* Mutation: what is in the history already is kept under its id, as new again.
WithEntryInPlace(e, d, pin) ==
    LET twins == SameContent(e, d) \cap Unpinned(e)
    IN  IF twins = {} \/ pin
        THEN Trimmed([Deduplicated(e, d) EXCEPT ![sequence + 1] =
                        [data |-> d, pinned |-> pin, old |-> FALSE]])
        ELSE [i \in Ids |-> IF i \in twins THEN [e[i] EXCEPT !.old = FALSE] ELSE e[i]]

\* storeEntry: out with the same content, in with a new id, out with the oldest.
WithEntry(e, d, pin) ==
    Trimmed([Deduplicated(e, d) EXCEPT ![sequence + 1] =
                [data |-> d, pinned |-> pin, old |-> FALSE]])

\* Mutation: unpinning always removes the entry, though no twin takes its place.
WithoutPinDropping(e, i) == IF e[i].pinned THEN Without(e, {i}) ELSE e

\* UnpinEntry: an unpinned twin takes the entry's place.
WithoutPin(e, i) ==
    LET twins == (SameContent(e, e[i].data) \cap Unpinned(e)) \ {i}
    IN  IF e[i].pinned /\ twins # {}
        THEN Without(e, {i} \cup {j \in twins : \E k \in twins : k > j})
        ELSE [e EXCEPT ![i].pinned = FALSE]
-----------------------------------------------------------------------------
Arrive(h, pc, i, d) ==
    /\ serving[h].pc = "idle" /\ served < MaxRequestsServed   \* bound MaxRequestsServed
    /\ served' = served + 1
    /\ serving' = [serving EXCEPT ![h] = [Idle EXCEPT !.pc = pc, !.id = i, !.data = d]]
    /\ UNCHANGED <<entry, sequence, closed, autoClear, clearAtStartup, sweeps, published,
                   overtaken, lagging>>

\* Any id may be asked for: the requester may hold an old history.
Request(h) ==
    \/ \E d \in Contents : Arrive(h, "store", 0, d)
    \/ \E i \in 1..sequence, pc \in {"copy", "pin", "unpin", "delete"} : Arrive(h, pc, i, NoContent)
    \/ /\ \A g \in Handlers : serving[g].pc \notin {"clear", "count", "close", "open"}
       /\ Arrive(h, "clear", 0, NoContent)

At(h, pc) == serving[h].pc = pc
Becomes(h, r) == serving' = [serving EXCEPT ![h] = r]
Goes(h, pc) == Becomes(h, [serving[h] EXCEPT !.pc = pc])
Ends(h) == Becomes(h, Idle)
Kept == UNCHANGED <<autoClear, clearAtStartup, sweeps, published, overtaken, lagging, served>>
ReadOnly == UNCHANGED <<entry, sequence, closed>> /\ Kept
Target(h) == serving[h].id

\* storeEntry, for a selection, a copied entry or a touched one.  Whoever stores a
\* selection rebuilds the state even when the transaction failed.
StoreEntry(h) ==
    /\ At(h, "store") /\ sequence < MaxIds   \* bound MaxIds
    /\ IF closed
       THEN (Ends(h) \/ Goes(h, "read")) /\ UNCHANGED <<entry, sequence>>
       ELSE /\ entry' = WithEntry(entry, serving[h].data, serving[h].pinned)
            /\ sequence' = sequence + 1
            /\ Goes(h, "read")
    /\ UNCHANGED closed /\ Kept

\* handleCopyEntry: a pinned entry gets a new unpinned copy, another one is touched.
GetToCopy(h) ==
    /\ At(h, "copy")
    /\ LET e == entry[Target(h)]
       IN  IF closed \/ e = Nothing THEN Ends(h)
           ELSE IF e.pinned THEN Becomes(h, [serving[h] EXCEPT !.pc = "store", !.data = e.data])
                ELSE Goes(h, "touch")
    /\ ReadOnly

\* TouchEntry reads the entry again and stores it as it is now, with its pin.
GetToTouch(h) ==
    /\ At(h, "touch")
    /\ LET e == entry[Target(h)]
       IN  IF closed \/ e = Nothing THEN Ends(h)
           ELSE Becomes(h, [serving[h] EXCEPT !.pc = "store", !.data = e.data, !.pinned = e.pinned])
    /\ ReadOnly

\* PinEntry: the entry, its twins, the limit and the write are four transactions.
GetToPin(h) ==
    /\ At(h, "pin")
    /\ LET e == entry[Target(h)]
       IN  IF closed \/ e = Nothing THEN Ends(h)
           ELSE Becomes(h, [serving[h] EXCEPT !.pc = "pinTwins", !.data = e.data])
    /\ ReadOnly

LookForPinnedTwin(h) ==
    /\ At(h, "pinTwins")
    /\ IF closed \/ SameContent(entry, serving[h].data) \cap Pinned(entry) # {}
       THEN Ends(h) ELSE Goes(h, "pinCount")
    /\ ReadOnly

\* A count that fails is zero.
CountPinned(h) ==
    /\ At(h, "pinCount")
    /\ IF (IF closed THEN 0 ELSE Cardinality(Pinned(entry))) >= MaxPinned
       THEN Ends(h) ELSE Goes(h, "pinPut")
    /\ ReadOnly

PutPinned(h) ==
    /\ At(h, "pinPut")
    /\ IF closed \/ entry[Target(h)] = Nothing
       THEN Ends(h) /\ UNCHANGED entry
       ELSE Goes(h, "read") /\ entry' = [entry EXCEPT ![Target(h)].pinned = TRUE]
    /\ UNCHANGED <<sequence, closed>> /\ Kept

UnpinEntry(h) ==
    /\ At(h, "unpin")
    /\ IF closed \/ entry[Target(h)] = Nothing
       THEN Ends(h) /\ UNCHANGED entry
       ELSE Goes(h, "read") /\ entry' = WithoutPin(entry, Target(h))
    /\ UNCHANGED <<sequence, closed>> /\ Kept

\* Mutation: deleting an entry does not rebuild the state.
DeleteEntrySilently(h) ==
    /\ At(h, "delete")
    /\ entry' = IF closed THEN entry ELSE Without(entry, {Target(h)})
    /\ Ends(h)
    /\ UNCHANGED <<sequence, closed>> /\ Kept

DeleteEntry(h) ==
    /\ At(h, "delete")
    /\ IF closed THEN Ends(h) /\ UNCHANGED entry
       ELSE Goes(h, "read") /\ entry' = Without(entry, {Target(h)})
    /\ UNCHANGED <<sequence, closed>> /\ Kept

\* ClearHistory: the unpinned entries; then, if no pinned one is left, compactDB.
ClearHistory(h) ==
    /\ At(h, "clear")
    /\ entry' = Without(entry, Unpinned(entry))
    /\ Goes(h, "count")
    /\ UNCHANGED <<sequence, closed>> /\ Kept

CountToCompact(h) ==
    /\ At(h, "count")
    /\ Goes(h, IF Pinned(entry) = {} THEN "close" ELSE "read")
    /\ ReadOnly

CloseToCompact(h) ==
    /\ At(h, "close")
    /\ closed' = TRUE /\ Goes(h, "open")
    /\ UNCHANGED <<entry, sequence>> /\ Kept

OpenCompacted(h) ==
    /\ At(h, "open")
    /\ closed' = FALSE /\ Goes(h, "read")
    /\ UNCHANGED <<entry, sequence>> /\ Kept

\* updateState: GetHistory, which hands the stale entries to a goroutine ...
ReadHistory(h) ==
    /\ At(h, "read")
    /\ Becomes(h, [Idle EXCEPT !.pc = "publish", !.seen = IF closed THEN @ ELSE History(entry)])
    /\ sweeps' = IF closed \/ Stale(entry) = {} THEN sweeps ELSE sweeps \cup {Stale(entry)}
    /\ overtaken' = overtaken \ {h}
    /\ UNCHANGED <<entry, sequence, closed, autoClear, clearAtStartup, published, lagging,
                   served>>

\* ... and the state stored under the lock.
PublishHistory(h) ==
    /\ At(h, "publish")
    /\ published' = serving[h].seen
    /\ lagging' = (h \in overtaken)
    /\ overtaken' = {g \in Handlers \ {h} : At(g, "publish")}
    /\ Ends(h)
    /\ UNCHANGED <<entry, sequence, closed, autoClear, clearAtStartup, sweeps, served>>

DeleteStaleEntries(ids) ==
    /\ ids \in sweeps
    /\ sweeps' = sweeps \ {ids}
    /\ entry' = IF closed THEN entry ELSE Without(entry, ids)
    /\ UNCHANGED <<sequence, closed, autoClear, clearAtStartup, serving, published, overtaken,
                   lagging, served>>

\* An entry passes the age of autoClearDays.
Age(i) ==
    /\ autoClear /\ i \in Stored(entry) /\ ~entry[i].old
    /\ served < MaxRequestsServed   \* bound MaxRequestsServed
    /\ served' = served + 1
    /\ entry' = [entry EXCEPT ![i].old = TRUE]
    /\ UNCHANGED <<sequence, closed, autoClear, clearAtStartup, serving, sweeps, published,
                   overtaken, lagging>>

\* The daemon dies and starts again: NewManager clears what it is told to and publishes.
Restart ==
    /\ served < MaxRequestsServed   \* bound MaxRequestsServed
    /\ served' = served + 1
    /\ LET kept == IF clearAtStartup THEN [i \in Ids |-> Nothing]
                   ELSE Without(entry, Stale(entry) \cap Unpinned(entry))
       IN  /\ entry' = kept
           /\ published' = History(kept)
           /\ sweeps' = IF Stale(kept) = {} THEN {} ELSE {Stale(kept)}
    /\ sequence' = IF clearAtStartup THEN 0 ELSE sequence
    /\ closed' = FALSE /\ overtaken' = {} /\ lagging' = FALSE
    /\ serving' = [h \in Handlers |-> Idle]
    /\ UNCHANGED <<autoClear, clearAtStartup>>

ServeStep(h) ==
    \/ StoreEntry(h) \/ GetToCopy(h) \/ GetToTouch(h)
    \/ GetToPin(h) \/ LookForPinnedTwin(h) \/ CountPinned(h) \/ PutPinned(h)
    \/ UnpinEntry(h) \/ DeleteEntry(h)
    \/ ClearHistory(h) \/ CountToCompact(h) \/ CloseToCompact(h) \/ OpenCompacted(h)
    \/ ReadHistory(h) \/ PublishHistory(h)

ClipInit ==
    /\ entry = [i \in Ids |-> Nothing] /\ sequence = 0 /\ closed = FALSE
    /\ autoClear \in BOOLEAN /\ clearAtStartup \in BOOLEAN
    /\ serving = [h \in Handlers |-> Idle] /\ sweeps = {}
    /\ published = [ids |-> {}, pins |-> {}] /\ overtaken = {} /\ lagging = FALSE
    /\ served = 0

ClipNext ==
    \/ \E h \in Handlers : Request(h) \/ ServeStep(h)
    \/ \E ids \in SUBSET Ids : DeleteStaleEntries(ids)
    \/ \E i \in Ids : Age(i)
    \/ Restart

ClipSpec == ClipInit /\ [][ClipNext]_clipVars
-----------------------------------------------------------------------------
ClipTypeOK ==
    /\ entry \in [Ids -> [data : Contents \cup {NoContent}, pinned : BOOLEAN, old : BOOLEAN]]
    /\ sequence \in 0..MaxIds /\ Stored(entry) \subseteq 1..sequence
    /\ closed \in BOOLEAN /\ autoClear \in BOOLEAN /\ clearAtStartup \in BOOLEAN
    /\ serving \in [Handlers ->
          [pc : {"idle", "store", "copy", "touch", "pin", "pinTwins", "pinCount", "pinPut",
                 "unpin", "delete", "clear", "count", "close", "open", "read", "publish"},
           id : Ids \cup {0}, data : Contents \cup {NoContent}, pinned : BOOLEAN,
           seen : [ids : SUBSET Ids, pins : SUBSET Ids]]]
    /\ sweeps \subseteq SUBSET Ids

\* Safety: no content is twice in the history unpinned, whatever stores, pins, unpins
\* and copies of it run at the same time.
UnpinnedUnique == \A i, j \in Unpinned(entry) : entry[i].data = entry[j].data => i = j

\* Safety: when no request is running the published history is the stored one (entries
\* that are too old may be missing), unless what was published last had been read before
\* something that was published already.
PublishedIsCurrent ==
    (\A h \in Handlers : At(h, "idle")) /\ ~lagging =>
        \A i \in Ids \ Stale(entry) :
            /\ i \in published.ids <=> i \in Stored(entry)
            /\ i \in published.pins <=> i \in Pinned(entry)

\* Action: a content leaves the history only because someone deleted that entry or cleared
\* the history, because it was too old, because MaxHistory unpinned entries are newer, or
\* at a restart; never by pinning, unpinning, copying or storing it again.
ContentKept ==
    [][\A d \in Contents : SameContent(entry, d) # {} /\ SameContent(entry', d) = {} =>
          \/ \E h \in Handlers : DeleteEntry(h) \/ ClearHistory(h)
          \/ \E ids \in sweeps : DeleteStaleEntries(ids)
          \/ Restart
          \/ /\ SameContent(entry, d) \cap Pinned(entry) = {}
             /\ Cardinality(Unpinned(entry')) = MaxHistory]_clipVars

\* Safety: a sweep still running names only entries that are gone or still too old, however
\* long ago it was started: what has been copied again since is safe from it.
SweepsAreStale ==
    \A ids \in sweeps : \A i \in ids : entry[i] = Nothing \/ entry[i].old

\* Promised by the settings page, "Maximum number of entries that can be saved": never
\* more pinned entries than the limit.
PinnedWithinLimit == Cardinality(Pinned(entry)) <= MaxPinned
=============================================================================
