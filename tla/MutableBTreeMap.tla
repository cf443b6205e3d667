-------------------------- MODULE MutableBTreeMap ---------------------------
(***************************************************************************)
(* MutableBTreeMap (src/signal_map.rs): a BTreeMap under a RwLock and the  *)
(* senders of its signals.  A receiver gets MapDiffs through an unbounded  *)
(* queue and is read in one of five ways: as it is ("map"), through        *)
(* map_value, as the SignalVec of the sorted keys ("keys") or entries      *)
(* ("entries"), or as the Signal of the value at one key ("watch").        *)
(***************************************************************************)
EXTENDS VecDiffs, MapDiffs

CONSTANTS
    Keys,           \* numbers, which stand for any ordered type
    Values,         \* what the map holds
    Receivers,      \* the MutableSignalMaps that may be created
    Kinds,          \* the ways in which they are read
    Image,          \* the callback of map_value
    WatchKey,       \* the watch_key of MapWatchKeySignal
    MaxQueue        \* no operation starts while a queue is longer

ASSUME KeysAssumption == Keys \subseteq Int /\ WatchKey \in Keys
ASSUME KindsAssumption == Kinds \subseteq {"map", "map_value", "keys", "entries", "watch"}
ASSUME MaxQueueAssumption == MaxQueue \in Nat

VARIABLES
    kind,           \* how the receivers are read, chosen at the start
    values,         \* MutableBTreeState.values
    senders,        \* whose senders MutableBTreeState.senders holds
    queue,          \* the mpsc queue of each receiver
    status,         \* of each receiver
    keys,           \* the keys field of a reader of keys or entries
    changed,        \* the value a reader of one key is about to return
    first,          \* MapWatchKeySignal.first
    view,           \* what the owner made of the diffs or values it got
    handle          \* the MutableBTreeMap or a clone of it exists

reader == <<status, keys, changed, first, view>>
vars == <<values, senders, queue, reader, handle>>

\* The entries the map may have.
Contents == Maps(Keys, Values)

\* Option: None and Some.
None == <<>>
Some(x) == <<x>>

Lookup(m, k)  == IF k \in DOMAIN m THEN Some(m[k]) ELSE None

SortedKeys(m) == Ascending(DOMAIN m)

Init ==
    /\ kind \in Kinds
    /\ values \in Contents
    /\ senders = {}
    /\ queue = [r \in Receivers |-> <<>>]
    /\ status = [r \in Receivers |-> "new"]
    /\ keys = [r \in Receivers |-> <<>>]
    /\ changed = [r \in Receivers |-> None]
    /\ first = [r \in Receivers |-> TRUE]
    /\ view = [r \in Receivers |->
                  CASE kind \in {"map", "map_value"} -> EmptyMap
                    [] kind = "watch" -> None
                    [] OTHER -> <<>>]
    /\ handle = TRUE

Open(r) == status[r] = "open"

-----------------------------------------------------------------------------
(* The operations of MutableBTreeMapLockMut, each under the write lock.    *)

\* notify and notify_clone: one diff to each sender, and the senders whose
\* receiver is gone are dropped.
Notify(d) ==
    /\ senders' = {r \in senders : Open(r)}
    /\ queue' = [r \in Receivers |->
                    IF r \in senders /\ Open(r) THEN Append(queue[r], d)
                                                ELSE queue[r]]

\* Slip: an entry that is there is sent as inserted.
InsertOp_NeverUpdate(k, v) ==
    /\ values' = Bind(values, k, v)
    /\ Notify(InsertKey(k, v))

\* insert, insert_cloned: an entry that is there is updated.
InsertOp(k, v) ==
    /\ values' = Bind(values, k, v)
    /\ Notify(IF k \in DOMAIN values THEN UpdateKey(k, v) ELSE InsertKey(k, v))

\* remove: silent if the key is not there.
RemoveOp(k) ==
    IF k \in DOMAIN values
    THEN values' = Without(values, k) /\ Notify(RemoveKey(k))
    ELSE UNCHANGED <<values, senders, queue>>

\* replace, replace_cloned: tells the receivers even when nothing changed.
ReplaceOp(m) ==
    /\ values' = m
    /\ Notify(ReplaceMap(m))

\* clear: silent if the map is empty.
ClearOp ==
    IF DOMAIN values # {}
    THEN values' = EmptyMap /\ Notify(ClearMap)
    ELSE UNCHANGED <<values, senders, queue>>

Operation ==
    /\ handle
    /\ \A r \in Receivers : Len(queue[r]) <= MaxQueue
    /\ \/ \E k \in Keys, v \in Values : InsertOp(k, v)
       \/ \E k \in Keys : RemoveOp(k)
       \/ \E m \in Contents : ReplaceOp(m)
       \/ ClearOp
    /\ UNCHANGED <<reader, handle>>

\* Slip: the sender is dropped instead of being kept.
SignalMap_NotListed(r) ==
    /\ handle
    /\ status[r] = "new"
    /\ status' = [status EXCEPT ![r] = "open"]
    /\ queue' = [queue EXCEPT ![r] =
                    IF DOMAIN values = {} THEN @ ELSE <<ReplaceMap(values)>>]
    /\ UNCHANGED <<senders, values, keys, changed, first, view, handle>>

\* signal_map: the entries, unless there are none, come first.
SignalMap(r) ==
    /\ handle
    /\ status[r] = "new"
    /\ status' = [status EXCEPT ![r] = "open"]
    /\ queue' = [queue EXCEPT ![r] =
                    IF DOMAIN values = {} THEN @ ELSE <<ReplaceMap(values)>>]
    /\ senders' = senders \cup {r}
    /\ UNCHANGED <<values, keys, changed, first, view, handle>>

\* The last MutableBTreeMap is dropped, and with the state every sender.
DropMap ==
    /\ handle
    /\ handle' = FALSE
    /\ senders' = {}
    /\ UNCHANGED <<values, queue, reader>>

-----------------------------------------------------------------------------
(* The readers.                                                            *)

\* binary_search in sorted keys: the index of k, or where it belongs.
SearchKey(ks, k) == Cardinality({i \in DOMAIN ks : ks[i] < k})

\* keys after d: what keys and entries have in common.
NextKeys(ks, d) ==
    CASE d.op = "Replace" -> SortedKeys(d.entries)
      [] d.op = "Insert" -> VecInsert(ks, SearchKey(ks, d.key), d.key)
      [] d.op = "Update" -> ks
      [] d.op = "Remove" -> VecRemove(ks, SearchKey(ks, d.key))
      [] d.op = "Clear" -> <<>>

\* The VecDiff that keys returns for d, unless d is an Update.
KeyDiff(ks, d) ==
    CASE d.op = "Replace" -> ReplaceDiff(SortedKeys(d.entries))
      [] d.op = "Insert" -> InsertDiff(SearchKey(ks, d.key), d.key)
      [] d.op = "Remove" -> RemoveDiff(SearchKey(ks, d.key))
      [] d.op = "Clear" -> ClearDiff

Entries(m) ==
    LET ks == SortedKeys(m) IN [i \in DOMAIN ks |-> <<ks[i], m[ks[i]]>>]

\* The one that entries returns.
EntryDiff(ks, d) ==
    CASE d.op = "Replace" -> ReplaceDiff(Entries(d.entries))
      [] d.op = "Insert" ->
            InsertDiff(SearchKey(ks, d.key), <<d.key, d.value>>)
      [] d.op = "Update" ->
            UpdateDiff(SearchKey(ks, d.key), <<d.key, d.value>>)
      [] d.op = "Remove" -> RemoveDiff(SearchKey(ks, d.key))
      [] d.op = "Clear" -> ClearDiff

\* What MapWatchKeySignal is about to return, or None.
WatchChange(old, d) ==
    CASE d.op = "Replace" -> Some(Lookup(d.entries, WatchKey))
      [] d.op \in {"Insert", "Update"} ->
            IF d.key = WatchKey THEN Some(Some(d.value)) ELSE old
      [] d.op = "Remove" -> IF d.key = WatchKey THEN Some(None) ELSE old
      [] d.op = "Clear" -> Some(None)

\* A reader takes one diff.
PollDiff(r) ==
    LET d == Head(queue[r])
    IN  /\ Open(r)
        /\ queue[r] # <<>>
        /\ queue' = [queue EXCEPT ![r] = Tail(@)]
        /\ \/ /\ kind = "map"
              /\ view' = [view EXCEPT ![r] = ApplyMap(d, @)]
              /\ UNCHANGED <<keys, changed>>
           \/ /\ kind = "map_value"
              /\ view' = [view EXCEPT ![r] = ApplyMap(MapMapDiff(d, Image), @)]
              /\ UNCHANGED <<keys, changed>>
           \/ /\ kind = "keys"
              /\ keys' = [keys EXCEPT ![r] = NextKeys(@, d)]
              /\ view' = [view EXCEPT ![r] =
                             IF d.op = "Update" THEN @
                             ELSE Apply(KeyDiff(keys[r], d), @)]
              /\ UNCHANGED changed
           \/ /\ kind = "entries"
              /\ keys' = [keys EXCEPT ![r] = NextKeys(@, d)]
              /\ view' = [view EXCEPT ![r] = Apply(EntryDiff(keys[r], d), @)]
              /\ UNCHANGED changed
           \/ /\ kind = "watch"
              /\ changed' = [changed EXCEPT ![r] = WatchChange(@, d)]
              /\ UNCHANGED <<keys, view>>
        /\ UNCHANGED <<values, senders, status, first, handle>>

\* MapWatchKeySignal has taken every diff: it returns what changed, and None
\* the first time if the key is not there.
PollWatch(r) ==
    /\ Open(r) /\ kind = "watch" /\ queue[r] = <<>>
    /\ changed[r] # None \/ first[r]
    /\ view' = [view EXCEPT ![r] =
                   IF changed[r] # None THEN changed[r] ELSE Some(None)]
    /\ changed' = [changed EXCEPT ![r] = None]
    /\ first' = [first EXCEPT ![r] = FALSE]
    /\ UNCHANGED <<values, senders, queue, status, keys, handle>>

\* A poll finds nothing: the reader owes its owner nothing.
Quiet(r) ==
    /\ Open(r) /\ queue[r] = <<>>
    /\ kind = "watch" => changed[r] = None /\ ~first[r]

\* No sender is left: the poll returns None.
PollEnd(r) ==
    /\ Quiet(r)
    /\ r \notin senders
    /\ status' = [status EXCEPT ![r] = "ended"]
    /\ UNCHANGED <<values, senders, queue, keys, changed, first, view, handle>>

\* The owner drops the reader, and the queue with it.
DropReader(r) ==
    /\ Open(r)
    /\ status' = [status EXCEPT ![r] = "dropped"]
    /\ queue' = [queue EXCEPT ![r] = <<>>]
    /\ UNCHANGED <<values, senders, keys, changed, first, view, handle>>

Step ==
    \/ Operation
    \/ DropMap
    \/ \E r \in Receivers :
          SignalMap(r) \/ PollDiff(r) \/ PollWatch(r) \/ PollEnd(r) \/ DropReader(r)

Next == Step /\ UNCHANGED kind

Spec == Init /\ [][Next]_<<kind, vars>>

-----------------------------------------------------------------------------
(* Properties.                                                             *)

\* Every variable has its type, and the senders are those of the readers that
\* the map still knows.
TypeOK ==
    /\ kind \in Kinds
    /\ values \in Contents
    /\ senders \subseteq Receivers
    /\ handle \in BOOLEAN
    /\ \A r \in Receivers :
          /\ status[r] \in {"new", "open", "dropped", "ended"}
          /\ first[r] \in BOOLEAN
          /\ ~Open(r) => queue[r] = <<>>
          /\ handle /\ Open(r) => r \in senders
          /\ ~handle \/ status[r] = "new" => r \notin senders

\* No reader panics on the next diff: an inserted key is not among the keys
\* it knows, an updated or removed one is.
DiffsFit ==
    \A r \in Receivers :
        /\ keys[r] = Ascending(ToSet(keys[r]))
        /\ queue[r] # <<>> /\ kind \in {"keys", "entries"} =>
              LET d == Head(queue[r])
              IN  /\ d.op = "Insert" => d.key \notin ToSet(keys[r])
                  /\ d.op \in {"Update", "Remove"} => d.key \in ToSet(keys[r])

\* What a reader is to show for the contents m.
Shows(r, m) ==
    CASE kind = "map" -> view[r] = m
      [] kind = "map_value" -> view[r] = [k \in DOMAIN m |-> Image[m[k]]]
      [] kind = "keys" -> view[r] = SortedKeys(m)
      [] kind = "entries" -> view[r] = Entries(m)
      [] kind = "watch" -> view[r] = Some(Lookup(m, WatchKey))

\* A reader that has taken every diff shows the map, the mapped values, its
\* sorted keys or entries, or the value at its key; and so does one that has
\* ended.  None panics on the way.
ReadersAgree ==
    /\ DiffsFit
    /\ \A r \in Receivers : Quiet(r) \/ status[r] = "ended" => Shows(r, values)

-----------------------------------------------------------------------------
(* What the proofs need.                                                   *)

Diffs ==
    {ReplaceMap(m) : m \in Contents}
    \cup {InsertKey(k, v) : k \in Keys, v \in Values}
    \cup {UpdateKey(k, v) : k \in Keys, v \in Values}
    \cup {RemoveKey(k) : k \in Keys}
    \cup {ClearMap}

\* The diffs of q, applied one after the other, lead from one map to another,
\* and each fits the map it is applied to.
Leads(q, from, to) ==
    \E c \in [1..(Len(q) + 1) -> Contents] :
        /\ c[1] = from
        /\ c[Len(q) + 1] = to
        /\ \A i \in 1..Len(q) :
              ApplicableMap(q[i], c[i]) /\ c[i + 1] = ApplyMap(q[i], c[i])

\* What a reader of one key holds once it has been told the contents m: the
\* value it is about to return, or the one it has returned, or neither if it
\* has not been polled to the end and there is none.
Watches(r, m) ==
    IF changed[r] # None THEN changed[r] = Some(Lookup(m, WatchKey))
    ELSE IF first[r] THEN WatchKey \notin DOMAIN m
    ELSE view[r] = Some(Lookup(m, WatchKey))

\* What a reader holds once it has been told the contents m.
Knows(r, m) ==
    /\ kind \in {"keys", "entries"} => keys[r] = SortedKeys(m)
    /\ IF kind = "watch" THEN Watches(r, m) ELSE Shows(r, m)

\* The variables of the readers.
Reading ==
    /\ senders \subseteq Receivers
    /\ status \in [Receivers -> {"new", "open", "dropped", "ended"}]
    /\ queue \in [Receivers -> Seq(Diffs)]
    /\ first \in [Receivers -> BOOLEAN]
    /\ DOMAIN keys = Receivers /\ DOMAIN changed = Receivers
    /\ DOMAIN view = Receivers

\* What the status of a reader says of the rest: an open one holds what it was
\* told up to some contents, from which the diffs in its queue lead to those
\* of the map.
Informed(r) ==
    /\ \E D \in SUBSET Keys : IsFiniteSet(D) /\ keys[r] = Ascending(D)
    /\ ~Open(r) => queue[r] = <<>>
    /\ handle /\ Open(r) => r \in senders
    /\ ~handle \/ status[r] = "new" => r \notin senders
    /\ status[r] = "new" => Knows(r, EmptyMap)
    /\ Open(r) => \E m \in Contents : Knows(r, m) /\ Leads(queue[r], m, values)
    /\ status[r] = "ended" => ~handle /\ Shows(r, values)

\* The strengthened invariant.
IInv ==
    /\ kind \in Kinds
    /\ values \in Contents
    /\ handle \in BOOLEAN
    /\ Reading
    /\ \A r \in Receivers : Informed(r)
=============================================================================
