----------------------------- MODULE MutableVec -----------------------------
(***************************************************************************)
(* MutableVec (src/signal_vec.rs): a Vec under a RwLock and the senders of *)
(* its MutableSignalVecs.  An operation changes the Vec under the write    *)
(* lock and sends every receiver the VecDiffs that describe the change.    *)
(* The receivers take diffs from their unbounded queues without the lock,  *)
(* also in the middle of an operation that sends several.                  *)
(***************************************************************************)
EXTENDS VecDiffs, FiniteSetsExt

CONSTANTS
    Values,         \* what the Vec holds
    Receivers,      \* the MutableSignalVecs that may be created
    MaxLen,         \* bound on the length of the Vec
    MaxQueue        \* no operation starts while a queue is longer

ASSUME MaxLenAssumption == MaxLen \in Nat
ASSUME MaxQueueAssumption == MaxQueue \in Nat

VARIABLES
    values,         \* MutableVecState.values
    senders,        \* whose senders MutableVecState.senders holds
    queue,          \* the mpsc queue of each receiver
    status,         \* of each receiver
    view,           \* what its owner made of the diffs it received
    loop,           \* the operation that holds the write lock, and its rest
    handle          \* the MutableVec or a clone of it exists

vars == <<values, senders, queue, status, view, loop, handle>>

Free == [op |-> "none"]

\* An owned Vec becomes the contents; there are no receivers yet.
Init ==
    /\ values \in SeqOf(Values, MaxLen)
    /\ senders = {}
    /\ queue = [r \in Receivers |-> <<>>]
    /\ status = [r \in Receivers |-> "new"]
    /\ view = [r \in Receivers |-> <<>>]
    /\ loop = Free
    /\ handle = TRUE

Open(r) == status[r] = "open"

\* Slip: the senders that are kept are those whose send failed.
Notify_KeepsFailed(d) ==
    /\ senders' = {r \in senders : ~Open(r)}
    /\ queue' = [r \in Receivers |->
                    IF r \in senders /\ Open(r) THEN Append(queue[r], d)
                                                ELSE queue[r]]

\* notify and notify_with: one diff to each sender, and the senders whose
\* receiver is gone are dropped.
Notify(d) ==
    /\ senders' = {r \in senders : Open(r)}
    /\ queue' = [r \in Receivers |->
                    IF r \in senders /\ Open(r) THEN Append(queue[r], d)
                                                ELSE queue[r]]

Silent == UNCHANGED <<senders, queue>>

\* An operation starts when it gets the write lock.
Lock ==
    /\ handle
    /\ loop = Free
    /\ \A r \in Receivers : Len(queue[r]) <= MaxQueue

Receiver == <<status, view>>

-----------------------------------------------------------------------------
(* The operations of MutableVecLockMut.                                    *)

\* push_copy, push_clone and every turn of extend.
Push(v) ==
    /\ Len(values) < MaxLen
    /\ values' = Append(values, v)
    /\ Notify(PushDiff(v))

\* pop: silent if there is nothing to pop.
Pop ==
    IF values = <<>> THEN UNCHANGED values /\ Silent
                     ELSE values' = VecPop(values) /\ Notify(PopDiff)

\* insert: at the end it is a push.
InsertOp(i, v) ==
    \/ /\ i = Len(values)
       /\ Push(v)
    \/ /\ i < Len(values)
       /\ Len(values) < MaxLen
       /\ values' = VecInsert(values, i, v)
       /\ Notify(InsertDiff(i, v))

\* set.
Set(i, v) ==
    /\ i < Len(values)
    /\ values' = ReplaceAt(values, i + 1, v)
    /\ Notify(UpdateDiff(i, v))

\* The diff of a removal at index i out of length len.
RemovalDiff(i, len) == IF i = len - 1 THEN PopDiff ELSE RemoveDiff(i)

\* remove: the last element is popped.
RemoveOp(i) ==
    /\ i < Len(values)
    /\ values' = VecRemove(values, i)
    /\ Notify(RemovalDiff(i, Len(values)))

\* move_from_to.
MoveFromTo(old, new) ==
    /\ {old, new} \subseteq 0..(Len(values) - 1)
    /\ IF old = new
       THEN UNCHANGED values /\ Silent
       ELSE values' = VecMove(values, old, new) /\ Notify(MoveDiff(old, new))

\* replace: tells the receivers even when nothing changed.
ReplaceOp(vs) ==
    /\ values' = vs
    /\ Notify(ReplaceDiff(vs))

\* clear.
ClearOp ==
    IF values = <<>> THEN UNCHANGED values /\ Silent
                     ELSE values' = <<>> /\ Notify(ClearDiff)

\* apply_vec_diff, for a diff that apply_to_vec would not panic on.
ApplyVecDiff(d) ==
    CASE d.op = "Replace"  -> ReplaceOp(d.values)
      [] d.op = "InsertAt" -> InsertOp(d.index, d.value)
      [] d.op = "UpdateAt" -> Set(d.index, d.value)
      [] d.op = "RemoveAt" -> RemoveOp(d.index)
      [] d.op = "Move"     -> MoveFromTo(d.old, d.new)
      [] d.op = "Push"     -> Push(d.value)
      [] d.op = "Pop"      -> Pop
      [] d.op = "Clear"    -> ClearOp

\* The operations that send at most one diff.
SimpleOp ==
    /\ Lock
    /\ \/ \E v \in Values : Push(v)
       \/ Pop
       \/ \E i \in 0..MaxLen, v \in Values : InsertOp(i, v) \/ Set(i, v)
       \/ \E i \in 0..MaxLen : RemoveOp(i)
       \/ \E i, j \in 0..MaxLen : MoveFromTo(i, j)
       \/ \E vs \in SeqOf(Values, MaxLen) : ReplaceOp(vs)
       \/ ClearOp
    /\ UNCHANGED <<Receiver, loop, handle>>

\* apply_vec_diff on a MutableVec that mirrors another SignalVec.
ApplyOp ==
    /\ Lock
    /\ \E d \in LegalDiffs(values, Values, MaxLen) : ApplyVecDiff(d)
    /\ UNCHANGED <<Receiver, loop, handle>>

-----------------------------------------------------------------------------
(* The operations that send several diffs: the lock is held until loop is  *)
(* Free again.                                                             *)

\* The rest of a swap, and the contents it is to arrive at.
Swapping(from, to, goal) ==
    [op |-> "swap", from |-> from, to |-> to, goal |-> goal]

Swapped(a, b) ==
    [values EXCEPT ![a + 1] = values[b + 1], ![b + 1] = values[a + 1]]

\* Slip: the second move forgets that the first one shifted the elements.
SwapStart_Unshifted(a, b) ==
    /\ MoveFromTo(a, b)
    /\ loop' = IF a # b THEN Swapping(b, a, Swapped(a, b)) ELSE Free

\* swap: two moves, the second from where the first one left the element.
SwapStart(a, b) ==
    /\ MoveFromTo(a, b)
    /\ loop' = IF a < b THEN Swapping(b - 1, a, Swapped(a, b))
               ELSE IF a > b THEN Swapping(b + 1, a, Swapped(a, b))
               ELSE Free

SwapEnd ==
    /\ loop.op = "swap"
    /\ MoveFromTo(loop.from, loop.to)
    /\ loop' = Free

\* The rest of a reverse.
Reversing(next, goal) == [op |-> "reverse", next |-> next, goal |-> goal]

\* reverse: the last element is moved to every index in turn.
ReverseStart ==
    /\ loop' = IF Len(values) > 1 THEN Reversing(0, Reverse(values)) ELSE Free
    /\ UNCHANGED values
    /\ Silent

ReverseStep ==
    LET end == Len(values) - 1
    IN  /\ loop.op = "reverse"
        /\ MoveFromTo(end, loop.next)
        /\ loop' = IF loop.next + 1 < end
                   THEN Reversing(loop.next + 1, loop.goal)
                   ELSE Free

\* The indexes to be announced, and the Vec they will leave behind.
Removing(indexes, len, rest) ==
    [op |-> "remove", indexes |-> indexes, len |-> len, goal |-> rest]

\* How many of the indexes are below i.
CountBelow(indexes, i) == Cardinality({j \in indexes : j < i})

\* The elements of values whose index, counted from zero, is in keep: before
\* the one that comes to position p there are p - 1 others.
Kept(keep) ==
    [p \in 1..Cardinality(keep) |->
        values[1 + CHOOSE i \in keep : CountBelow(keep, i) = p - 1]]

\* retain: the Vec shrinks at once; the removals are announced from the back.
RetainStart(keep) ==
    LET gone == (0..(Len(values) - 1)) \ keep
        rest == Kept(keep)
    IN  /\ values' = rest
        /\ IF values # <<>> /\ rest = <<>>
           THEN Notify(ClearDiff) /\ loop' = Free
           ELSE /\ Silent
                /\ loop' = IF gone = {} THEN Free
                           ELSE Removing(gone, Len(values), rest)

\* Slip: a drain up to the end is announced as a Clear.
DrainStart_ClearsTail(from, to) ==
    IF from = to THEN UNCHANGED <<values, loop>> /\ Silent
    ELSE IF to = Len(values)
    THEN values' = VecDrain(values, from, to) /\ Notify(ClearDiff)
         /\ UNCHANGED loop
    ELSE /\ loop' = Removing(from..(to - 1), Len(values),
                             VecDrain(values, from, to))
         /\ UNCHANGED values
         /\ Silent

\* drain and truncate, by remove_range: the removals are announced from the
\* back, and then the elements go.
DrainStart(from, to) ==
    IF from = to THEN UNCHANGED <<values, loop>> /\ Silent
    ELSE IF from = 0 /\ to = Len(values)
    THEN values' = <<>> /\ Notify(ClearDiff) /\ UNCHANGED loop
    ELSE /\ loop' = Removing(from..(to - 1), Len(values),
                             VecDrain(values, from, to))
         /\ UNCHANGED values
         /\ Silent

\* Slip: the removals are announced from the front.
RemoveStep_Forward ==
    /\ loop.op = "remove"
    /\ LET i == Min(loop.indexes)
       IN  /\ Notify(RemovalDiff(i, loop.len))
           /\ IF loop.indexes = {i}
              THEN loop' = Free /\ values' = loop.goal
              ELSE /\ loop' = Removing(loop.indexes \ {i}, loop.len - 1,
                                       loop.goal)
                   /\ UNCHANGED values

\* One turn of the loops of retain and remove_range.
RemoveStep ==
    /\ loop.op = "remove"
    /\ LET i == Max(loop.indexes)
       IN  /\ Notify(RemovalDiff(i, loop.len))
           /\ IF loop.indexes = {i}
              THEN loop' = Free /\ values' = loop.goal
              ELSE /\ loop' = Removing(loop.indexes \ {i}, loop.len - 1,
                                       loop.goal)
                   /\ UNCHANGED values

LoopStart ==
    /\ Lock
    /\ \/ \E i, j \in 0..(Len(values) - 1) : SwapStart(i, j)
       \/ ReverseStart
       \/ \E keep \in SUBSET (0..(Len(values) - 1)) : RetainStart(keep)
       \/ \E i, j \in 0..Len(values) : i <= j /\ DrainStart(i, j)
    /\ UNCHANGED <<Receiver, handle>>

LoopStep ==
    /\ SwapEnd \/ ReverseStep \/ RemoveStep
    /\ UNCHANGED <<Receiver, handle>>

-----------------------------------------------------------------------------
(* Receivers and handles.                                                  *)

\* signal_vec, signal_vec_cloned: the contents, unless empty, come first.
SignalVec(r) ==
    /\ Lock
    /\ status[r] = "new"
    /\ status' = [status EXCEPT ![r] = "open"]
    /\ queue' = [queue EXCEPT ![r] =
                    IF values = <<>> THEN @ ELSE <<ReplaceDiff(values)>>]
    /\ senders' = senders \cup {r}
    /\ UNCHANGED <<values, view, loop, handle>>

\* The owner polls, and applies the diff to its copy of the Vec.
PollDiff(r) ==
    /\ Open(r)
    /\ queue[r] # <<>>
    /\ queue' = [queue EXCEPT ![r] = Tail(@)]
    /\ view' = [view EXCEPT ![r] = Apply(Head(queue[r]), @)]
    /\ UNCHANGED <<values, senders, status, loop, handle>>

\* The queue is empty and no sender is left: the poll returns None.
PollEnd(r) ==
    /\ Open(r)
    /\ queue[r] = <<>>
    /\ r \notin senders
    /\ status' = [status EXCEPT ![r] = "ended"]
    /\ UNCHANGED <<values, senders, queue, view, loop, handle>>

\* The owner drops the MutableSignalVec, and the queue with it.
DropReceiver(r) ==
    /\ Open(r)
    /\ status' = [status EXCEPT ![r] = "dropped"]
    /\ queue' = [queue EXCEPT ![r] = <<>>]
    /\ UNCHANGED <<values, senders, view, loop, handle>>

\* The last MutableVec is dropped, and with the state every sender.
DropVec ==
    /\ handle
    /\ loop = Free
    /\ handle' = FALSE
    /\ senders' = {}
    /\ UNCHANGED <<values, queue, status, view, loop>>

Next ==
    \/ SimpleOp
    \/ ApplyOp
    \/ LoopStart
    \/ LoopStep
    \/ DropVec
    \/ \E r \in Receivers :
          SignalVec(r) \/ PollDiff(r) \/ PollEnd(r) \/ DropReceiver(r)

Spec == Init /\ [][Next]_vars

-----------------------------------------------------------------------------
(* Properties.                                                             *)

\* Every variable has its type, and whoever is open is on the list of senders
\* as long as the MutableVec exists: only a dropped receiver is taken off.
TypeOK ==
    /\ values \in SeqOf(Values, MaxLen)
    /\ senders \subseteq Receivers
    /\ \A r \in Receivers :
          /\ status[r] \in {"new", "open", "dropped", "ended"}
          /\ view[r] \in SeqOf(Values, MaxLen)
          /\ status[r] # "open" => queue[r] = <<>>
          /\ handle /\ Open(r) => r \in senders
    /\ loop.op \in {"none", "swap", "reverse", "remove"}
    /\ handle \in BOOLEAN

\* A receiver never gets a diff that panics: whenever it polls, even in the
\* middle of an operation, the next diff's indexes fit what it has built.
DiffsApply ==
    \A r \in Receivers :
        queue[r] # <<>> => Applicable(Head(queue[r]), view[r])

\* A receiver that has taken every diff has exactly the values of the Vec, in
\* the same order, once no operation is under way (src/lib.rs:583); one that
\* ended has its last contents.
ViewsAgree ==
    \A r \in Receivers :
        \/ Open(r) /\ queue[r] = <<>> /\ loop = Free
        \/ status[r] = "ended"
        => view[r] = values

\* swap exchanges two elements and reverse turns the Vec round, whatever Moves
\* they are made of.
LoopsReachGoal ==
    [][loop # Free /\ loop' = Free => values' = loop.goal]_vars

-----------------------------------------------------------------------------
(* What the proofs need.                                                   *)

Contents == SeqOf(Values, MaxLen)

Diffs ==
    {ReplaceDiff(vs) : vs \in Contents}
    \cup {InsertDiff(i, v) : i \in 0..MaxLen, v \in Values}
    \cup {UpdateDiff(i, v) : i \in 0..MaxLen, v \in Values}
    \cup {RemoveDiff(i) : i \in 0..MaxLen}
    \cup {MoveDiff(i, j) : i, j \in 0..MaxLen}
    \cup {PushDiff(v) : v \in Values}
    \cup {PopDiff, ClearDiff}

\* The diffs of q, applied one after the other, lead from one contents to
\* another, and none panics.
Leads(q, from, to) ==
    \E c \in [1..(Len(q) + 1) -> Contents] :
        /\ c[1] = from
        /\ c[Len(q) + 1] = to
        /\ \A i \in 1..Len(q) :
              Applicable(q[i], c[i]) /\ c[i + 1] = Apply(q[i], c[i])

\* Without the indexes in gone, s is rest.
Leaves(s, gone, rest) ==
    /\ gone \subseteq 0..(Len(s) - 1)
    /\ Len(rest) = Len(s) - Cardinality(gone)
    /\ \A i \in (0..(Len(s) - 1)) \ gone :
          rest[i - CountBelow(gone, i) + 1] = s[i + 1]

\* After the first next moves of a reverse those elements are where they
\* should be, and the others follow in their old order.
HalfReversed(s, next, goal) ==
    \A p \in 1..Len(s) :
        s[p] = goal[IF p <= next THEN p ELSE Len(s) + next + 1 - p]

\* What the operation under way has told so far is s, and the rest of it
\* leads from there to its goal.
UnderWay(s) ==
    \/ loop = Free /\ s = values
    \/ \E from, to \in 0..(Len(values) - 1) :
          /\ loop = Swapping(from, to, IF from = to THEN values
                                      ELSE VecMove(values, from, to))
          /\ s = values
    \/ \E next \in 0..(Len(values) - 2), goal \in Contents :
          /\ loop = Reversing(next, goal)
          /\ Len(goal) = Len(values)
          /\ HalfReversed(values, next, goal)
          /\ s = values
    \/ \E indexes \in SUBSET (0..(Len(s) - 1)), goal \in Contents :
          /\ indexes # {}
          /\ loop = Removing(indexes, Len(s), goal)
          /\ Leaves(s, indexes, goal)

\* The receivers, apart from what is in their queues.
Receiving ==
    /\ senders \subseteq Receivers
    /\ view \in [Receivers -> Contents]
    /\ status \in [Receivers -> {"new", "open", "dropped", "ended"}]
    /\ queue \in [Receivers -> Seq(Diffs)]
    /\ \A r \in Receivers :
          /\ status[r] # "open" => queue[r] = <<>>
          /\ handle /\ Open(r) => r \in senders
          /\ status[r] = "new" => view[r] = <<>>

\* What has been told so far amounts to s: so says every queue.
AllLead(s) == \A r \in Receivers : Open(r) => Leads(queue[r], view[r], s)

\* The strengthened invariant: there are contents that every receiver will
\* have built when it has taken the diffs in its queue.
IInv ==
    /\ values \in Contents
    /\ handle \in BOOLEAN
    /\ loop # Free => handle
    /\ Receiving
    /\ \A r \in Receivers : status[r] = "ended" => ~handle /\ view[r] = values
    /\ \E s \in Contents : UnderWay(s) /\ AllLead(s)
=============================================================================
