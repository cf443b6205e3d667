--------------------------- MODULE SignalChannel ---------------------------
(***************************************************************************)
(* channel() and its Sender and Receiver (src/signal/channel.rs): a value  *)
(* cell, a waker cell (both AtomicOption, src/atomic.rs) and a count of    *)
(* senders, touched by nothing but atomic operations.  Every load, store,  *)
(* swap, fetch_add and fetch_sub is a step of its own.                     *)
(*                                                                         *)
(* Values are known by the order in which send stored them.                *)
(***************************************************************************)
EXTENDS Naturals, FiniteSets

CONSTANTS
    Senders,        \* the Sender handles that ever exist
    MaxSent,        \* bound: nothing is sent after this version
    UsizeModulus,   \* 2^w: senders is a usize and wraps around
    Modes           \* the ways of using the channel that are explored

ASSUME SendersAssumption == IsFiniteSet(Senders) /\ Senders # {}
ASSUME ModulusAssumption ==
    UsizeModulus \in Nat /\ UsizeModulus > Cardinality(Senders)
ASSUME ModesAssumption == Modes \subseteq {"single", "threads"}

VARIABLES
    mode,       \* chosen at the start, see below
    value,      \* Inner.value: a version, 0 for None
    waker,      \* Inner.waker holds a waker
    senders,    \* Inner.senders
    sent,       \* history: the last version that was stored
    closed,     \* history: a call of close has stored 0
    overtaken,  \* history: the kinds of calls that a close overtook
    call,       \* call[i]: life of a Sender and where its running call is
    receiver,   \* where the Receiver's poll_change is
    woken,      \* the receiving task will poll again
    seen        \* last version that was received, 0 for none

receiverVars == <<receiver, woken, seen>>
history == <<closed, overtaken>>
vars == <<value, waker, senders, sent, history, call, receiverVars>>

Gone == {"none", "dropped"}
Calls == Gone \cup {"idle", "send", "close", "clone", "drop", "notify",
                    "dropNotify"}
ReceiverSteps == {"idle", "senders", "waker", "done", "dropped"}

\* channel(initial_value); the task polls as soon as it is spawned.
Init ==
    /\ mode \in Modes
    /\ value = 1
    /\ waker = FALSE
    /\ senders = 1
    /\ sent = 1
    /\ closed = FALSE
    /\ overtaken = {}
    /\ \E i \in Senders :
           call = [j \in Senders |-> IF j = i THEN "idle" ELSE "none"]
    /\ receiver = "idle"
    /\ woken = TRUE
    /\ seen = 0

-----------------------------------------------------------------------------

\* "single": on one thread a call starts only when none is under way.
\* "threads": calls of several threads overlap, close among them.
MayStart ==
    \/ mode = "threads"
    \/ /\ \A i \in Senders : call[i] \in Gone \cup {"idle"}
       /\ receiver \notin {"senders", "waker"}

Goto(i, step) == call' = [call EXCEPT ![i] = step]

\* A call that found the channel open is under way; it holds an Arc.
Busy(i) == call[i] \notin Gone \cup {"idle"}

\* The Weak can be upgraded while the Receiver or such a call has the Arc.
Alive == receiver # "dropped" \/ \E i \in Senders : Busy(i)

\* The Weak is upgraded, and has_senders is true.
Open == Alive /\ senders # 0

\* A call of Sender i starts: what it does if the channel is open, and where
\* it leaves the handle if it is not.
Start(i, step, otherwise) ==
    /\ MayStart
    /\ call[i] = "idle"
    /\ Goto(i, IF Open THEN step ELSE otherwise)
    /\ UNCHANGED <<value, waker, senders, sent, history, receiverVars>>

\* send: nothing is stored, and the value handed back, if the channel is not
\* open.
Send(i) == sent < MaxSent /\ Start(i, "send", "idle")

Close(i) == Start(i, "close", "idle")

Drop(i) == Start(i, "drop", "dropped")

\* Slip: nobody is notified of the value.
SendStore_Silent(i) ==
    /\ call[i] = "send"
    /\ sent' = sent + 1
    /\ value' = sent'
    /\ Goto(i, "idle")
    /\ UNCHANGED <<waker, senders, history, receiverVars>>

\* value.store(Some(value)) replaces a value that was not received yet.
SendStore(i) ==
    /\ call[i] = "send"
    /\ sent' = sent + 1
    /\ value' = sent'
    /\ Goto(i, "notify")
    /\ UNCHANGED <<waker, senders, history, receiverVars>>

\* The calls of others that passed has_senders, and have still to store a value
\* or to change the count.
Pending(i) ==
    {call[j] : j \in Senders \ {i}} \cap {"send", "clone", "drop"}

\* remove_all_senders: the count is 0 whatever calls are pending.
CloseStore(i) ==
    /\ call[i] = "close"
    /\ senders' = 0
    /\ closed' = TRUE
    /\ overtaken' = overtaken \cup Pending(i)
    /\ Goto(i, "notify")
    /\ UNCHANGED <<value, waker, sent, receiverVars>>

\* remove_sender: fetch_sub wraps around; only the drop that took the count
\* from 1 to 0 goes on to notify.
DropSub(i) ==
    /\ call[i] = "drop"
    /\ senders' = (senders + UsizeModulus - 1) % UsizeModulus
    /\ Goto(i, IF senders = 1 THEN "dropNotify" ELSE "dropped")
    /\ UNCHANGED <<value, waker, sent, history, receiverVars>>

\* Inner::notify: the waker is taken and, if there is one, the task woken.
Notify(i) ==
    /\ call[i] \in {"notify", "dropNotify"}
    /\ waker' = FALSE
    /\ woken' = (woken \/ waker)
    /\ Goto(i, IF call[i] = "notify" THEN "idle" ELSE "dropped")
    /\ UNCHANGED <<value, senders, sent, history, receiver, seen>>

\* Clone: a clone of a channel that is not open is not counted.
Clone(i, new) ==
    /\ MayStart
    /\ call[i] = "idle"
    /\ call[new] = "none"
    /\ call' = IF Open THEN [call EXCEPT ![i] = "clone"]
                       ELSE [call EXCEPT ![new] = "idle"]
    /\ UNCHANGED <<value, waker, senders, sent, history, receiverVars>>

\* Slip: a clone is not counted.
CloneAdd_NotCounted(i, new) ==
    /\ call[i] = "clone"
    /\ call[new] = "none"
    /\ call' = [call EXCEPT ![i] = "idle", ![new] = "idle"]
    /\ UNCHANGED <<value, waker, senders, sent, history, receiverVars>>

\* add_sender, and the clone exists.
CloneAdd(i, new) ==
    /\ call[i] = "clone"
    /\ call[new] = "none"
    /\ senders' = (senders + 1) % UsizeModulus
    /\ call' = [call EXCEPT ![i] = "idle", ![new] = "idle"]
    /\ UNCHANGED <<value, waker, sent, history, receiverVars>>

-----------------------------------------------------------------------------

\* poll_change takes the value.  Ready(Some) leaves no waker behind, and the
\* consumers of the crate then poll again.
PollTake ==
    /\ MayStart
    /\ receiver = "idle"
    /\ value' = 0
    /\ \/ /\ value # 0
          /\ seen' = value
          /\ woken' = TRUE
          /\ UNCHANGED receiver
       \/ /\ value = 0
          /\ woken' = FALSE
          /\ receiver' = "senders"
          /\ UNCHANGED seen
    /\ UNCHANGED <<waker, senders, sent, history, call>>

\* Slip: the receiver ends while one sender is left.
PollSenders_OneLeft ==
    /\ receiver = "senders"
    /\ receiver' = IF senders > 1 THEN "waker" ELSE "done"
    /\ UNCHANGED <<value, waker, senders, sent, history, call, woken, seen>>

\* has_senders decides between Pending and Ready(None).
PollSenders ==
    /\ receiver = "senders"
    /\ receiver' = IF senders # 0 THEN "waker" ELSE "done"
    /\ UNCHANGED <<value, waker, senders, sent, history, call, woken, seen>>

\* waker.store, then Pending.
PollStoreWaker ==
    /\ receiver = "waker"
    /\ waker' = TRUE
    /\ receiver' = "idle"
    /\ UNCHANGED <<value, senders, sent, history, call, woken, seen>>

\* The Receiver is dropped: no Weak can be upgraded any more.  Dropping one
\* that ended changes nothing, has_senders being false already.
DropReceiver ==
    /\ MayStart
    /\ receiver = "idle"
    /\ receiver' = "dropped"
    /\ UNCHANGED <<value, waker, senders, sent, history, call, woken, seen>>

SenderStep(i) ==
    \/ SendStore(i)
    \/ CloseStore(i)
    \/ DropSub(i)
    \/ Notify(i)
    \/ \E new \in Senders : CloneAdd(i, new)

PollStep == PollSenders \/ PollStoreWaker

Step ==
    \/ \E i \in Senders :
          \/ Send(i)
          \/ Close(i)
          \/ Drop(i)
          \/ \E new \in Senders : Clone(i, new)
          \/ SenderStep(i)
    \/ PollTake
    \/ PollStep
    \/ DropReceiver

Next == Step /\ UNCHANGED mode

\* Calls that started run to their end, and a woken task is some day polled
\* whatever else the executor runs in between.
Fairness ==
    /\ \A i \in Senders : WF_vars(SenderStep(i))
    /\ WF_vars(PollStep)
    /\ SF_vars(woken /\ PollTake)

Spec == Init /\ [][Next]_<<mode, vars>>

FairSpec == Spec /\ Fairness

-----------------------------------------------------------------------------
(* Properties.                                                             *)

\* No close has overtaken a call that changes the count.
CountKept == overtaken \subseteq {"send"}

\* Every variable has its type, and the count never wraps around, unless a
\* close overtook a clone or drop.
TypeOK ==
    /\ mode \in Modes
    /\ value \in 0..sent
    /\ waker \in BOOLEAN
    /\ senders \in 0..(UsizeModulus - 1)
    /\ CountKept => senders <= Cardinality(Senders)
    /\ sent \in Nat
    /\ closed \in BOOLEAN
    /\ overtaken \subseteq {"send", "clone", "drop"}
    /\ call \in [Senders -> Calls]
    /\ receiver \in ReceiverSteps
    /\ woken \in BOOLEAN
    /\ seen \in 0..sent

\* The Senders that the count is to count.
Counted == {i \in Senders : call[i] \notin Gone \cup {"dropNotify"}}

\* Until a close, the count is that of the Senders that were not dropped,
\* through clones and drops of all threads.  (Once the Arc is gone, drops no
\* longer reach the count.)  After a close it is 0 for good, unless the close
\* overtook a clone or drop.
SendersCounted ==
    /\ Alive /\ ~closed => senders = Cardinality(Counted)
    /\ closed /\ CountKept => senders = 0

\* The channel as the abstract cell.
Cell == INSTANCE ClosableCell WITH
    Observers <- {"receiver"},
    version <- sent,
    closed <- senders = 0,
    output <- [r \in {"receiver"} |-> seen],
    ended <- [r \in {"receiver"} |-> receiver = "done"]

\* The channel shows the receiver the abstract cell, whatever calls overlap:
\* versions arrive in order, none after the end, and the end comes only while
\* the count is 0.  A value is stored after that, or the count leaves 0, only if
\* a close overtook a send, clone or drop that had passed has_senders: both do
\* happen then.
RefinesCell == Cell!ClosableSpec

\* On one thread the receiver gets the most recent value.
EventuallyLatest ==
    mode = "single" /\ seen # sent ~> seen = sent \/ receiver = "dropped"

\* On one thread, when the senders are dropped or one of them closes, the
\* receiver ends, with the last value that was sent.
EventuallyEnds ==
    /\ mode = "single"
    /\ closed \/ \A i \in Senders : call[i] \in Gone
    ~> receiver = "dropped" \/ (receiver = "done" /\ seen = sent)

\* On one thread no waker, value or end is left behind by a poll.
SingleCatchesUp == EventuallyLatest /\ EventuallyEnds

-----------------------------------------------------------------------------
(* What the proofs need beside the properties: the invariant is inductive. *)

\* The cell holds the last version, or none.
HoldsLatest == value \in {0, sent}

\* The handles that ever existed: the count is never above their number.
Created == {i \in Senders : call[i] # "none"}

CountedBelow == CountKept => senders <= Cardinality(Created)

\* The calls that found the channel open and rely on it.
Relying == {i \in Senders : call[i] \in {"send", "close", "clone", "drop"}}

\* Only a close overtakes, and the calls that still rely on a channel that it
\* closed for good are closes and the calls that were overtaken.
ClosedForGood ==
    /\ ~closed => overtaken = {}
    /\ closed /\ CountKept =>
          \A i \in Relying : call[i] \in overtaken \cup {"close"}

\* On one thread calls do not overlap, and close overtakes none.
OneCall ==
    mode = "single" =>
        /\ \A i \in Senders : Busy(i) =>
              /\ receiver \notin {"senders", "waker"}
              /\ \A j \in Senders : Busy(j) => j = i
        /\ overtaken = {}
        /\ closed => Relying = {}

\* The inductive invariant.
IInv ==
    /\ TypeOK
    /\ SendersCounted
    /\ HoldsLatest
    /\ CountedBelow
    /\ ClosedForGood
    /\ OneCall

\* On one thread a receiver that sleeps has nothing to take and its waker is in
\* place, unless a call is about to wake it or has ended the channel.
Notifying == \E i \in Senders : call[i] \in {"notify", "dropNotify"}

AsleepUpToDate ==
    mode = "single" /\ receiver = "idle" /\ ~woken =>
        /\ waker
        /\ (value # 0 \/ senders = 0) => Notifying

\* On one thread what a poll has found is still so when it stores the waker,
\* and a receiver that ended has the last value.
PollFacts ==
    mode = "single" =>
        /\ receiver \in {"senders", "waker"} => value = 0
        /\ receiver = "waker" => senders # 0
        /\ receiver = "done" => value = 0 /\ senders = 0
        /\ value = 0 => seen = sent

SingleInv == AsleepUpToDate /\ PollFacts
=============================================================================
