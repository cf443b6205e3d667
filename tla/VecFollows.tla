----------------------------- MODULE VecFollows -----------------------------
(***************************************************************************)
(* The notions of the proofs about SignalVecs: what it says of an adapter  *)
(* or a combinator that its output follows its inputs.  The invariants of  *)
(* chain and of switch_signal_vec are at the end, with what their theorems *)
(* assume; that of VecAdapters is there in a form with each variable on    *)
(* its own.  The proofs are in VecAdapters_proofs.                         *)
(***************************************************************************)
EXTENDS VecAdapters, VecChain, VecNested

(* What the operations of a Vec make of a sequence, element by element.    *)

\* t is s after Vec::insert, or after Vec::remove.
IsInserted(t, s, i, v) ==
    /\ Len(t) = Len(s) + 1
    /\ \A p \in 1..(Len(s) + 1) :
          t[p] = IF p <= i THEN s[p] ELSE IF p = i + 1 THEN v ELSE s[p - 1]

IsRemoved(t, s, i) ==
    /\ Len(t) = Len(s) - 1
    /\ \A p \in 1..(Len(s) - 1) : t[p] = IF p <= i THEN s[p] ELSE s[p + 1]

\* How many elements of S there are up to n.
UpTo(S, n) == Cardinality({j \in S : j <= n})

-----------------------------------------------------------------------------
(* The adapters, each as a function: map, filter, the signals, enumerate,   *)
(* sort.                                                                   *)

\* The places of the values that keep lets through.
Passing(s, keep) == {i \in DOMAIN s : s[i] \in keep}

\* w has the values of s that keep lets through, each at its place.
Matches(w, s, keep) ==
    /\ Len(w) = Cardinality(Passing(s, keep))
    /\ \A i \in Passing(s, keep) : w[UpTo(Passing(s, keep), i)] = s[i]

\* f of every value.
Over(s, f) == [i \in DOMAIN s |-> f[s[i]]]

\* What filter keeps of the values s.
Flags(s, keep) == [i \in DOMAIN s |-> s[i] \in keep]

\* What filter made of a diff that makes t of s is right.
Filtered(fed, s, t, keep) ==
    /\ fed.st = Flags(t, keep)
    /\ Yields(fed.out, Passed(s, keep), Passed(t, keep))

\* g has the sums of the first values of s.
Sums(g, s) ==
    /\ g \in [0..Len(s) -> Int]
    /\ g[0] = 0
    /\ \A i \in 1..Len(s) : g[i] = g[i - 1] + s[i]

\* Each value with its Mutable.
Pair(x, v) == <<x, v>>

\* o has the values s, each with its Mutable.
IsLabelled(o, m, s) ==
    /\ Len(o) = Len(s)
    /\ \A k \in 1..Len(s) : o[k] = Pair(m[k], s[k])

\* A Mutable and a value are inserted at the same place.
LabelsInserted(m, s, i, x, v) ==
    Labelled(VecInsert(m, i, x), VecInsert(s, i, v))
       = VecInsert(Labelled(m, s), i, Pair(x, v))

\* The Mutables of the n values that are in the output, and what they hold.
Names == 1..(2 * MaxLen)

Held(M, I, n) ==
    /\ n \in 0..MaxLen
    /\ M \in Seq(Names) /\ Len(M) = n
    /\ I \in [Names -> NoIndex..MaxLen]
    /\ \A k \in 1..n : I[M[k]] = k - 1
    /\ \A m \in Names : (\A k \in 1..n : M[k] # m) => I[m] = NoIndex

IsFresh(x, M, n) == x \in Names /\ \A j \in 1..n : M[j] # x

\* The values t are numbered, and the output that was s becomes t.
Enumerated(fed, M, s, t) ==
    /\ Numbered(fed.st, Len(t))
    /\ Yields(fed.out, Labelled(M, s), Labelled(fed.st.mutables, t))

\* Vec::remove and Vec::insert of what was removed.
IsMoved(t, s, old, new) ==
    /\ Len(t) = Len(s)
    /\ \A p \in 1..Len(s) :
          t[p] = IF p = new + 1 THEN s[old + 1]
                 ELSE IF old < p /\ p <= new THEN s[p + 1]
                 ELSE IF new + 1 < p /\ p <= old + 1 THEN s[p - 1]
                 ELSE s[p]

\* The indexes of Rust.
Indexes(s) == 0..(Len(s) - 1)

Ranked(V, rank) == \A v \in V : rank[v] \in Nat

\* The indexes A, each once, in that order.
Sorted(ix, s, rank, A) ==
    /\ ix \in Seq(A)
    /\ \A a \in A : \E p \in 1..Len(ix) : ix[p] = a
    /\ \A p, q \in 1..Len(ix) : p < q => Before(s, rank, ix[p], ix[q])

Earlier(s, rank, i) == {j \in Indexes(s) : Before(s, rank, j, i)}

\* The values in sorted order.
InOrder(s, ix) == [p \in DOMAIN ix |-> s[ix[p] + 1]]

ValueAt(s) == [i \in Indexes(s) |-> s[i + 1]]

\* Indexes that are renamed and stay in the input's order.
Renames(f, s, A, t, B) ==
    /\ \A a \in A : f[a] \in B /\ t[f[a] + 1] = s[a + 1]
    /\ \A a, b \in A : a < b => f[a] < f[b]
    /\ \A b \in B : \E a \in A : f[a] = b

\* binary_search_insert finds the place where an index belongs.
TakesIn(ix, s, rank, A, i, w) ==
    /\ w \in 0..Len(ix)
    /\ Sorted(VecInsert(ix, w, i), s, rank, A \cup {i})
    /\ InOrder(s, VecInsert(ix, w, i)) = VecInsert(InOrder(s, ix), w, s[i + 1])

\* binary_search_remove finds the place where an index is.
GivesUp(ix, s, rank, A, i, w) ==
    /\ w \in 0..(Len(ix) - 1)
    /\ Sorted(VecRemove(ix, w), s, rank, A \ {i})
    /\ InOrder(s, VecRemove(ix, w)) = VecRemove(InOrder(s, ix), w)
    /\ InOrder(s, ix)[w + 1] = s[i + 1]

\* Whatever sort does to its indexes when a value comes,
PutAt(s, ix, rank, v, i, t, iz, w) ==
    /\ w \in 0..Len(ix) /\ Len(iz) = Len(ix)
    /\ Sorted(VecInsert(iz, w, i), t, rank, Indexes(t))
    /\ InOrder(t, VecInsert(iz, w, i)) = VecInsert(InOrder(s, ix), w, v)

\* and when a value goes.
TakenFrom(s, ix, rank, i, t, iz, w) ==
    /\ w \in 0..(Len(ix) - 1)
    /\ Sorted(iz, t, rank, Indexes(t))
    /\ InOrder(t, iz) = VecRemove(InOrder(s, ix), w)
    /\ InOrder(s, ix)[w + 1] = s[i + 1]

\* The indexes are those of t in sorted order, and the output that was s in
\* sorted order becomes t in sorted order.
SortsTo(fed, s, t, rank) ==
    /\ fed.st = SortState(t, SortedIndexes(t, rank))
    /\ Yields(fed.out, InOrder(s, SortedIndexes(s, rank)),
              InOrder(t, SortedIndexes(t, rank)))

-----------------------------------------------------------------------------
(* The invariant of VecAdapters, with each variable on its own.            *)

ContentsOf(a) == SeqOf(Values[a], MaxLen)

DiffsOf(a, s) == {d \in LegalDiffs(s, Values[a], MaxLen) :
                    a = "filter" /\ d.op = "Move" => Moves}

AllDiffs(a) == UNION {DiffsOf(a, s) : s \in ContentsOf(a)}

\* The diffs q are sent one after the other and make to of from.
LeadsOf(a, q, from, to) ==
    \E c \in [1..(Len(q) + 1) -> ContentsOf(a)] :
        /\ c[1] = from
        /\ c[Len(q) + 1] = to
        /\ \A i \in 1..Len(q) :
              q[i] \in DiffsOf(a, c[i]) /\ c[i + 1] = Apply(q[i], c[i])

\* What the invariant says of the input and the queue.
InputOf(a, s, t, q) ==
    /\ {s, t} \subseteq ContentsOf(a)
    /\ q \in Seq(AllDiffs(a))
    /\ Len(q) <= MaxQueue
    /\ LeadsOf(a, q, t, s)

\* What the output has to be, before and after a step.
ExpectedOf(a, s) ==
    CASE a = "map" -> Over(s, Image)
      [] a = "filter" -> Passed(s, Keep)
      [] a = "sort" -> InOrder(s, SortedIndexes(s, Rank))
      [] a = "enumerate" -> [i \in DOMAIN s |-> <<i - 1, s[i]>>]
      [] a \in Signals -> Value(a, s)

\* The invariant's part about the adapter.
ValuedOf(a, e, s, o, w, c) ==
    /\ o = <<>>
    /\ e = [values |-> s, changed |-> e.changed, first |-> e.first,
            old |-> e.old]
    /\ {e.changed, e.first} \subseteq BOOLEAN
    /\ ~e.first /\ ~e.changed => w = Value(a, s)
    /\ a = "is_empty" => e.old = IF e.first THEN NoValue ELSE w
    /\ c \in {"idle", "done"} => ~e.changed
    /\ c = "done" => ~e.first

FollowingOf(a, e, s, o, w, c) ==
    /\ a = "map" => e = <<>>
    /\ a = "filter" => e = Flags(s, Keep)
    /\ a = "sort" => e = SortState(s, SortedIndexes(s, Rank))
    /\ a \in {"map", "filter", "sort"} => Yields(o, w, ExpectedOf(a, s))
    /\ a = "enumerate" =>
          Numbered(e, Len(s)) /\ Yields(o, w, Labelled(e.mutables, s))
    /\ a \in Signals => ValuedOf(a, e, s, o, w, c)

\* A turn of the adapter's loop.
FeedOf(a, e, d) ==
    CASE a = "map" -> Fed(<<>>, <<MapVecDiff(d, Image)>>)
      [] a = "filter" -> FilterFeed(e, d, Keep)
      [] a = "sort" -> SortFeed(e, d, Rank)
      [] a = "enumerate" -> EnumerateFeed(e, d)
      [] a \in Signals -> ValueFeed(a, e, d)

\* With filter the input sends no Move: the code is wrong for it.
NoFilteredMoves == "filter" \in Adapters => ~Moves

\* What a step starts from, and what it has to show.
Parts ==
    /\ adapter \in Adapters
    /\ InputOf(adapter, contents, seen, queue)
    /\ {closed, registered, woken} \subseteq BOOLEAN
    /\ pc \in {"idle", "polling", "done"}
    /\ FollowingOf(adapter, st, seen, out, view, pc)

\* The values that enumerate put out, each with the index it shows.
ShownOf(e, w) == [i \in DOMAIN w |-> <<e.index[w[i][1]], w[i][2]>>]

-----------------------------------------------------------------------------
(* Combinators of several inputs: a part in the middle of the output, the   *)
(* diffs that wait, the inputs.                                            *)

Mid(a, s, b) == (a \o s) \o b

\* w has the elements of a, then those of s, then those of b.
IsMid(w, a, s, b) ==
    /\ Len(w) = Len(a) + Len(s) + Len(b)
    /\ \A p \in 1..Len(a) : w[p] = a[p]
    /\ \A p \in 1..Len(s) : w[Len(a) + p] = s[p]
    /\ \A p \in 1..Len(b) : w[Len(a) + Len(s) + p] = b[p]

VecUpdate(s, i, v) == ReplaceAt(s, i + 1, v)

\* Vec::push; Append is left unexpanded.
With(s, v) == Append(s, v)

After(a, s) == a \o s

\* The diffs of values in V, wherever they fit.
DiffsOver(V) ==
    {ReplaceDiff(vs) : vs \in Seq(V)}
    \cup {InsertDiff(i, v) : i \in Nat, v \in V}
    \cup {UpdateDiff(i, v) : i \in Nat, v \in V}
    \cup {RemoveDiff(i) : i \in Nat}
    \cup {MoveDiff(i, j) : i, j \in Nat}
    \cup {PushDiff(v) : v \in V}
    \cup {PopDiff, ClearDiff}

\* The diffs q, however many, fit one after the other and make to of from.
Reaches(V, q, from, to) ==
    /\ q \in Seq(DiffsOver(V))
    /\ \E c \in [1..(Len(q) + 1) -> Seq(V)] :
          /\ c[1] = from
          /\ c[Len(q) + 1] = to
          /\ \A i \in 1..Len(q) :
                Applicable(q[i], c[i]) /\ c[i + 1] = Apply(q[i], c[i])

\* The part with its place taken by a diff, for flatten (poll_pending): one
\* diff, or many where it cannot be sent as it is.
InnerAre(vs, i, j, v, n, m) ==
    /\ InnerDiffs(ReplaceDiff(vs), n, m) = Removes(n, m) \o Inserts(n, vs)
    /\ InnerDiffs(ClearDiff, n, m) = Removes(n, m) \o Inserts(n, <<>>)
    /\ InnerDiffs(PushDiff(v), n, m) = <<InsertDiff(n + m, v)>>
    /\ InnerDiffs(PopDiff, n, m) = <<RemoveDiff(n + m - 1)>>
    /\ InnerDiffs(InsertDiff(i, v), n, m) = <<InsertDiff(i + n, v)>>
    /\ InnerDiffs(UpdateDiff(i, v), n, m) = <<UpdateDiff(i + n, v)>>
    /\ InnerDiffs(RemoveDiff(i), n, m) = <<RemoveDiff(i + n)>>
    /\ InnerDiffs(MoveDiff(i, j), n, m) = <<MoveDiff(i + n, j + n)>>

IsWhole(d) == d.op \in {"Replace", "Clear"}

\* What ProcessLeft makes of a diff of left that does not give all values.
LeftDiff(d, ll, rl) ==
    CASE d.op = "Push" /\ rl # 0 -> InsertDiff(ll, d.value)
      [] d.op = "Pop" /\ rl # 0 -> RemoveDiff(ll - 1)
      [] OTHER -> d

\* A Replace or Clear of nothing by nothing.
Void(d, s) == IsWhole(d) /\ NewValues(d) = <<>> /\ s = <<>>

\* Like Reaches, and none of q is void where it is applied.
Owed(V, q, from, to) ==
    /\ q \in Seq(DiffsOver(V))
    /\ \E c \in [1..(Len(q) + 1) -> Seq(V)] :
          /\ c[1] = from
          /\ c[Len(q) + 1] = to
          /\ \A i \in 1..Len(q) :
                /\ Applicable(q[i], c[i]) /\ c[i + 1] = Apply(q[i], c[i])
                /\ ~Void(q[i], c[i])

\* An input that is polled.
SourceOf(V) ==
    [contents: Seq(V), closed: BOOLEAN, alphabet: SUBSET V,
     queue: Seq(DiffsOver(V)), waker: BOOLEAN, held: BOOLEAN, len: Nat]

\* What was taken from src makes s.
Behind(V, src, s) ==
    /\ src \in SourceOf(V)
    /\ s \in Seq(V)
    /\ Owed(V, src.queue, s, src.contents)

\* a is b after polls: the same vector, of which no more is left to be taken.
SameVec(a, b) ==
    /\ a.contents = b.contents /\ a.closed = b.closed
    /\ \A n \in Nat : Len(b.queue) <= n => Len(a.queue) <= n

\* The waker is left with an input that can still change, and only with it.
Asked(src) == src.held = ~src.closed /\ src.waker = ~src.closed

-----------------------------------------------------------------------------
(* chain with these inputs.                                                *)

Chained(t, q, m, n, p) ==
    [top |-> t, right |-> q, left_len |-> m, right_len |-> n, pending |-> p]

\* What right sends, after l: one diff, or those that wait to be sent.
RightGives(V, f, t, q, l, s, p, w, void, p2, o) ==
    /\ f = Fed(Chained(t, q, Len(l), Len(s), p2), o)
    /\ Reaches(V, p2 \o o, w, l \o s) /\ p2 \in Seq(DiffsOver(V))
    /\ \/ o = <<>> /\ (void \/ p2 # <<>>)
       \/ p2 = p /\ \E e : o = <<e>>

\* right is polled, and sends or has nothing to send.
RightSent(V, f, t, q, l, r, p, w, r2, p2, o) ==
    /\ f = Fed(Chained(t, AfterPoll(q), Len(l), Len(r2), p2), o)
    /\ Behind(V, AfterPoll(q), r2) /\ SameVec(AfterPoll(q), q)
    /\ Reaches(V, p2 \o o, w, l \o r2) /\ p2 \in Seq(DiffsOver(V))
    /\ \/ o = <<>> /\ p2 # <<>> /\ q.queue # <<>>
       \/ p2 = p /\ q.queue # <<>> /\ \E e : o = <<e>>
       \/ p2 = p /\ o = <<>> /\ q.queue = <<>> /\ r2 = r

\* A poll found diffs: they make of the output w that of the new state.  x and
\* y are left and right before.
FoundAre(V, f, w, x, y, t, q, l, r, p, o) ==
    /\ f = Fed(Chained(t, q, Len(l), Len(r), p), o)
    /\ Behind(V, t, l) /\ Behind(V, q, r)
    /\ SameVec(t, x) /\ SameVec(q, y)
    /\ Reaches(V, o \o p, w, l \o r) /\ p \in Seq(DiffsOver(V))
    /\ \/ o = <<>> /\ p # <<>>
       \/ \E e : o = <<e>>

Found(V, f, w, x, y) ==
    \E t, q, p, o : \E l \in Seq(V), r \in Seq(V) :
        FoundAre(V, f, w, x, y, t, q, l, r, p, o)

\* left is polled, and sends or has nothing to send.
LeftSent(V, f, t, q, l, r) ==
    \/ t.queue # <<>> /\ Found(V, f, l \o r, t, q)
    \/ /\ t.queue = <<>>
       /\ f = Fed(Chained(AfterPoll(t), q, Len(l), Len(r), <<>>), <<>>)

\* The state of chain between two polls: its inputs are behind by l and r, and
\* what it holds makes l and r of the output w.
ChainIs(V, z, w, t, q, l, r, p) ==
    /\ z = Chained(t, q, Len(l), Len(r), p)
    /\ Behind(V, t, l) /\ Behind(V, q, r)
    /\ Reaches(V, p, w, l \o r)

ChainInv(V, z, w) ==
    \E t, q, p : \E l \in Seq(V), r \in Seq(V) : ChainIs(V, z, w, t, q, l, r, p)

\* A poll g of chain returned a diff of the output w; x and y are the inputs.
Answered(V, g, w, x, y) ==
    /\ SameVec(g.st.top, x) /\ SameVec(g.st.right, y)
    /\ \E d : /\ g.answer = SomeDiff(d)
              /\ Applicable(d, w)
              /\ ChainInv(V, g.st, Apply(d, w))

\* What a poll of chain gives: a diff that turns the output w into one that
\* the new state makes of what was taken from the inputs; or nothing, and then
\* w has all the values of left and then all those of right, nothing is left
\* to send, each input that can still change has the waker, and it is the end
\* just if both inputs have ended.
ChainAnswers(V, z, w, g) ==
    \/ Answered(V, g, w, z.top, z.right)
    \/ /\ SameVec(g.st.top, z.top) /\ SameVec(g.st.right, z.right)
       /\ w = z.top.contents \o z.right.contents
       /\ ChainInv(V, g.st, w)
       /\ g.st.pending = <<>>
       /\ Asked(g.st.top) /\ Asked(g.st.right)
       /\ g.answer = IF z.top.closed /\ z.right.closed THEN None ELSE Pending

-----------------------------------------------------------------------------
(* switch_signal_vec: one SignalVec at a time.                             *)

\* What was taken from src makes s, void diffs or not.
Trails(V, src, s) ==
    /\ src \in SourceOf(V)
    /\ s \in Seq(V)
    /\ Reaches(V, src.queue, s, src.contents)

\* The vectors that the Signal may hold: none is both empty and gone.
VecsOf(V) ==
    {v \in [values: Seq(V), closed: BOOLEAN, alphabet: SUBSET V] :
        v.closed => v.values # <<>>}

\* The Signal, with a new value or without.
SignalOf(V) ==
    [contents: Seq(V), closed: BOOLEAN, alphabet: SUBSET V,
     queue: {<<>>} \cup {<<v>> : v \in VecsOf(V)},
     waker: BOOLEAN, held: BOOLEAN, len: Nat]

One(a) == <<a>>

Switched(t, ps, n) == [top |-> t, parts |-> ps, len |-> n, pending |-> <<>>]

\* The state between two polls: what was taken of the current SignalVec makes
\* the output w, unless it will be replaced at the next poll anyway.
SwitchIs(V, z, w, t, ps) ==
    /\ z = Switched(t, ps, Len(w))
    /\ t \in SignalOf(V)
    /\ w \in Seq(V)
    /\ \/ ps = <<>> /\ t.queue # <<>>
       \/ \E a \in SourceOf(V) :
             ps = One(a) /\ (t.queue = <<>> => Trails(V, a, w))

SwitchInv(V, z, w) == \E t, ps : SwitchIs(V, z, w, t, ps)

\* The vector whose contents the output is to have.
Current(z, vs, gone) ==
    IF z.top.queue # <<>>
    THEN vs = Head(z.top.queue).values /\ gone = Head(z.top.queue).closed
    ELSE vs = z.parts[1].contents /\ gone = z.parts[1].closed

\* What a poll of switch_signal_vec gives: a diff that turns the output w into
\* what the new state makes of what was taken from the current SignalVec; or
\* nothing, and then w has its contents, the Signal and the SignalVec, where
\* they can still change, have the waker, and it is the end just if both have
\* ended.  In both cases it is the SignalVec of the Signal's latest value.
SwitchAnswers(V, z, w, g) ==
    /\ SameVec(g.st.top, z.top) /\ g.st.top.queue = <<>>
    /\ Current(z, g.st.parts[1].contents, g.st.parts[1].closed)
    /\ \/ \E d : /\ g.answer = SomeDiff(d)
                 /\ Applicable(d, w)
                 /\ SwitchInv(V, g.st, Apply(d, w))
       \/ /\ SwitchInv(V, g.st, w)
          /\ w = g.st.parts[1].contents
          /\ Asked(g.st.top) /\ Asked(g.st.parts[1])
          /\ g.answer = IF g.st.top.closed /\ g.st.parts[1].closed THEN None
                        ELSE Pending

-----------------------------------------------------------------------------
(* VecJoins, with its chain and its switch_signal_vec, at every step.      *)

CONSTANTS Joins, JoinValues, RightValues, Keys, PartValues, JoinKeep,
          MaxJoinLen, MaxPart, MaxDelayed, MaxJoinQueue, MaxQueued, Awkward

VARIABLES kind, joined, joinWoken, joinPc, joinView

Join == INSTANCE VecJoins
          WITH Values <- JoinValues, Keep <- JoinKeep, MaxLen <- MaxJoinLen,
               MaxQueue <- MaxJoinQueue, st <- joined, woken <- joinWoken,
               pc <- joinPc, view <- joinView

\* An input that has sent d, and one that has ended.
WithSent(src, d) ==
    [[[src EXCEPT !.queue = Append(src.queue, d)]
          EXCEPT !.contents = Apply(d, src.contents)] EXCEPT !.waker = FALSE]

WithEnd(src) == [[src EXCEPT !.closed = TRUE] EXCEPT !.waker = FALSE]

ChainValues == JoinValues["chain"] \cup RightValues

\* An input that can still change has the waker.
Listened(src) == src.closed \/ src.waker

\* The task sleeps only when it has all the values and will be woken.
ChainRests(z, w) ==
    /\ z.pending = <<>>
    /\ w = z.top.contents \o z.right.contents
    /\ Listened(z.top) /\ Listened(z.right)

\* The inductive invariant of chain: the output, the diffs that are pending and
\* those the inputs have sent lead to the contents of the inputs.
ChainHolds ==
    kind = "chain" =>
        /\ ChainInv(ChainValues, joined, joinView)
        /\ joinWoken \in BOOLEAN
        /\ joinPc \in {"waiting", "done"}
        /\ Len(joined.top.queue) <= MaxJoinQueue
        /\ joinPc = "waiting" /\ ~joinWoken =>
              /\ ChainRests(joined, joinView)
              /\ ~(joined.top.closed /\ joined.right.closed)
        /\ joinPc = "done" => ChainRests(joined, joinView)

\* The inputs of chain do not send what it gets wrong.
NothingAwkward == "chain" \notin Awkward

\* The task sleeps only when it has the values of the current SignalVec, which
\* is that of the Signal's latest value, and will be woken.
SwitchRests(z, w) ==
    /\ z.top.queue = <<>>
    /\ w = z.parts[1].contents
    /\ Listened(z.top) /\ Listened(z.parts[1])

\* The inductive invariant of switch_signal_vec.
SwitchHolds(V) ==
    kind = "switch" =>
        /\ SwitchInv(V, joined, joinView)
        /\ joinWoken \in BOOLEAN
        /\ joinPc \in {"waiting", "done"}
        /\ joinPc = "waiting" /\ ~joinWoken =>
              /\ SwitchRests(joined, joinView)
              /\ ~(joined.top.closed /\ joined.parts[1].closed)
        /\ joinPc = "done" => SwitchRests(joined, joinView)

\* The vectors of the Signal have values in V and are not both empty and gone.
SwitchesOf(V) == "switch" \in Joins => JoinValues["switch"] \subseteq VecsOf(V)

JoinHolds(V) == kind \in Joins /\ ChainHolds /\ SwitchHolds(V)

\* The combinators the theorems are about.
ChainOrSwitch == {"chain", "switch"}
=============================================================================
