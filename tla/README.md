# TLA+ models of Quadrable

Quadrable (`include/quadrable/`, with the command line tool `quadb.cpp`) keeps
authenticated maps in LMDB: sparse binary Merkle trees whose nodes are never
modified, with named and detached versions ("heads"), batched updates, proofs
that turn into partial trees, a sync protocol, diffs and a garbage collector
that runs beside the writers. This directory has TLA+ modules translated from
the code, the TLC configurations that check them on small instances, and
theorems checked by TLAPS.

## The system

| Part | Code | State | Operations | What makes it correct |
|---|---|---|---|---|
| Node storage | `impl/internal.h`, `BuiltNode.h`, `ParsedNode.h`, `leafKeys.h` | tables of leaves, interior nodes, tracked keys | write a leaf, branch or witness under the next free id; read a node | a stored node is never modified; every id that something refers to is stored; the key table names the leaf it is filed under |
| Heads | `impl/heads.h`, `Quadrable.h` | head table; current head, or detached head id in memory | checkout, fork, set, remove | a head's version changes by its own updates only |
| Updates | `impl/update.h` | a sorted map of updates, edited while it is walked | put, putReuse, del, apply | the resulting tree is the canonical one for its records; all or nothing |
| Lookups | `impl/get.h` | none | get, getMulti | agree with the records |
| Iterators | `impl/Iterator.h` | path to the current leaf | seek, next, save, restore | every record in range once, in order |
| Diff, patch | `impl/diff.h`, `quadb.cpp` | none | diff, quadb patch | the diff names the changes and leads from one tree to the other |
| Garbage collector | `impl/gc.h`, `walk.h` | marked and garbage ids, kept between transactions | markAllHeads, markTree, sweep, deleteNodes | deletes all that no head reaches and nothing else, whatever writers do meanwhile |
| Proofs | `impl/proof.h` | none / partial trees | export, import, merge | an imported tree has the root of the original and answers as it does |
| Sync | `impl/sync.h` | shadow tree, finished and diffed nodes | requests, responses, reconciliation | tells every difference from one version of the provider's tree once, and ends, under any byte budget |
| Transport | `transport.h`, `varint.h` | none | encode, decode | decoding inverts encoding |
| Keys | `Key.h` | none | hash, integer keys, prefixes | integer keys keep their order |
| MemStore | `impl/MemStore.h` | nodes in memory in an id range of their own | add, share, remove | no LMDB node refers to it |
| quadb | `quadb.cpp` | its table of current and detached head | one command per process and transaction | the state table and the heads agree |
| Statistics, rendering, tests | `stats.h`, `debug.h`, `check.cpp`, `syncBench.cpp` | none | | |

The parts share the node tables and hand each other node ids. Everything runs
inside an LMDB transaction the caller owns; LMDB gives each transaction a
snapshot, and one writer at a time. What is hard:

* the collector lists its garbage in a read transaction and deletes in a later
  one, while ids are given out again once the highest nodes are gone;
* `putAux` edits the map of updates while the frames above it hold iterators
  into it, splits leaves and lets lone leaves bubble up;
* exceptions leave nodes behind in the transaction; heads must not follow them;
* detached heads and ids held by the application are known to no table;
* the tree is sparse, so every traversal has to cope with branches that have
  one child;
* partial trees know some of their nodes only by hash;
* sync answers are cut off by a budget, and several rounds work on a tree that
  each round rebuilds.

`PROJECT.json` lists these, with the lines they are at, as hazards.

## The modules

| Module | Models | Extends |
|---|---|---|
| `NodeStore` | storage, heads and garbage collection under concurrent transactions | |
| `NodeStoreProofs` | the theorems about it | `NodeStore` |
| `TreeNodes` | nodes with their symbolic hashes; constructors; walk; what a tree is (`TreeOK`) | |
| `UpdateSet` | `putAux`, `eraseRange`, `apply` up to the head | `TreeNodes` |
| `Lookup` | `getMulti` on complete and partial trees | `TreeNodes` |
| `HeadTable` | heads, the one checked out, and quadb's state table | |
| `HeadTrees` | the trees under the heads, as their readers find them | `Lookup`, `HeadTable` |
| `VersionedMap` | abstract specification: one map per head | |
| `QuadTree` | updates and collections of the trees under the heads | `UpdateSet`, `HeadTrees` |
| `Quadb` | the commands of quadb over its state table; refines `VersionedMap` | `QuadTree` |
| `QuadbProofs` | the theorems about it: all its properties, and the refinement | `Quadb`, `TreeProofs` |
| `ProofStrands` | strands and commands of proofs; export, import, merge | `UpdateSet` |
| `PartialTree` | a client's partial tree beside the full tree it stands for | `ProofStrands`, `Lookup` |
| `PartialTreeProofs` | the theorems about it: the roots of the two trees, and lookups | `PartialTree`, `TreeProofs` |
| `Iterator` | seeking and moving an iterator | `TreeNodes` |
| `IteratorProofs` | the theorems about it | `Iterator`, `TreeProofs` |
| `DiffLines` | the lines of a diff of two trees | `TreeNodes` |
| `TreeDiff` | pairs of trees, and a diff applied as a patch | `UpdateSet`, `DiffLines` |
| `DiffProofs` | the theorems about it: all its properties | `TreeDiff`, `TreeProofs` |
| `Sync` | a syncer and a provider over a network; implements `SyncPromise` | `ProofStrands` |
| `SyncPromise` | abstract specification of a sync: what the callback is told | |
| `IntegerKeys` | keys made of integers | |
| `Transport` | encoding and decoding of proofs and sync requests; implements `Channel` | `IntegerKeys` |
| `Channel` | abstract specification of an encoding: what goes in comes out | |
| `MemStore` | nodes in LMDB and in tables in memory under one object | |
| `MemStoreProofs` | the theorems about it | `MemStore` |
| `Recursion` | induction over the natural numbers, as facts about sets; what a function defined by recursion is | |
| `TreeProofs` | facts about keys, levels, paths, subtrees and hashes; what `putAux` does to a tree, by induction over its frames; the calls of a lookup | `UpdateSet`, `Lookup` |
| `MC...` | instances for TLC (symmetry sets) | the module they are named for |

Definitions whose comment begins with "Mutant" are plausible faults of the
definition that follows them. They are used by nothing: `PROJECT.json` says
which of them makes which property fail, which is how we know that the property
looks at that code.

### NodeStore

State: `db`, the committed tables; for each thread its transaction `txn` and
the tables `view` as it sees them; for application threads `obj` (head,
detachedHead, detachedHeadNodeId) and `held`, the ids it obtained in this
transaction; for collectors `gc`, the GarbageCollector object.

A node is reduced to its children's ids and, for a leaf, its key. One action
each for `getHeadNodeId`, the constructor of ParsedNode, `newLeaf`, `newBranch`,
`newWitness`, `setHeadNodeId`, both forms of `checkout` and of `fork`, `quadb
head rm`, `markAllHeads`, a step of `markTree`, `sweep` and `deleteNodes`. An
application thread may build any node out of ids it holds, which covers every
tree that `apply`, `importProof` or a sync could build. Ids are allocated as
`getNextId` does, separately for leaves and interior nodes.

LMDB is external: begin, commit, abort, crash. A crash of one thread's process
loses its objects and its transaction. Two rules of the documentation are built
in: a detached head does not outlive its transaction (README "Heads"), and a
list of garbage survives only between `sweep` and `deleteNodes`. With
`SweepInMarkTxn` false it also survives between marking and sweeping.

### TreeNodes, UpdateSet, Lookup, HeadTable, HeadTrees, QuadTree, Quadb

A key is a path of `Depth` bits. Hashes are the terms they were computed from,
so equal hashes mean equal data and nothing else; that is the assumption the
library makes of its hash function. `UpdateSet` follows `putAux` branch by
branch. Its iterators are keys (`MapEnd` for `map.end()`), so that entries erased
or inserted by one frame are seen by the iterators of the others as in a
`std::map`. What one call leaves to the next is its `work`: the ids in use, the
map, and what went out through `outputNodeId`; what it wrote, the node it returns
and `bubbleUp` are its outcome. An exception is the outcome `Throw`, which every
frame passes on. `deleteRightSide` is left out, since no caller passes true.

The recursion is a function over how many levels a frame has below it
(`CallsAbove`): the outcomes of all calls at one level, made from those at the
next, down to level `Depth`, below which `assertDepth` stops. `RoomForLeaves`
bounds it: leaf ids may not run into the range of interior nodes, which begins at
2^58 in the code and is not guarded there. The theorems need that bound as much
as TLC does.

`TreeOK` says what every tree without witnesses is, with no word of how it came
about: well-formed (a branch has two different children, one of which may be
Empty, and divides its leaves by the bit of its depth), hashed (every node has
the hash of its data) and compact (no branch over a single leaf). It is an
invariant of `Quadb` and of `TreeDiff`, which is proved of both, and the hypothesis
of the theorems about readers.

`Lookup` is `getMultiAux` by the calls there are at each depth (`Calls`); a call
is a node and the keys that were handed down to it. `AnsweredRight` says what all
answers have to be.

`HeadTable` has the heads as ids that mean nothing to it: `checkout`, `fork`,
`head rm` and the state table, with `NextCommandFindsTheHead` and a specification
of its own, `HeadSpec`, in which a head may get any root. `HeadTrees` puts trees
under these heads and states what their readers rely on (`QueriesAnswered`,
`CanonicalRoot`); `QuadTree` adds the updates. `heads[Detached]` is
detachedHeadNodeId. `last` remembers the last `apply` so that properties can
speak of it.

`Quadb` is the program around it. Every command is a process and a write
transaction of its own, so commands are atomic and a crash is a command that did
not happen. `state` is the table `quadrable_quadb_state`. `current` and
`heads[Detached]` end with the process; between commands they have the values
the last one left, and `NextCommandFindsTheHead` says that the next one loads
the same. Commands never ask to reuse a leaf; `ProgramEdits` is another program
on the same database that does. `Collect` is a whole collection (its steps and
their interleaving are `NodeStore`'s subject), with the `markTree` of a detached
head that only quadb does. `MaxApplies` bounds the update sets; nothing else is
bounded.

### Iterator, DiffLines, TreeDiff

`Iterator` keeps `nodeStack` as a sequence of ids, with the keys yielded so far
beside it. `NextLeaf` is the body of the caller's loop `while (!it.atEnd())
it.next()`. `restore` is checked as the inverse of `save` in the same tree. The
trees are a parameter: `Write` replaces the tree by any of `Trees`, which have
to be well-formed (`TreesAssumption`), at most `MaxWrites` times. `MCIterator`
takes all those that `UpdateSet` builds from sets of keys, so the run checks the
assumption too.

`DiffLines` has two roots over one table of nodes: trees that were forked share
nodes, others do not. `DiffAux` is one call of `diffAux`, of every pair of nodes
and given what its own calls list; `Diff` is the call at the roots. `TreeDiff`
builds the trees by updates and forks; `UpdatesOf` is what `quadb patch` makes of
the lines.

### ProofStrands, PartialTree

A proof is a sequence of strands and one of commands, as in `Proof`. The lists
of accumulators that `exportProofCmds` and `importProofInternal` keep linked by
`next` are sets of offsets that are still in them (`live`); sorting by
`mergedOrder` is putting the commands of a merged strand behind those of the
ones merged before it (`merged`). Where the export throws for want of a node,
the strands contain `Unprovable`; where a lookup throws at a witness, the answer
is `Unknown`. The recursions (`exportProofAux`, `exportProofRangeAux`,
`mergeProofInternal`) are given level by level, as `putAux` is.

`PartialTree` has a provider, whose head has had some `versions`, and a client
that starts from nothing, imports a proof, merges others and updates its tree in
any order. `cnodes` and `head` are the client's storage; `full` is the full tree
it should be equivalent to: the version it trusted, with its own updates made to
it by the same `apply`. Proofs are made of any version, so that they can come
late: `importProof` compares with the expected root, `mergeProof` with the root
that is there, and both have written nodes by then. `proven` collects what the
client was given proofs for. Besides `MaxProofs` and `MaxUpdates`, ids for leaves
are bounded: updates wait for room for their leaves on both sides (`RoomForLeaves`)
and proofs for room for their strands (`RoomForStrands`).

A deletion on a partial tree may throw although its key is proven: the leaf
that would be left alone may be a witness, of which nobody knows whether it is a
leaf (README 228: proofs that support a deletion are "not yet implemented"). `ProvenKeysCanBePut` is
thus about puts.

### Sync

Variables of the provider (`pnodes`, `phead`), of the `Sync` object
(`nodeIdLocal`, `nodeIdShadow`, `inited`, `finishedNodes`, `diffedNodes`) and of
the network (`requests`, `responses`). `Ask` is a call of `getReqs` with
`reconcileTrees` and the callback below it, `Answer` one of
`handleSyncRequests`, `Deliver` one of `addResps`. Both byte budgets become
numbers of requests and of responses: every number is tried, so that every
budget of bytes is. Responses stay with the requests they answer, as in the loop
of `syncBench.cpp`; a message may be lost, a request may be made again while the
answer to the last one is on its way, and answers may be taken in any order. The
provider is stateless and may answer from another version of its tree
(`Change`, `ChangeBack`); README 1216 says that `addResps` then throws. A
deviation the model shows on the way: it can be the provider that throws, for a
request that its other version has no branch for. Either way the syncer goes on
with the shadow it has.

`nodes` is cut down to what the two trees of the syncer reach: the branches of
earlier shadows are garbage that nothing reads. `told` collects the calls of
the callback. The requests of `getReqs` come in the order of their paths, so
the check of that order (sync.h:8), whose loop ends one short of the last, is
not reached.

`SyncPromise` is what a user sees: from the first response on one version is
followed, each difference from it is told once, nothing else is told, and at the
end none is missing. The refinement maps `theirs` to the contents of the version
whose root the shadow has.

### IntegerKeys, Transport

`IntegerKeys` has the arithmetic of `fromInteger` and `toInteger` for a length
field of `LenBits` bits. The code has 6; with 3 integers have 8 bits and keys 6
bytes, and all lengths can be gone through.

`Transport` runs encoder and decoder side by side: both go through the string
once, in one direction, without looking ahead, so what one has written the other
may read. `TakeCmd`, `Jump` and `WriteCmd` are the encoder's loops over the
commands and towards the strand of each, `hashQueue` what it holds back.
`ReadStrand`, `ReadCmds` and `ReadJump` are the decoder's. Every byte is its
number; values, names and hashes repeat one byte. `owed` is what has been
put in and has not come out; the refinement of `Channel` says that what comes
out is the front of it. Two exceptions are modelled: a missing name with
FullKeys, and a start depth that does not fit a byte.

Left out are the byte in front for the encoding type and the framing of a list
of responses by lengths. Read beside the code: the README's list of strand types
lacks 4, Witness; `encodeSyncResponses` does not pass its `encodingType` on to
`encodeProof`.

### MemStore

One Quadrable object in one transaction, with MemStores of its own
(`addMemStore`) and of the program (`withMemStore`). All MemStores give out ids
from `FirstMem` on, so an id does not tell which node was meant. Each reference
in the model carries the `home` of its node, which no action of the library
looks at; `getNode` looks the id up in whatever MemStore is installed (`Place`).
A node is the set of its references. One `apply` writes one node over any part of
the working tree: longer updates are several of them.

The library trusts its caller with a lot, and the runs show how much. A
`Careful` program keeps these rules, each marked `Rule` in the module:

1. a tree that is in a MemStore is updated with `writeToMemStore` set
   (`ApplyToLmdb`);
2. the `headNodeId` of a MemStore is checked out only while that MemStore is
   installed (`CheckoutSaved`);
3. `addMemStore` is called only when there is none, and with no detached head
   left in one that is gone (`AddMemStore`);
4. a callback is not entered with a detached head in another MemStore
   (`EnterCallback`);
5. a callback ends with a detached head, since the guard saves
   `detachedHeadNodeId` in any case (`LeaveCallback`).

Without any one of the rules one of the three invariants fails. The library
checks none of them. `addMemStore` ignores its parameter `_writeToMemStore`;
and it accepts `trackKeys`, which `withMemStore` refuses.

## The runs

| Run | Instance | Shows |
|---|---|---|
| `NodeStore` | a writer and a collector that track keys, one head, two keys, 2 leaf ids, 1 branch id | nothing missing, sweep exact, copy on write, garbage stays garbage, key table sound, also when a freed id returns as the leaf of another key |
| `Quadb` | 3 keys of 3 bits, 2 values, 2 heads and the detached one, 2 update sets, putReuse of any leaf by another program | canonical root, lookups, outputNodeId, stable leaf ids, throws exactly for a leaf of another key, the state table, refinement of `VersionedMap` |
| `Iterator` | every tree over all 8 keys of 3 bits, every target, both directions | nothing skipped or repeated; ends early only at a gap; a saved place is found |
| `TreeDiff` | every two trees of 4 keys and 2 values | the diff names the changes; it is a patch unless a key collapsed |
| `PartialTree` | 3 keys of 3 bits, 2 values, proofs of all sets and ranges of keys, 2 imports or merges, 1 update set of the client | the partial tree has the root of the full one, answers as it does, proves what was proven to it, takes puts of proven keys; no hash in a proof is redundant |
| `Sync` | 3 keys of 3 bits with short and long values, depth limits of 1, budgets of 1 and 2, 2 messages under way, 1 lost, 1 change of the provider | what is asked for is answered and the answers are accepted; one version is followed and told; the sync ends |
| `Transport` | integers of 8 bits, proofs of 0, 1 or 200 strands, commands for strands 0, 40 and 199, depths 0 and 255, values of 0, 1 and 128 bytes | decoding gives back what was encoded; integer keys keep their numbers and order; the loop of jumps ends |
| `MemStore` | 2 MemStores, 1 named head, 2 ids in LMDB and 2 in each MemStore, a careful program | no node of LMDB refers to a MemStore; no reference is dangling or leads to another node than it was made for; none but an own MemStore is deleted |

These runs find a statement of the documentation violated by what the code does:

| Run | Statement | What happens |
|---|---|---|
| `TwoCollectors` | "a nodeId is never reused" (README 658) | ids above the highest survivor are reused; a second collector's list hits the new node |
| `IteratorStops` | iterates over all items in range (README 1099) | ends at a branch without a far child |
| `PatchInverted` | a `+` line has the new record (README 902, diff.h:6) | old and new are swapped when B is a leaf and A a branch |
| `MemStoreLeaks` | an error is thrown if LMDB nodes refer to a MemStore (README 1133) | only the root's id is looked at; a branch in LMDB gets a MemStore child |

Two more divergences, met before and no longer run: an update by `putReuse` over
a record whose value is the empty string is dropped (update.h:142 compares the
value with the empty `val` of the update), which `ReuseAssumption` leaves out of
`QuadTree`, since the database is no versioned map then (so no property covers
that hazard); and
a record put unchanged while another update splits its leaf reports a new
`outputNodeId` (update.h:133), where README 1059 promises 0. `OutputNamesTheLeaf`
says what does hold, and its comment what it leaves open.

A related rule the documentation only hints at (README 1236: sweep "can be the
same transaction as the marking"): it must be the same, or nodes committed in
between are swept. The runs keep it (`SweepInMarkTxn`); the mutant `KeepsMarks`,
which breaks it, makes `NothingMissing` fail.

### Why the bounds are enough

* `NodeStore`: two leaf ids and one branch id let a branch share its leaf with a
  second version, let a collection free the highest id of either table and an
  allocation take it again for the leaf of another key; the properties relate at
  most two nodes, one head table and two threads. More heads, writers that do not
  track keys and competition for the write transaction are in the theorems, which
  hold for any number of each. A writer of the run may leave the key out of any
  leaf, as one that does not track keys would, but no run has a collector that
  does not track keys: `KeyTableSound` is not true of it (`Tracking = {w1}` in
  `NodeStore.cfg` makes TLC show the steps), and the theorem excludes it.
* `Quadb`: `CanonicalRoot` makes a tree's shape a function of its records,
  and one update set from the empty tree builds every one of them. The second is
  thus every update set on every tree, or on another head than the first. The
  keys 0, 1 and 6 of three bits share two bits or none, so that splitting goes
  two levels down, bubbling two levels up, and a window is backed up on both
  sides of a branch. Commands that move heads and collect are not bounded.
* `Iterator`: all trees there are at that depth.
* `TreeDiff`: two update sets, one for each tree or one before a fork and one
  after it, give every two trees, shared or not.
* `PartialTree`: the keys 0, 1 and 6 share no bit or two; proofs thus go down to
  leaves at depth 1 and at depth 3, past branches with an empty side, and leave
  out subtrees with one leaf and with two. Two proofs are an import and a merge;
  one set of updates comes before, between or after them, splits leaves and
  witness leaves and lets them bubble up. With four keys and one proof the
  properties hold as well.
* `Sync`: depth limits of 1 make a tree of depth 3 take up to three rounds and
  leave witnesses at every depth; with a long value, also leaves that have to be
  asked for by themselves. A budget of 1 cuts every list short, one of 2 every
  list but one that fits. Two messages under way are enough for an answer to
  come when the next question is out, or to come twice; one loss and one change
  of the provider (with any number of returns) come at every point. `Val` is
  `{a, long}`: one key may have either, the others one each, so that all three
  kinds of difference occur, at leaves and branches of all depths.
* `Transport`: 200 strands make jumps of both kinds in both directions, several
  for one command, and 200 integers from 54 on pass the last integer that has
  a key. The string holds one piece at a time; as the decoder's state
  depends on the pieces alone, in any split, more would only delay it.
  Depths stop at 255, the greatest depth of a branch. A leaf at 256, under a
  branch of two keys that differ in their last bit only, would be written with
  depth 0 and `IsChannel` would fail.
* `MemStore`: a loan or removal followed by another MemStore needs two of them;
  an id that returns and one that does not need two in each. The theorems close
  the rest.

Deadlock is not checked in `PartialTree`, `Sync` and `Transport`: there the
bounds, the end of the sync and the end of the string end the behaviours.

### Fairness

Nothing in the library runs by itself, so most modules assume nothing. Two have
liveness properties, of loops that the code or its caller runs to their end:

* `Sync`: a request that is not lost is answered some time and a response
  handled (weak fairness of both), and the syncer's loop goes round
  (syncBench.cpp:93-107): it is infinitely often the case that something is under
  way or that it is done. Nothing is assumed about budgets or about which of
  several messages is handled. `ComesToAnEnd` needs the provider to settle on
  the version that is followed at last, which README 1216 asks of applications.
* `Transport`: the encoder's loop runs on while it has a command in hand, and
  the decoder's while there is something to read. `CommandsGetOut` is then
  about the jumps: they come nearer with every step.

## The proofs

`NodeStoreProofs` proves, for any sets of threads, keys and heads and any ranges
of ids:

* `TypeCorrect`, `NodesAreImmutable`: with no assumptions but those of the module;
* `NothingIsEverMissing`, `GarbageIsNeverGrabbedBack`,
  `SweepListsExactlyTheGarbage`: if there is one collector (`OneCollector`) and it
  marks and sweeps in one transaction (`MarkAndSweepTogether`). The run
  `TwoCollectors` and the mutant `KeepsMarks` show that neither can be dropped;
* `KeyTableIsSound`: if all collectors track keys (`CollectorsTrack`;
  a collector that does not track keys leaves the entry of a collected leaf to
  the next leaf with that id, and README 711 leaves the choice to each command).

`NothingMissing` alone is not inductive: that a deletion is harmless depends on
what happened since the sweep. `IInv` adds what carries over: the committed
tables and all views are closed under references; a writer's view has all that
was committed when it began; during the walk, what is marked is closed but for
what is still to visit; and after the sweep no stored node outside of the list,
no head and no id held by a writer refers into the list, in the committed tables
as in every view that may still be committed. One lemma per action shows that it
preserves `IInv`, and `Invariance` puts them together. `SweepIsExact` needs that
the marked set is the least one that has the roots and is closed. `IInv` was
checked with TLC on small instances first.

`MemStoreProofs` proves for any MemStores, heads and ids, each time under
`Careful`: `TypeCorrect`, `LmdbNeedsNoMemStore`, `NoTreeLosesNodes` and
`OnlyItsOwnIsDeleted`; the last three are the invariants of the run. `Careful` cannot be
dropped: that is the run `MemStoreLeaks`. The three invariants are inductive
together with the type invariant and three facts: the id of a reference is in
the range of its home (`RefsFit`); which MemStore may be installed, owned or in a
callback agrees with the object's fields (`KindsFit`); and named heads lead to
nodes in LMDB, detached ones to a node unless its MemStore is gone
(`HeadsLead`). With these, everything an update can build on (`Reusable`) leads
to LMDB or to the MemStore that is installed, where an id means what it was made
for; `ReusableLeads` states this and `ApplyKeeps` draws the conclusion for both
kinds of `apply`.

Theorems about trees hold for keys of any length. Between those that build trees
and those that read them, the interface is `TreeOK` (or, for iterators and single
lookups, `WellFormed`): `TreeProofs` shows that `putAux` makes such trees of
such trees, and the other modules what readers make of them.

How recursion is proved about. The induction theorems of the library cannot be
used, so `Recursion` derives from the well-foundedness of `<` that a set of
numbers with 0 and with each number the next one is `Nat` (`EveryNumber`); an
induction is about such a set. A recursive function in TLA+ is the CHOOSE of one
that satisfies its equation. `Recursion` shows once, for any first value and any
step, that there is one (`RecursionFollows`), by putting the finite ones
together. Each recursion of the models is an instance: powers and shifts of keys,
the levels of a tree, canonical hashes, the iterator's loops, `walkTree`,
`diffAux`, `getMultiAux`, `putAux`, `mergeProofInternal`, and the loops over the
strands and commands of a proof.

`TreeProofs` begins with what the readers share. Keys: `FirstBitDecides`, the first
bit in which two keys differ tells which is less. Paths: every node is at the end
of a path from the root, the turns of a path to a leaf are the bits of its key
(`LeavesAreWhereTheirKeysLead`), and where two paths part, the one to the left has
the lesser key (`LeftComesFirst`). Subtrees: `KindsOfSubtrees`, and
`SubtreeInduction`, that what holds for empty subtrees and leaves, and for a
branch when it does for its children, holds for all of them. With these,
`HashIsCanonical` and `SameHashSameRecords`: a hash stands for the records below
it, in one tree or between two.

* `IteratorProofs`: `SkipsNothing`, `EndsEarlyOnlyBesideAGap` and `SaveAndRestore`,
  invariants of the run, for any well-formed trees. None is inductive by itself.
  `IInv` says that an iterator in use is at one of three places (`IsPlace`): at a
  leaf on its way, with exactly the keys from the target to that leaf yielded; at
  its end, with every key on its way yielded; or beside an empty child. A step of `next` is then: pop to the last
  branch with a far child, turn, and enter, with no leaf in between, since what
  lies between two paths is below the branch where they part.
* `QuadbProofs`, about readers: `LookupsAreAnsweredRight`, for any set of keys in
  any well-formed tree without witnesses. Each key comes down exactly one way,
  along its bits, to where there is no branch; the leaf of its record, if there is
  one, is at the end of the same way. `SameRootSameRecords`: the root hashes of two
  heads agree exactly when their records do, from `HashIsCanonical`.
* `DiffProofs`, about one diff: `DiffNamesTheChanges` and `DiffTellsOldAndNew`, for
  any two trees.
  The pairs that `diffAux` comes to are subtrees at one level, so what `Tells`
  says of their lists can be put together from the two sides of a branch
  (`SidesAreToldApart`). Where a branch meets a leaf, `BranchIsNew` and
  `BranchIsGone` go through the leaves that the walk lists
  (`WalkListsTheLeaves`); `KeptAlone` shows that the one place where old and new
  values are exchanged is a key that has lost all its neighbours, as the property
  says. Where hashes agree the diff is cut short, by `SameHashSameRecords`.

The rest of `TreeProofs` is about one call of `apply` on one tree, any tree of any depth
with any set of updates: `PutAllPuts`. It throws exactly when an update asks for a
leaf of another key. What it writes, thrown or not, is new leaves of the updates
and branches over nodes there are, under ids that were not in use, beside
everything that was there. What it returns is a tree (`TreeOK`) in which each
named key has the record asked for, or none, each other key has the very leaf it
had, and `outputNodeId` says which leaf came or went (`Settled`).

The induction is over the levels below a frame (`EachLevelOfCalls`): if the calls
one level down do what they are asked (`Meets`), then `putAux` does (`PutAuxMeets`).
What makes it hard is what a call may be asked (`Ready`) and what it must leave
behind (`Met`), because the frames share one map of updates:

* The keys a frame can meet are a `Region`, all those between two keys that agree
  in their first bits; `end` lies beyond it, and entries of the region before
  `begin` are deletions that `eraseRange` left, of keys that have no leaf below
  the node. A call leaves entries outside of its region alone (`Wrote`). So the
  windows stay right for the frames above, although entries come and go in front
  of their iterators, and a deletion left in front never comes back into a window.
* A split leaf joins the updates as a reuse of itself, and the window is backed
  up to it. What is asked then is the same of an empty node as it was of the leaf
  (`Restated`, `SplitIsAsked`).
* Only a call that sets `bubbleUp` may return fewer leaves than it was given, down
  to one or none; otherwise a branch keeps leaves on both its sides. That is what
  `Join` needs to leave no branch over a single leaf (`JoinMeets`).
* The ids given out are counted by the new leaves that are asked for, so that
  leaves stay in their range.

`QuadbProofs` then proves all seven invariants of `Quadb`'s run, for any keys,
values and heads: `TypesAreKept`, `RootsStayCanonical`, `QueriesStayAnswered`,
`UpdatesAreRefusedForForeignLeaves`, `LeavesKeepTheirIds`,
`OutputsNameTheirLeaves` and `CommandsWorkOnTheHead`. `TypeOK` is not inductive: a
reuse may name a leaf that no tree has any more, so that all stored leaves must be
whole, and the next id is above all others only if there is a greatest one. `IInv`
adds both. Its steps are three: `ApplyKeeps`, by `PutAllPuts` for the working head
and because writing more nodes changes no tree (`TreesStay`) for the others;
`CollectKeeps`, since what is marked is closed under children; and `MovesKeep`, for
commands that only move heads. What `IInv` says of trees then gives the roots and
the lookups; what `PutAllPuts` says of a call gives what is said of the last one
(`CallsOK`).

For the state table, `HeadsAreOneTable` shows that all of `Quadb` does to the heads
is a step of `HeadTable`, and `CommandsFindTheHead` that there the table leads the
next command right. That is not inductive either: an entry left over from an
earlier command could come to be read. `HeadLeft` adds which entries the table has
for a named and for a detached head.

`DatabaseIsAVersionedMap` is the refinement: `Spec => IsVersionedMap`. Each operation
is a step of `VersionedMap` (`StepsAreSteps`). For `apply`, the contents of the new
tree are the old ones with the changes (`UpdatesPatch`), since each key has one leaf
at most (`ContentsByLeaf`) and `Settled` says which; the other heads keep their
contents (`SameContents`), through collections too.

The assumptions are those of the modules: `MaxApplies` is a number and leaves find
room (`RoomForLeaves`), both bounds of the model; and `ReuseAssumption`, without
which the code drops an update.

`DiffProofs` proves all four invariants of `TreeDiff`'s run in the same way, for any
two trees that updates and forks lead to: `TreesStayWhole`, `DiffsNameTheChanges`,
`DiffsTellOldAndNew` and `PatchesLeadThere`. Its `IInv` adds to `TypeOK` that all
stored nodes are whole, which `putAux` asks for. What is new is the patch, in which
a later line for a key replaces an earlier one. A deletion of a key that the second
tree has is followed by a line that is not one (`Followed`): both lines come from
one call, and stay in order when the lists of two sides are put together. So the
last line for a key (`LastLines`) is a deletion exactly if the second tree lacks
the key, and the update set that all lines make puts the records of that tree that
the first has not, and deletes the others (`LinesPutNew`). `PutAllPuts` says that the result has
the records of the second tree (`PatchedIsNew`), and `HashIsCanonical` that it has
its root hash then. An insertion has the new value but for collapsed keys, where the
run `PatchInverted` shows the patch go wrong; and there must be ids for the leaves
of the patch (`RoomForLeaves`).

`PartialTreeProofs` proves `PartialTreesKeepTheRoot`, that is `Spec => []SameRoot`, for
keys of any length, any number of proofs of any trees and any updates between them.
The client's nodes cannot be expected to be trees: an import writes whatever a proof
says before it looks at the root, and trees have witnesses. What they are is `Honest`:
each has the hash of its data, so that a branch has that of its children's
hashes. That is enough, because hashes are free of collisions. If a node has the hash
of a node of a full tree (`Stands`), then it is a witness, or a leaf or witness leaf of
the same key and value where that one is a leaf, or a branch whose children stand for
that one's children (`KindsAlike`).

* Updates. `PutAllInStep` runs `putAux` on both trees with the same updates. Frames
  are in step (`InStep`) if they have the same window over maps that agree in
  which entries there are and what they put, delete or reuse (`SameUpdates`), at nodes
  of which one stands for the other. The partial one then throws at a witness, or both
  end with nodes that stand for each other, the same `bubbleUp` and maps that still
  agree (`Mirrored`), one case of `putAux` after the other, with a lemma each. A witness leaf
  is split and moved like a leaf, but never found unchanged: it is replaced by a leaf
  with the hash that the other one keeps. What was written before a throw is honest,
  too. The induction is over the levels, as for `PutAllPuts`, which gives what the
  full tree needs.
* Proofs. `ImportIsHonest`: whatever strands and commands say, an import adds honest nodes only
  and its root is one of them, so that comparing the root's hash with that of a version
  is all it takes. The export comes in only for being made of sequences and commands
  of the three kinds (`ProofsOfFullTrees`); what it puts into them need not be known.
* `MergesKeepTheHash`: two nodes that stand for the same node of a full tree merge
  into a third one that does.

The inductive invariant, `StandsForFull`, is `SameRoot`, that the client's table is honest and
has its head, and that all versions and `full` are trees (`TreeOK`) among the
provider's nodes. The provider of the model keeps its own trees by `PutAllPuts`.

From the same invariant, `LookupsAreNeverMistaken`: a lookup in the partial tree throws or
says of a key what the full tree says. `LookupsAreTruthful` shows it for any set of keys in
one walk: where a key comes to, the node stands for one of the full tree that has all of
the key's leaves below it (`Reached`). This is the half of `AnswersAreTrue` that is about being
wrong. That a lookup does not throw for a proven key is the other half.

Only model-checked: what else is said of partial trees, which is about what an export puts into
a proof (the other half of `AnswersAreTrue`, `ProofsArePassedOn`, `ProvenKeysCanBePut`,
`NothingRedundant` and, for the keys of the leaves, `TypeOK`); the sync, whose shadow is such a tree; the strings of `Transport`
and its refinement, and that of `Sync`; and liveness, which is out of the prover's
reach.

## Not modelled, and the plan

Order of work, most important first:

1. `NodeStore` and its proofs - done.
2. `TreeNodes`, `UpdateSet`, `QuadTree` with `VersionedMap` - done.
3. `Iterator`, `TreeDiff` - done.
4. `Lookup`, `ProofStrands`, `PartialTree` - done.
5. `Sync` with `SyncPromise` - done.
6. `IntegerKeys`, `Transport` with `Channel` - done, but for the framing of
   responses and `fromIntegerAndHash`.
7. `MemStore` and its proofs - done for one transaction.
8. `Quadb` - done for the commands that change something.
9. Proofs about readers of trees (iterators, lookups, hashes, diffs), about the
   state table and about patches - done.
10. Proofs about `putAux` and `Quadb`, with the refinement, and about the roots of
   partial trees and lookups in them - done. Left: proofs about exports and the sync, that integer keys keep
   their order, and the parts of `Transport` that are arithmetic.
11. Key tracking in `MemStore`, and a database that several transactions and
   MemStores share; key strings in proofs.

Left out for good: formatting and statistics, which change nothing; the bytes of
LMDB and of hashes; the libraries under `external/`.
