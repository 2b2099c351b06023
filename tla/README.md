# A verification project for lc0

lc0 is a chess engine: a Monte-Carlo tree search over positions that a neural
network evaluates. The specifications in this directory model its concurrency
(search threads on one tree, one cache and one network, started, stopped and
destroyed by a UCI thread) and its exact algorithms (move generation, tablebase
indexing, layouts of tensors, parsing of options), read from the code under `src/`.
C++ paths below are relative to `src/src/`.

`PROJECT.json` lists every component, run, mutant, mapped definition, finding, hazard
and theorem. Run a model with `tlc -config X.cfg MCModule.tla`, the proofs of
a component with `tlapm` on its module of proofs (`*Proofs.tla`, and `SumTheorems.tla`).

## Inventory

| Component | State | Operations | Modules |
|---|---|---|---|
| `Search` lifecycle (`mcts/search.cc`) | `stop_`, `ok_to_respond_bestmove_`, `bestmove_is_sent_`, threads, counters | `StartThreads`, `Stop`, `Abort`, `Wait`, destructor, watchdog, `MaybeTriggerStop`, `MaybeOutputInfo` | `SearchLifecycle`, `BestmoveService` |
| `SearchWorker` and nodes (`mcts/search.cc`, `mcts/node.cc`) | `n_`, `n_in_flight_`, `q_`, `is_terminal_`, edges; `minibatch_` | pick, extend, evaluate, back up | `SearchTree` |
| `LruCache` (`utils/cache.h`) | hash table, queue, evicted pinned items, counts | `Insert`, `LookupAndPin`, `Unpin`, `SetCapacity`, `Clear` | `LruCache` |
| `CachingComputation` (`neural/cache.cc`) | `batch_` with locks into the cache, parent computation | `AddInputByHash`, `AddInput`, `PopLastInputHit`, `ComputeBlocking` | `CachingComputation` |
| `MuxingNetwork`, `DemuxingNetwork`, `CheckNetwork` (`neural/network_*.cc`) | queue, condition variables, batches or pieces; the outputs of two backends | enqueue, worker loop, `ComputeBlocking`, destructor | `MuxingNetwork`, `DemuxingNetwork`, `CheckNetwork` |
| CUDA backend (`neural/cuda/`) | three device buffers under one lock, a pool of host buffers | construction of the layers, `forwardEval`, kernels | `CudnnNetwork`, `CudnnKernels`, `FusedSeKernel`, `ResNet` |
| BLAS backend (`neural/blas/`) | three rotating buffers, chunks | `ComputeBlocking`, Winograd convolution | `BlasNetwork`, `WinogradConvolution3`, `ResNet` |
| Self-play (`selfplay/`) | games in progress, count, results, `abort_`, threads | `Worker`, `PlayOneGame`, `Abort`, `Stop`, `Wait`; `SelfPlayGame::Play` | `SelfPlayTournament` |
| `EngineController` (`engine.cc`) | current position, `search_`, `tree_`, network, tablebases | `SetPosition`, `Go`, `PonderHit`, `Stop`, `NewGame`, `UpdateFromUciOptions` | `EngineController` |
| `NodeTree` and its garbage collector (`mcts/node.cc`) | begin node, head, history; queue of subtrees | `MakeMove`, `ResetToPosition`, `TrimTreeAtHead`, `DeallocateTree` | `NodeTree` |
| Board (`chess/board.cc`, `chess/bitboard.cc`) | piece sets, castlings, side to move | `GeneratePseudolegalMoves`, `ApplyMove`, `IsLegalMove`, `SetFromFen` | `ChessBoard`, reference `ChessRules` |
| Game history, encoder (`chess/position.cc`, `neural/encoder.cc`) | list of positions with counters | `Append`, `ComputeGameResult`, `EncodePositionForNN` | `ChessGame` |
| Syzygy tablebases (`syzygy/syzygy.cc`) | hash table of entries, mapped files | indexing, decompression, `probe_wdl`, `probe_dtz`, root probes, lazy mapping | `SyzygyIndex`, `SyzygyPairs`, `SyzygyProbe`, `SyzygyTables` |
| Options, configuration (`utils/option*.cc`, `utils/configfile.cc`) | nested dictionaries | flags, file, `setoption`, listing, text of backend options | `OptionsParser`, `OptionsText` |
| UCI loop, limits (`chess/uciloop.cc`, `engine.cc`) | the last `go`, spared time | `ParseCommand`, dispatch, `PopulateSearchLimits` | `UciLoop` |
| Best-move choice, parameters, factory, weights, logging, OpenCL, TensorFlow, benchmark | | | see "Not modelled" |

What makes each of them correct, in a sentence:

* **Lifecycle.** A search answers at most once, only when it is allowed to, with
  nothing after it, and it always answers if it must. Nobody outlives it.
* **Workers.** A virtual loss is always taken back, every visit counted once, a
  node being extended belongs to one worker, and a node is declared won or lost
  only if it is.
* **Cache.** A pinned entry lives until it is unpinned; nothing leaks; the hash
  table and the queue agree; a batch finds under each of its positions the
  evaluation of that position.
* **Networks.** A thread gets the results of its own positions, and gets them
  eventually, whoever shared the batch or split it; a comparison reports what differs.
* **Backends.** On buffers that are shared, reused and laid out differently, what
  comes out is what the network computes, and nothing is written past an end.
* **Self-play.** Every game that was decided is counted once, the final report is
  the last, colours are balanced, and stop and abort end.
* **Engine and tree.** A search keeps the tree, network and tablebases it began
  with, answers the position the host set last, and starts from visits that belong
  to that position.
* **Chess.** The bitboard code plays chess; results follow from the game; the network
  is shown the game as it was.
* **Syzygy.** A position finds its own value; the moves that probes allow do not
  spoil the result; threads share mapped tables.
* **Options and UCI.** Texts mean what they say, values keep their ranges and their
  precedence, and the limits of a search respect the clock and the memory.

`PROJECT.json` lists the hazards of each at its line.

### How they interact

```
 GUI -> UciLoop -> EngineController --owns--> Search --owns--> watchdog, workers
            |            |        |                              |    |
      OptionsParser   NodeTree    +--> Syzygy <------------------+    |
                         |  nodes_mutex_                              |
                    GC thread                         CachingComputation -> LruCache
 SelfPlayLoop -> SelfPlayTournament -> SelfPlayGame -> Search         |
                                                                      v
              backend (CUDA, BLAS)  <-  Muxing / Demuxing / CheckNetwork
```

The calls down are ordinary calls. The answers up are callbacks made by whichever
search thread notices the end first, with `nodes_mutex_` and `counters_mutex_`
held.

## Modules

Conventions: an action is one critical section of the code, or one unlocked step
between two; two mutexes held together are one section. Names are those of the
source. An operator marked `Mutant:` is a plausible bug beside the definition it
would replace; no specification uses it. Where several independent parts are examined
by one configuration (`Backends`, `Syzygy`, `Engine`), the initial state chooses
the part and the other parts' variables stay empty or as they began; a part's actions are those of its
own module.

### `SearchLifecycle`, `BestmoveService`

`SearchLifecycle` is one `Search` object from construction to destruction. The
workers' loop is reduced to gathering (`GatherVisit`, `BackupOutOfOrder`,
`GatherCollision`, `GatherEnd`), `DoBackupUpdate`, `UpdateKLDGain` and the calls of
`MaybeTriggerStop` and `MaybeOutputInfo`; the watchdog has its own loop with the
wait of its condition variable; the owner calls `StartThreads`, `Wait` and the
destructor, and anybody calls `Stop` and `Abort`. Whether the average depth or
the KLD gain asks for a stop is a free choice when such a limit exists, and time
passes at any moment.

`BestmoveService` says what a client may rely on: a search is asked for, may be
silenced, and answers at most once.
`SearchLifecycle` implements it by a refinement mapping, and with fairness it
implements the fair service.

### `SearchTree`

The tree under several workers, one level of detail deeper than the lifecycle's
counters. `PickVisit` and `PickCollision` are the two ways `PickNodeToExtend`
ends; `Extend` is unlocked, as in the code; backups take `nodes_mutex_`, one item
at a time so that the order of a batch shows. `Converted` is the loop that turns
ancestors into terminals. `MakeMove` starts the next search on a subtree. The
choice among children is free, because PUCT may prefer any of them; the numbers
of the network are not represented, since no control depends on them except
through that choice.

### `LruCache`, `CachingComputation`

`LruCache` has items and their places (hash chains, queue, evicted list) for `Insert`,
`LookupAndPin`, `Unpin`, `SetCapacity`, `Clear` and the destructor, in the order the
code takes its decisions: capacity is read before the lock. An item is an identity, so
that one key may exist twice, as it does when a pinned entry is evicted and inserted
again. `CachingComputation` composes it with the batches of search threads: a position
is looked up, added as an input after a miss (and looked up again in between, as
`AddInput` does), popped, computed, inserted and read. The constant `ResizeInUse` allows
`SetCapacity` on a cache that holds entries; `cache` resizes an empty one, because of
the defect that `cache_rehash` shows.

### `MuxingNetwork`, `DemuxingNetwork`, `CheckNetwork`

`MuxingNetwork`: search threads with computations of one or more positions, the queue,
backend threads that sleep on a condition variable with `notify_one` as it is (it
wakes one sleeper or nobody), spurious wakeups, and a destructor that may come at
any time. An upstream computation is an address that is free again when nobody
refers to it (`shared_ptr` in the code); which results a client reads is decided by
`IndexOf` and `planes`.

`DemuxingNetwork`: a computation is split into pieces; the client holds the mutex of its
computation while it queues them and gives it away in `wait()`, so workers may pop pieces in
one order and could add them in another. `CheckNetwork` compares two outputs with
absolute and relative tolerance, `NaN` included. What is compared is q and the policy: the code
never looks at the probability of a draw (`GetDVal`), and neither does the model.

### `CudnnNetwork`, `CudnnKernels`, `FusedSeKernel`, `BlasNetwork`, `WinogradConvolution3`, `ResNet`, `Backends`

`ResNet` states what a network computes, as terms: two tensors are equal when the same
operations made them from the same weights and inputs. `CudnnNetwork` builds the list
of layers as the constructor does, for each precision and layout, and runs `forwardEval`
on three buffers, one layer an action, while other threads wait for the lock or use
host buffers from the pool. `BlasNetwork` computes a batch in chunks on buffers that
rotate. Each writes the elements it writes to a buffer of its real size.

`CudnnKernels` has the index arithmetic of each kernel as a set of <<element written, what
it is made of>> per thread; `FusedSeKernel` runs the warps of the fused unit between
its barriers; `WinogradConvolution3` is the transform over integers, compared with
the convolution by its definition. `Backends` puts them and the three networks above behind one `part`.

The threads of a warp of the fused unit take each step together, as the code supposes, and warps
meet at its two barriers only. Units of every number of outputs are looked at, those of one
warp and those of more.

### `SelfPlayTournament`

Workers, games and the thread of the loop. The search of a game is what the
lifecycle promises: it runs until it has reached its limits or was aborted. How
many workers there are and how many games are fixed in the initial state. With
one worker the thread in `RunBlocking` is that worker, as in the code.

### `NodeTree`, `EngineController`

`NodeTree` models nodes by their addresses, because `ResetToPosition` compares the old head
with new nodes by address after it may have been freed. A subtree that is cut off goes
to the queue of the collector, which frees it in its own time, after which its
addresses are used again. `EngineController` composes it with the commands of a host:
each is one action, except those that wait for the search. `position` and `ucinewgame` abort the search
and await it (`SetPosition`, `NewGame`), and go on when it has ended (`SetPositionEnds`, `NewGameEnds`):
`SetPosition` has replaced `current_position_` before (`engine.cc:305`, then 306), and between
the two a search that was stopped may still answer, since `Abort` does nothing after `Stop`. `Go`
runs move by move through the position while playouts and the collector go on beside
it. The search is the interface of `BestmoveService`: running, permitted to answer,
answered, silenced by `Abort`, and gone when its threads are joined.

`AnswersThePosition` therefore speaks of the position that was set by the last `position` command that is over:
an answer that comes while the next one is destroying the search is for the position before. `SameStart`, by
which `ResetToPosition` decides whether to keep the tree, compares the board only, as in the
code; counters and repetitions before the first position are left out, and its board is a value that
stands for the FEN.

### `ChessBoard`, `ChessGame`, `ChessRules`

`ChessBoard` is the bitboard code: boards seen by the player to move, mirrored after
each move, a bitboard being a set of squares; pins, double steps stored as pawns on
the first and last rank, castling, legality by attack lines. `ChessGame` adds `Append`,
repetitions, `ComputeGameResult`, `EncodePositionForNN` and the indices of moves in the
policy. `ChessRules` says what chess is on a board nobody turns round: a move is legal when a
piece can make it and the king cannot be taken afterwards. `GameFollowsRules` is the
refinement: `ChessGame` implements `RulesSpec` under the mapping that turns boards back.

### `SyzygyIndex`, `SyzygyPairs`, `SyzygyProbe`, `SyzygyTables`, `Syzygy`

Four parts of one file. `SyzygyIndex`: the encoding of a placement of pieces as an index,
from the squares' tables (given by the rule that generates them) to the header's
order of pieces. `SyzygyPairs`: `setup_pairs` and `decompress_pairs` over a word of
`WordBits` bits refilled by halves, with the sparse index. `SyzygyProbe`: `search`, `probe_wdl`,
`probe_dtz`, `root_probe` and `root_probe_wdl` over small games whose tables hold what the
generator promises, and any value where it promises nothing; the engine then plays the
moves a root probe allows against every defence. `SyzygyTables`: the open-addressed hash
table, and files mapped on first use with double-checked locking; a file that turns
out to be bad deletes its slot.

A DTZ table stores plies for some classes of result (won, lost; `kPAFlags`) and moves for the others, which
`probe_table` doubles (`syzygy.cc:1441`). The model has both: `game.plies` are the classes that
count plies, stored values are rounded down to moves otherwise (`DtzEntry`), and `probe_dtz_table` doubles them
by the class it is asked for. What a probe tells may then be a ply less than the
truth, as the comment at `syzygy.cc:1564` says, and `TellsDtz` says exactly that: the class is right, and the
plies are exact where plies are counted and at most one less where moves are. The comment goes on
"This cannot happen for tables with positions exactly on the "edge" of the 50-move
rule"; that is a promise of the generator (`EdgeInPlies`), without which a win is lost.
The further map from stored bytes to values (`dtzMap`) is taken to give the value back, and tables
that are symmetric, which have both sides, are not among the games.

### `OptionsParser`, `OptionsText`, `UciLoop`

`OptionsParser`: defaults, the configuration file, the command line, `setoption`, contexts,
and the listing that `uci` prints, with `stoi` and `stof` as a table from strings to a
number or to one of the two exceptions. `OptionsText`: lexer and parser of backend options,
character by character, because what is checked is that a written text is read as
meant. `UciLoop`: the start of the program, `ParseCommand` and dispatch, what ends the
program and what is only answered, and `PopulateSearchLimits` over a game of a clock. `Engine` puts
`EngineController`, `UciLoop` and `ChessGame` behind one `part`: a position is a board and moves to
the first, a line of words to the second, and a game to the third.

## Runs

| Run | Shows | Bounds |
|---|---|---|
| `lifecycle` | who answers, when and how often; no thread outlives its search; a limited search and a destruction end; refinement of `BestmoveService`, safety and liveness | 2 workers and the watchdog, 5 kinds of limits, counter saturates at 2, a search that starts without visits |
| `tree` | virtual loss, ownership, visit counts, decisive conversions, the end of every search | 2 workers, 5 nodes three moves deep, batches of 2 that items leave early, multi-visit collisions of 2, searches of 2 playouts one after the other, 3 choices of results |
| `cache` | pins, leaks, hash against queue, samples of their positions | 2 threads with batches of 2 between them, 3 keys of which 2 share a bucket, 5 items, capacities 0 and 2 |
| `networks` | whose results, batch sizes, wakeups, everybody returns; both backends compute the network within their buffers; kernels, Winograd, barriers | 2 clients, 2 backend threads, sizes 1 and 3 for a maximum of 2; pieces of 0, 1 and 4 inputs over 2 networks; 5 networks each for CUDA (2 threads, 4 options, 3 computations) and BLAS; 5 shapes of the fused unit, 2 of them with outputs in more than one warp; 4 and 3 shapes of kernels and convolutions |
| `engine` | the collector frees nothing that can be reached, visits and their positions, what a search keeps, what it answers; texts, options, limits; legal moves, games, results, planes and policy entries | 4 addresses, 2 moves, 2 starting boards, 4 positions of the host, 4 commands, 3 visits; addresses are symmetric, and which address was freed before is no part of a state (VIEW); 17 command lines, 3 files, 3 lines of a host out of 23, sentences of up to 5 words, texts of up to two entries; 9 chess positions played out for up to 14 plies |
| `selfplay` | counting, final report, abort, stop, everybody returns | 1 or 2 workers, 3 games or no end of games, 1 move each |
| `syzygy` | values read back, play keeps the result, tables shared | 6 layouts with all placements on chosen squares, contents of 2 and 3 blocks, games of 3 positions with tables that count plies, moves, or either by class, a line of 5 positions towards the edge of the fifty-move rule, 2 threads over 2 materials, one bad file |
| `draw_conversions`, `cache_rehash`, `blas_overflow`, `fused_race`, `late_bestmove` | findings, below | as `tree` (another tree), `cache` (resized in use), `networks` (few filters; 64 outputs), `engine` |

Why the bounds are enough. The lifecycle distinguishes no playouts, some and the
limit reached, so a counter that saturates at 2 meets each case. A tree with two
workers has every kind of collision (on the root, on an inner node, on a leaf) and of
decisive conversion; three plies let a conversion climb. A batch of two is the least in
which an item leaves early while another one waits for the network. Five items allow
two generations of one key while an older one is pinned. Two clients and batches of two
are the least with a computation that shares a batch, one that has to wait for the next
batch, and one that exceeds a batch on its own; four inputs over two networks make pieces
of different clients alternate in the queue. Two threads, two host buffers and a third
computation make a buffer of the pool go round; the networks take each branch of the
constructors (with and without units, both policy heads, both value heads, filters below
and above the input planes). Four addresses are the least in which the old head is freed and its
address used again within one `ResetToPosition`, and the host's positions go forward, back, to a
sibling and to another game. The chess positions are those in which the special
cases of the generator meet (pins and en passant, castling through attack and after a rook
was taken, promotions with capture, double check, mate at the fifty-move limit,
repetition); a generator that is right for a piece on one square of these boards is
not right by accident on another, but this is testing of positions, not proof. Three
positions are the least with a loop, a way out and a defence that chooses. Every
option kind and source appears on a command line, and three lines let a value be set,
misused and listed.

`PlayoutCap`, `MaxCollisionEvents`, `MaxBatch`, `MaxMoves`, `GamesCap`, `Computations`, `MaxVisits`,
`MaxCommands`, `MaxLines`, `Lag` and the sets of items and addresses are bounds of the models,
each named in its module; the code has none of them, except that it limits collisions. Deadlock is checked
in `cache`, where somebody can always act. A search, a tournament, a destroyed network, a
game, a probe and a program come to an end, so there a state without successor is
legal; that nobody waits for ever is then a liveness property (`LimitedSearchEnds`, `SearchEnds`,
`ComputationsReturn`, `EverybodyReturns`).

The `TypeOK`s of `SearchLifecycle`, `SearchTree`, `CachingComputation`, `SelfPlayTournament`,
`MuxingNetwork` and `EngineController`, and the invariant `AtMostOneBestmove`, are not in a run: they are proved.
`ImplementsService`, the safety part of the refinement, is proved as well; the run checks it within
`ImplementsFairService`.

## Fairness

* Threads run: weak fairness of each worker, backend thread, watchdog and joining
  thread. The operating system's scheduler is the justification.
* A mutex that is free again and again is obtained at last: strong fairness of the
  steps that lock it, where another thread can take it repeatedly (`SearchTree`,
  `SelfPlayTournament`).
* The watchdog's `wait_for` has a timeout, hence its wake-up is fair. The network
  answers, hence the end of a computation is fair.
* Nobody has to call `Stop`, `Abort`, a destructor, `start` or a command: those are
  not fair. Time passes: a deadline comes at last.
* A client that has its results reads and releases them. It need not ask for more.

## What is proved

The theorems hold for every value of the constants that satisfies the named assumptions of
the modules. These are what the code gives: `SizeAssumption` and its like bound counters;
threads, workers and nodes are finite sets; a value that stands for "none" (no node, no item,
no position, no network) is not one of the things it stands beside; a cache has at least one
key. Each module of proofs extends the module it is about and has one inductive
invariant, a conjunction of named parts, with one step of proof per action and, below it,
one per part that the action can disturb. TLC checked each strengthening on the small
instance before it was proved.

`SearchLifecycleProofs`: `TypeCorrect`, `AnsweredOnce`, `BestmoveLast` (the run's
`BestmoveIsFinal`), `ThreadsAreDone` (`NoThreadOutlivesSearch`), and `SearchIsService`
(`ImplementsService`): every step is a step of `BestmoveService` or a stutter.
"At most one answer" alone is not inductive: a state with one reply and
`bestmove_is_sent_` unset satisfies it, and the next trigger answers again. The strengthening
ties the number of replies to that flag, answers to `ok_to_respond_bestmove_` and `stop_`,
the watchdog's exit to the flag, a worker's exit to `stop_` and to empty hands, and the
threads that exist and are not joined to the stage of the owner.

`SearchTreeProofs`: for any finite tree and any number of workers, that virtual loss is conserved
(`LossConserved`), that a node is extended by its owner alone (`Ownership`), that visits add up
(`VisitsCorrect`) and that a node turned into a decisive terminal is one (`ConversionsCorrect`). They
need each other: the loss on a node is the sum, over the items of all batches and the picks in
progress, of the visits whose way leads through it, so a backup that takes one item away must know that
the item's way is the chain of its parents (`WayInv`); visits add up only while an ancestor that was converted
keeps its count (`VisitInv`, `NodeInv`). `SumTheorems` has what they need of sums over finite sets: how a
sum changes with one function value, with one element, and with an item appended to a batch.

`SelfPlayTournamentProofs`: a game that was aborted does not think (`AbortedGamesAreQuiet`), the final
report is the last and is true (`ReportIsFinal`), every game counts once (`GamesAreCounted`). The
invariant ties each thread's place to the flags it has read (`ThreadInv`, `FlagInv`), the
count of started games to the games in progress and the results (`CountInv`), colours to the parity of
the count (`ColourInv`), and the report to the end of all threads (`ReportInv`).

`EngineControllerProofs`: for any finite set of addresses and any game, the tree is whole
(`TreeWhole`): the current tree, the old tree behind the head and each queued
subtree are disjoint trees, so that the collector frees nothing a search can reach;
a search keeps the position, network and limits it was made with (`WorldKept`), answers for it
(`AnswersCorrect`), the visits below the head add up (`HeadVisitsCorrect`), and a node with visits has
them from its own position (`VisitsOfThePositionCorrect`). The last needs a label on every node of the tree,
the moves that lead to it (`Labelled`): each step keeps the labels of what it keeps, and a node
that gets visits gets them of its label. `MovesTo`, a recursive function over what is below the head,
finds the rest of the label (`MovesToLabels`, by the longest way for which it would not). The module begins with the facts
about forests: what is reached from a child closed under the parent relation (`SubtreesClosed`), what
a step that cuts or hangs one edge changes (`Rewired`), that two ways down from one node go through
the same children (`OneWayDown`), and how a playout along a way changes the sums of visits (`Counting`).

`CachingComputationProofs`: for any threads, keys, buckets and capacities, a pinned item is alive and pinned as
often as batches hold it (`LockedAlive`), items are in the queue or in the evicted list and nothing
leaks (`NothingIsLeaked`), the hash table has exactly the queue's items (`HashAgrees`), and each
sample of a batch is of the position it was added for (`SamplesCorrect`). The hypothesis of all of them is
`~ResizeInUse`: the capacity changes only while the cache is empty, as it does where the engine
is used as it is meant; without it `cache_rehash` shows that they are false. The loop of
`ShrinkToCapacity` is a recursive function; that it ends, evicts from the old end and only there
(`EvictionsExist`) is shown by the least capacity excess for which it would not.

`BackendsProofs`: for any number of clients, threads, batches and inputs.
`MuxedCorrect`: a computation that waits is in the queue or with one worker, once (`EachInOnePlace`),
its place in the batch is that of its own inputs (`WorkerInv`, `ClientInv`), and a sleeper is
notified for each computation in the queue (`NoLostWakeup`). `DemuxedCorrect`: `dataready_` counts the
pieces that are not notified; those in `parents_`, with workers, in the queue and not yet queued
are `splits` together (`Tally`); and wherever they are, they are in the order of their inputs
(`InOrder`), which the mutex of the computation keeps although workers pop and add pieces
independently. `CheckCorrect`: `IsAlmostEqual` is the tolerance (`AlmostEqualIsWithin`), comparing
fractions by their cross products is comparing fractions (`LargerFraction`), and `MaximumError`, a
recursive function, returns an error that occurs and is not exceeded (`MaximumErrorFacts`, by the first
prefix for which it would not). `FusedCorrect`: what shared memory holds between two barriers
(`Averaging`, `FirstLayerPhase`, `SecondLayerPhase`), for every number of warps and outputs: nothing is
read before it is stored, and a hidden value is read for an average by no warp but one that stores
beside another one that stores. `NarrowUnitsInOrder`: hence the layers are computed in order
(`FusedLayersInOrder`) if the outputs fit in one warp. With 64 outputs they do not, and
`fused_race` shows what then happens.
`BackendsCorrect` is about both backends: whatever the net, the precision and the number of
threads, what a computation reads is the network of its own inputs. Host buffers are in
the pool or with one thread (`CudnnPool`), the thread that evaluates holds the lock alone and has run a prefix of
the list of layers, whose term each buffer still needed holds (`CudnnThread`, `Reached`); on the CPU the
chunks before this one are done and the three pointers are three buffers (`BlasTypes`, `BlasComputes`).
`WritesFitCorrect`: no layer writes past its buffer (`WritesFit`, `BlasRoom`). There are two hypotheses.
`BlocksAlike`: all blocks of a CUDA net have units or none has, because the constructor asks the first
block only. `RoomForInputs`: a CPU net has as many filters as input planes, or no units, or a number
of units that turns the three buffers back to where they began; without it, finding 3.

`SyzygyProofs`, the tables: for any number of threads, any materials, and whichever files are bad, each
lookup gets the table of its own key, mapped, or nothing (`TablesSharedCorrect`, the run's `TablesAreShared`).
That linear probing finds every key it has put into a table that is not full
(`FullHolds`, `KeysLead`) is proved about the table when all files are listed; afterwards a slot only
loses its table (`HashInv`), so a thread on its way has passed no slot of its key (`ProbeInv`), and only
the thread in the mutex maps a file (`LockInv`, `FileInv`). The assumptions are those of the code's
own constants: keys are distinct, there are more slots than keys, and a material is listed once.

`SyzygyProofs`, the probes: in every game, a probe that does not fail tells the value of its position,
and with complete tables, whatever the engine picks among the moves that the root probe calls safe, against any defence,
the result is as good as the root's (`PlayKeepsTheResultCorrect`, the run's `PlayKeepsTheResult`). The argument has three parts.

* The value itself. The stages of the retrograde analysis are a function that exists (`TruthUnfolds`),
  a value is born in its own stage and stays (`ValuesAreBorn`, `ValuesPersist`), and there are more
  stages than positions, so the last one adds nothing (`LastStageIsEmpty`, by counting). Hence
  the value of a position is that of its best move (`Sound`, `TruthIsSound`).
* The probes. What the tables do not store, because one side is missing, the generator promised nothing, or a
  capture decides, is found from the moves: `SearchTells`, `SettledTells`, `ProbeDtzTells`,
  `RootProbeWdlTells`.
* The play. The best ranks belong to the moves that keep the class and, for a win, the plies that the
  fifty-move rule leaves (`SafeMoves`). The inductive invariant `PlayInv` carries from position to position
  that the class for the engine's side is at least the root's, with the counter still in time (`Kept`).
  Where the side's values are told in plies the counter may use the last ply; where they are told in
  moves a ply may be hidden, and what is kept leaves it to spare (`Brink`, `Saved`). That this is
  enough rests on the edge's promise and on parity: the engine moves when the counter is even, as `Rule50` is.

`ProbeAssumption` says that positions are finite, moves alternate the sides, and `Rule50` (100 in the code) is even and below 500.
One hypothesis: `RanksSuffice`, no position is so many plies from a zeroing move
that, with `Rule50` added, it comes to 1000, the largest rank. The code ranks a win that is late by 1000 less these
plies, so beyond that a win would rank as a draw or worse. It holds in every game of the
run, and for the code's tables it asks for fewer than 900 plies.

Only model-checked:

* Liveness: `LimitedSearchEnds`, the fair part of the service's refinement, `SearchEnds`,
  `ComputationsReturn`, `EverybodyReturns`; this prover cannot treat fairness.
* `KernelsComputeTheirLayers`: sets of writes and sums over them, for chosen shapes.
* The properties of `ChessGame` and of `UciLoop`, and `ValuesAreReadBack` of `SyzygyIndex` and `SyzygyPairs`: what
  the recursive definitions of `ChessRules`, `SyzygyIndex`, `OptionsText` and others compute for every
  input needs induction over data.

## Findings

Five are runs that TLC finds violated.

1. `draw_conversions`: `DoBackupUpdateSingleNode` makes a node a draw although
   other moves are not drawn: an unvisited terminal counts with the default value
   0 (`mcts/search.cc:1322`).
2. `cache_rehash`: `LruCache::SetCapacity` on a cache with entries loses entries
   and links others to themselves, because the loop advances `head` while it
   relinks `iter` (`utils/cache.h:164`).
3. `blas_overflow`: when the number of blocks with units is not a multiple of three, with fewer filters
   than input planes and more than one chunk, the CPU backend encodes a chunk into a buffer without room for it
   (`neural/blas/network_blas.cc:195`).
4. `fused_race`: the fused unit with 64 outputs stores hidden values into the shared array from which another
   warp has still to read averages, without a barrier between
   (`neural/cuda/fp16_kernels.cu:100`, against `neural/cuda/layers.h:171`).
5. `late_bestmove`: `Abort` after `Stop` does not silence a search (`mcts/search.cc:717`, against
   `mcts/search.h:78`), so that `stop` and `position` in a row get the bestmove of the old position after
   the new one is set.

The following were met while reading. The models have what the code does, unless they leave that
part out; no run is about them.

* Search: the watchdog spins between the stop and the answer (`search.cc:694`).
  `UpdateRemainingMoves` computes from `limits_.visits` when only playouts are limited
  (`search.cc:456`).
* Self-play: a game claimed before `Abort` and entered after it is played to its end
  (`selfplay/tournament.cc:234`, against `tournament.h:59`); with one parallel game `Wait`
  finds no thread to join (`tournament.h:56`).
* Cache: a lookup leaves its entry where it is in the queue, against `utils/cache.h:98`.
* Engine: a tablebase path that failed once is loaded again only when it changes
  (`engine.cc:262`); a change of the network leaves the results of the old one in the cache and in the
  tree; `position` during a search destroys it without a bestmove.
* Limits: the default `visits` of -1 is never limited by memory, and the subtraction at
  `engine.cc:176` wraps when the cache exceeds the limit (`MemoryIsLimited` excludes both
  cases); the time that a stopped `go movetime` has left is spent on later moves (`engine.cc:379`).
* Options: the configuration file's name is tested for being the default before the flags are
  processed (`utils/configfile.cc:105`), so that a missing file given by name is ignored in
  silence (no property speaks of it); numbers that `stoi` rejects end the program (`utils/optionsparser.cc:411`,
  `chess/uciloop.cc:117`); values of a repeated keyword are joined.
* Syzygy: when a file turns out to be bad, a thread may dereference the pointer another one has just
  cleared (`syzygy/syzygy.cc:1338`, against "Thread safe" at `syzygy.h:75`), and a bad DTZ
  file takes the WDL table with it. `TablesAreShared` says that nothing else goes wrong. `InitFails` is
  the failure that `init_table` returns; a file of a wrong size throws (`syzygy.cc:1045`; in a search
  thread nobody catches that), and a failed `mmap` ends the program (`syzygy.cc:1052`): neither is in the model.
* Networks: `CheckNetwork` reports no error for outputs that are not numbers in the modes that
  only display (`neural/network_check.cc:176`); results of a computation that was released by the
  destructor of the demultiplexer must not be read (`network_demux.cc:141`); the BLAS backend with
  `batch_size=0` never ends (`network_blas.cc:192`).
* CUDA: units with 16 outputs and other than 64 channels are
  refused; `globalScale_kernel` lets one thread too many pass (`common_kernels.cu:337`).

## Not modelled

* Search, choice of the best move: PUCT, temperature, KLD gain, `UpdateRemainingMoves` and
  smart pruning are floating-point formulas over visit counts. The models let the search
  choose any child and any answer.
* OpenCL, TensorFlow, random, round-robin and single-threaded batch backends: other
  implementations of the network, a counter, an offset. Products of matrices inside cuBLAS, cuDNN
  and the BLAS library are external.
* Weights, factory, parameters: decoding of a file and registration at start-up have no
  state that changes later. Of the factory only the reading of its options is modelled.
* Logging, histograms, files, benchmark, `main`: input and output, or drivers of one search.
* Writing of training data; the text of moves, boards and help pages; hashes of positions
  (equality of positions stands for them) and of material (distinct sums are assumed).
* Data races on counters that are only shown to the user.
* Within modelled parts: prefetching into the cache, resignation thresholds, the header of
  a tablebase file, replacing a search by the next one in several steps.

## Plan

Done: the modules above, and the proofs of the safety properties of the lifecycle, the tree, the
cache, the backends and networks, self-play, the engine, and the tablebases in memory and in play. Left,
for the models: the decisions of `mcts/search.cc:414-644` over integers, and the buffers of the OpenCL
backend by the scheme of `CudnnNetwork`.
