# TLA+ models of chplx

chplx translates Chapel programs to C++ (`backend/`, on top of Chapel's own
frontend) and gives the generated code a C++ library on top of HPX (`library/`).
This directory holds TLA+ specifications of the parts of it that carry its
control: what tasks do to each other through sync and single variables, what a
loop over a range, a domain or a zippering calls, in which order and how often,
where the indices of an index buffer go, and what the compiler's three passes make
of a program: which statement is printed where, in which order, naming what.
TLC checks them on small instances, TLAPS proves the main results for every
instance. Line numbers are those of the files in the repository at the commit the
models were written from; `library/include/chplx/` is shortened to `chplx/`.

    tlc -config SyncMethods.cfg MCSyncVar.tla      # one run, see "The runs"
    tlapm SyncProofs.tla                           # one proof module

## 1. The system

### Library

| Part | State | Operations | Interacts with | Hard behaviour | What makes it correct | Here |
|---|---|---|---|---|---|---|
| Sync variable, `chplx/sync_variable.hpp` | value, full, a spinlock, two condition variables | isFull, reset, readFE, readFF, readXX, writeEF, writeFF, writeXF | the tasks that share it; HPX's condition_variable_any | interleavings, notifications after the unlock, one notify_one for several sleepers, spurious wakeups | each call takes effect at once and in the state it blocks for; no wakeup is lost; a value written is read once | `SyncSpec`, `SyncVar`, `SyncClients`, `SyncProofs` |
| Single variable, `chplx/single_variable.hpp` | value, full, a spinlock, one condition variable | isFull, readFF, readXX, writeEF | as Sync | the single test of full, the second writeEF | written once, every reader gets that value | `SingleVar`, `SingleVarProofs` |
| Ranges, `chplx/range.hpp` | none: a value | by, +, #, slice, align, expand, ..., size, first, last, contains, orderToIndex, indexOrder | domains, loops | strides of both signs, open ends, rounding, empty ranges | the operators denote the sequence their comments say; the two conversions invert each other | `Ranges`, `LoopProgram`, `LoopProgramProofs` |
| Rectangular domains, `chplx/domain.hpp`, `chplx/domains/` | its ranges, a domain map | as ranges, in each dimension | ranges, loops, arrays | the row-major quotients and remainders | the same | `Domains`, `LoopProgram`, `LoopProgramProofs` |
| Zippering, `chplx/zip.hpp` | none | size, operator[] | ranges, loops | parts of different size, unbounded parts | pairs up to the shortest | `Domains`, `LoopProgram`, `LoopProgramProofs` |
| Loops, `chplx/for_loop.hpp`, `forall_loop.hpp`, `coforall_loop.hpp`, `adapt_*.hpp`, `detail/iterator_generator.hpp` | a position and a count-down for each coroutine | forLoop, forall, coforall, iterate, subrange | HPX's executors; the body, which may block | recursive cuts, any schedule, bodies that wait for each other, the join | each index once, in order if sequential, none after the return, always a return | `ParallelLoop`, `LoopProgram`, `LoopProgramProofs` |
| Tasks, `chplx/begin.hpp`, `cobegin.hpp` | none | begin, cobegin | the tasks they start | begin is never joined | cobegin joins all | begin in `SyncHandshake`; cobegin in `ParallelLoop`, `LoopProgram` |
| Associative domains, `chplx/assoc_domain.hpp` | a sorted set; a buffer per IndexBuffer | add, remove, clear, indexOrder, orderToIndex; add, commit, copy, destroy | loops | a buffer's indices arrive late, twice or from two tasks; positions that move | no index is lost between a buffer and the set; a loop sees the set it began with | `AssocSpec`, `AssocDomain`, `AssocDomainProofs` |
| Arrays, `chplx/array.hpp`, `domains/base_rectangular.hpp` | a handle of a counted object: its elements and a handle of a domain | copy, assign, move, index, iterate, destroy | domains, loops | copies made by generators that HPX copies; objects that several handles share | assignment is by value; an element is that of its index, whoever wrote it | `ArrayProgram`, `ArrayProgramProofs` |
| Domain maps, `chplx/dmap.hpp`, `library/src/domains/dmap.cpp` | three reference counts, the default map's locale | copy, release, dsi* | domains, arrays, locales | owners that end in any order; static initialisation | deleted once, after the last owner | the counts of domains and arrays in `ArrayProgram`; distributions planned |
| Locales, `chplx/locale.hpp`, `library/src/locale.cpp` | numLocales, LocaleSpace, Locales, here | startup, shutdown, on, user_main_config | HPX's start-up, registerModule | the order of static initialisation, pre-startup functions and hpx_main | nobody reads them before startup or after shutdown | planned |
| Modules, `chplx/util.hpp` | the runtime's lists | registerModule | locales, generated code | registration order | construct after startup, destruct before shutdown | planned |
| Atomics, `chplx/atomic.hpp` | one std::atomic | its operations, waitFor | the tasks that share it | waitFor | waitFor returns when the value is equal | planned |
| Tuples, output, types, strings | none | | | | | no |

### Backend

| Part | State | Operations | Hard behaviour | What makes it correct | Here |
|---|---|---|---|---|---|
| Symbol table, `backend/src/symboltypes.cpp` | a tree of scopes, its list, the current scope, module ids | pushScope, popScope, addEntry, find (3), findPrefix | the kinds of lookup disagree; ids | the scopes stay a tree, nothing entered is replaced | `SymbolTable`, `CompilerProofs` |
| Symbol building, `symbolbuildingvisitor.cpp` | the open symbols, the symbol table, the last node, the config variables | enter and exit of each node | error returns in the middle of a construct; exits that close one scope or two | the scope being populated is that of the construct being traversed | `ChapelAst`, `SymbolBuilding`, `SourceScopes`, `CompilerProofs` |
| Program tree, `programtreebuildingvisitor.cpp`, `programtree.cpp` | the stack of open statement lists | enter and exit of each node | what a node becomes depends on what stands at the end of two lists | each statement once, in its block, in its order | `ProgramTreeBuilding` |
| Code generation, `codegenvisitor.cpp`, `cmakegen.cpp`, `driver.cpp` | output files, options | visit of each statement | functions and config variables move to the front; the path from a scope to its module | names mean in C++ what they mean in Chapel | `CodeGen`, `Compiler`, `Translation` |

The frontend is an external project (the directory is empty), `test/` is Chapel's
own test suite, `benchmarks/` and `publications/` are examples: not modelled.

### How the parts meet

Tasks start in begin, cobegin, coforall and forall, share variables by reference
and order each other only through sync and single variables, or by the join at
the end of a loop. A loop asks its iterand for `size()` once, hands positions to
tasks, and each position becomes an index by `orderToIndex`. A domain is a list of
ranges, an array has a domain, a zippering has several of them: what loops call is
decided by the arithmetic of ranges. An index buffer writes to its domain when it is
full, when it is told to and when its scope ends. In the backend three visitors run
one after the other; the second walks the tree the first has walked and follows the
scopes it left, and the third prints what the second has built. A message on
std::cerr stops none of them.

## 2. The modules and the code

### Sync variables

`SyncSpec` is what the comments above the methods of `Sync` promise: a value, a
flag, and every method one atomic step somewhere between its call and its return.
What an empty variable holds is left open, as the comment on readXX leaves it.

`SyncVar` is the code. Its variables are the data members (`value`, `full`, `mtx`,
and the sets of tasks inside `cv_read.wait` and `cv_write.wait`), and for each
task where it is in the method it called. One method is several steps: take the
lock (`Lock`), test the condition and wait (`WaitFull`, `WaitEmpty`, which enqueue
and unlock at once), or run the body and unlock (`ReadFE`, `WriteEF`, ...), then
call notify_one (`NotifyRead`, `NotifyWrite`: after the unlock, as the code does;
which waiter wakes is not fixed), then return. `SpuriousWake` ends a wait for no
reason. `std::move(value)` leaves either the value or T{} behind, depending on T
(`TrivialMove`). `SyncVar` maps to `SyncSpec` by hiding lock, waits and
notifications: lock, held and wait are "pending", notify and done are "done".

`SyncClients` gives each task a finite program of calls, weak fairness, and the
questions that need a program: is a value received exactly once, does everybody
come to an end. `SyncHandshake` is the program of
`library/test/unit/sync_variable.cpp` on two instances of `SyncVar`;
`SplitPhaseBarrier` the one of `library/test/unit/single_variable.cpp` on an
instance of `SyncVar` and one of `SingleVar`.

`SingleVar` follows the same scheme, with two differences of the code: readFF
tests `full` once, so a woken task goes straight to its return (`woken`,
`resumed`), and `HPX_ASSERT(!full)` in writeEF ends the program (`aborted`). A wait
that ends by itself (`SpuriousWake`) ends the readFF with it, which then returns what an
empty variable holds: section 5. `early` is the set of the tasks whose last call was
ended so. It is written to but never read by an action: the properties need it to say of whom they speak.

### Loops

`Ranges` holds the operators of `chplx::Range` loops are built on. A range is its
data members and template parameters; `lastIndex` is one past the high bound, a
missing bound is MinValue or MaxValue, division rounds as C++ does. `Domains` adds
the product of ranges and the zippering, and what a loop asks of its iterand: is
it bounded, its size, the index at a position.

`ParallelLoop` is one loop over `size` positions. A chunk is the state of one
`iterate()` coroutine: its `ilo`, its count-down, and whether the body it yielded
to is still running. forLoop has one chunk; forall starts with one and HPX cuts it
with `subrange()`, recursively and as it likes (`Split`), before somebody begins it;
coforall has a chunk for each position. `Begin` is `size-- != 0` and the call of
the body, `End` its return and `++ilo`, `Finish` the end of the coroutine. A cobegin is
the loop whose bodies are its statements: `Give` hands the next of them to the task
group, where it may run at once or late, `given` counts them, and `Return` is the
group's wait. Bodies may wait for each other (`meets`), in coforall and cobegin only:
that is what they are for.

`LoopProgram` composes the two: a program takes a range literal, applies up to
MaxOps operators, perhaps makes a domain of two or three dimensions or a zippering of
as many parts with it in any place, applies one more operator to each dimension of a
domain, and loops over the result, several times if it likes, or runs a cobegin.
Beside `it`, what the library computes, it carries `parts`, for each range the sequence
the comments say it stands for, and `Denotes`, their product or pairs: built by
enumeration and without the library's formulas.

`ArrayProgram` lets a program of LoopProgram declare arrays on the domain it has built.
A variable (`handle`) is a pointer to an object of `arrays` or `doms` with its count:
`AddRef`, `Release` and `ReleaseDom` are intrusive_ptr_add_ref and _release, `NewDom` and
`BuildArray` the two factories, `DeepCopy` the copy constructor, `Assign` and `Move` the two
assignments, `WriteAt` an element by its index, `Drop` the end of a scope. A loop over the
array is the loop of ParallelLoop with, for each chunk, the object its generator has a
handle of (`target`): forLoop shares the array's, forall has a copy and copies it
again at each cut, coforall and every loop over an `Array<T, Domain<1>>` refer to the
variable. Bodies add one to their element where they are given a reference they may
write to. `means` is the array as the language has it, a map from indices in their
order, and knows nothing of objects and positions.

### Associative domains

`AssocSpec` is the promise: a set, and the indices owed to it by buffers, none of
which is forgotten. `AssocDomain` is the code: `indices` is the flat_set, each buffer
its vector and its `maxSize`, and the actions are the methods of both classes, with
the copy (which holds what the original holds), the move, the commit of a full
buffer inside `add`, and the commit in the destructor. A loop is a coroutine over an
IteratorGenerator, which has a copy of the domain (`target`), so that the body may
change the original.

### The compiler

`ChapelAst` makes the frontend's tree, as `traverse()` hands it to a visitor: the
sequence of the calls of enter and exit, each with the few fields the visitors
read. `SymbolTable` is the class, its operations as operators from tables to tables.
`SymbolBuilding` and `ProgramTreeBuilding` have one action for each case of enter()
and exit() of their visitor, `CodeGen` one for each kind of statement it
prints; `todo` is the recursion of its StatementVisitor. `Compiler` is main(): the three
passes one after the other as `phase`. `status = "abort"` is a null pointer, a
`bad_variant_access`, an assertion. A line of the output is what kind of statement it
is, the node it stands for, and the names, literals, operators and brackets of its
text; a name the compiler makes from a source line keeps that line.

The kinds of symbols are shared: most are a `shared_ptr` in the variant, so that a symbol on
symstack, the entry addEntry made of it and an argument of a third share one range, array or
function. A `Kind` therefore names an object of `objects` by its tag and the place where it was
made, and `AddArg`, `AddChild` and the exits change the object, for all that refer to it:
bounds pushed to a loop's range after it was entered are in the entry too. What changes an
entry itself is `MarkLiteral`: a call among the elements of an array literal is pushed to the
`literal` of the entry it is taken for. Where the code takes the alternative of a variant that
holds another, or reads past the end of a vector, in the passes or in printing a line
(`Crash`), the step is an abort.

`Translation` states what the output owes to the source, by relating the nodes of the
AST to the printed lines, and knows nothing of the visitors' lists: where a
statement's block is (`home`, `blocks`), what a name means in Chapel
(`DeclarationOf`) and where C++ finds it (`CppDeclarationOf`).

`MCTranslation` has four of the test programs of `backend/test` (cond, cfg, fnc,
heat) with the lines of their `.good` files, and makes 520 small programs that
keep to what the compiler supports; `MCAnyProgram` about 1,450 more that need not. `Ordered` is the order of
the scopes' maps: names in that of their bytes.
*Supported* leaves out what is known not to be translated (section 5): a call
directly after a declaration it would become the value of; a variable declared
straight in the body of a loop or in an else-block; an `if` that ends a then-block; a
function whose name begins that of a scope the compiler makes; two iterators of one
name in nested loops.

`SourceScopes` says which scopes the source of a program has (`IsScope`), and of which
programs the first pass follows them: *Scoped* is what SymbolBuildingVisitor takes for
granted without a test; the proof of section 4 shows that it needs no more:

- `IsTraversal`, `OneModule`: traverse() calls exit for each enter, of one module without
  records or classes, whose exits leave no scope the entry of which was refused.
- `ExpressionsBelong`: what stands inside a declaration. `var r = 1..10` pushes a symbol of
  its own for the range that nothing takes off, and so does a tuple straight in a module; a
  bracket loop there makes the module's symbol an array.
- `BlocksBelong`: a block is a body and a conditional a statement; a bare block is not told
  from an else-block.
- `ArmsAreOnTheirLines`: enter(Block) decides by *lines* whether a block of a conditional is its
  else-block, and exit(Conditional) by the name on top of the stack whether one is open. So a
  then-block begins on the line of its `if`, an else-block on another and ends the conditional, and a conditional straight in an
  else-block fills it: after other statements there it leaves one scope too many.
- `NamesAreNew`: nothing is declared again while it is in sight, the names the compiler makes
  from lines included, since find() goes on outwards and the error return of a redefinition
  leaves its scope open; and no function has "if" or "block" in its name, which are what the pass looks for
  on the stack when a block begins: with its brace on a later line, such a function gets a second
  scope that nothing leaves.

All the supported programs of the runs are Scoped (`SupportedAssumption`, which TLC evaluates),
and three quarters of all their programs: a program may be Scoped and translated wrongly by a later pass.

`MC*` modules give the constants their values. `Mut*` operators, beside the
operator they change, are the bugs each property was tried against: every property
fails on at least one.

## 3. The runs

| Run | Configuration | Shows | Bounds |
|---|---|---|---|
| sync_methods | `SyncMethods.cfg` | any three tasks, every method, at any time, with spurious wakeups: lock and queues agree with where the tasks are (Consistent), no notify_one of a writer is lost (NoStrandedWriter), nor a readFE's but to a readFF or writeFF (OnlyFFStrands); SyncVar implements SyncSpec but for writeXF of an empty variable | 3 tasks, 2 values, symmetric |
| sync_balanced | `SyncBalanced.cfg` | two writers of three values and two readers: each value read once, everybody ends | 4 tasks, 7 calls |
| single_checked | `SingleChecked.cfg` | any calls, with waits that end by themselves: SingleVar is written once, strands no reader, and but for a readFF whose wait ended so it implements SyncSpec and readFF returns after the write only (NotifiedReadFFIsFull) | 3 tasks, 2 values |
| barrier | `Barrier3.cfg` | the test's split-phase barrier: nobody leaves early unless its wait ended by itself, the count is a lock, opened once, all get through | 3 workers and main |
| handshake | `Handshake.cfg` | main and its begin task: the results the hand-over orders hold, main waits for the signal, both end | the test's own two threads |
| loops | `Loops.cfg` | every expression and loop of the bounds: the library's sequence is the language's, positions and indices invert, each index called once, forLoop in order, no return before the last call, always a return, cobegin included; arrays on the domains: counts are exact however variables and coroutines end (CountedExactly), an array is at every moment what its assignments made of it (ByValue) | 8 literals, 3 operators, 3 dimensions, loops of up to 4 positions; two arrays, of sizes 0 and 3 and, for the other, 1 and 4 |
| assoc | `Assoc.cfg` | domain and buffers implement AssocSpec, every index arrives, a loop sees the domain it began with | 3 indices, 2 buffers of size 0 or 2, copies included |
| translation | `Translate.cfg` | the supported programs: the first pass is in the right scope (ScopeFollowsSource), each statement printed once, in its block, in order, with its operands (EachStatementOnce, NestsAsInSource, SameOrder), names mean the same declarations, the options are the config variables, the test programs come out as their .good files, no pass dies. All programs: the scopes stay a tree, no entered symbol is replaced, removed or given another kind (SymbolsStay) | about 1,970 programs, nesting up to three deep |
| sync_readff_lost_wakeup | `SyncReadFF.cfg` | *violated*: FullReleasesReaders | 2 readFF, 1 writeEF |
| sync_writexf | `SyncWriteXF.cfg` | *violated*: WriteXFLeavesFull | 1 writeXF |
| single_readff_early | `SingleReadFF.cfg` | *violated*: ReadFFBlocksUntilFull | 3 tasks, any calls |
| fnc_call | `FncCall.cfg` | *violated*: CallsNameTheirCallee | the test program fnc |

**Why these bounds are enough to be interesting.** Three tasks are the least with
which a waker, the sleeper it wakes and a third that takes the variable in between
can meet; two values tell a stale one from a fresh one; four tasks of
sync_balanced let both sides queue. The proofs below do away with the bound for
the sync properties. The literals of loops have both signs of the stride, an end
the stride does not meet, an empty range, a single index, no stride, and a range
open at each end; by 2 and 3, + -3, # -2, 0 and 3 compose with them up to three
times; the other dimensions and parts are a strided bounded range, a half-open one,
and two bounded ones at once, before, between and after the program's own. Four positions allow a cut of a cut on both sides (MaxSize bounds
the loops that are run; the expressions themselves may be longer). Horizon is how
far a half-open sequence is written out, MinValue and MaxValue (-100, 100) stand
for the limits of the index type and are out of reach of any bound the literals
and operators produce. Arrays of 3 elements can be cut twice, so that a copy of a copy is released
before the first is; assignment meets a shorter and a longer array, and an empty one. `Sound` keeps the expressions of the pass run to uses of + and
# that `range.hpp` computes as its comments say: the others are described in
section 5.

A buffer of size 0 commits at each add and one of size 2 fills with three indices to
choose from; two buffers are an original and its copy or what it was moved to. The
programs of translation put every kind of statement after and inside every other,
since what a visitor does depends on the statement before and the one around;
three levels are what tells "the list below" from "the list below that".

**Deadlock.** It is checked wherever the system cannot stop by right. In
single_checked and single_readff_early it can: a second writeEF ends the program, and a
readFF with no writer waits for ever. The programs of sync_readff_lost_wakeup and of the loops end. The
compiler ends in a step of its own that changes nothing (`Ended`).

**Fairness.** sync_methods, single_checked and single_readff_early are safety runs and assume
none. The others assume weak fairness of each task's next step: HPX runs every
task that can run, on work-stealing queues, and a task that waits gives up its
worker; a task that wants the spinlock gets it because the critical sections are
finite and the programs too. Spurious wakeups are never fair. In
`ParallelLoop` weak fairness of each chunk says that HPX runs every task it was
given; cuts need none; Give and Return are the caller's, a task too. In `AssocDomain` the
destructor of each buffer is fair: every scope ends. The compiler is one thread, and a
thread that can go on does: weak fairness of Next. Deadlock by a bounded pool of workers is not possible where
a blocked task gives up its worker, as HPX tasks do.

## 4. What is proved

`SyncProofs`, from SyncAssumption only, for any set of tasks, any values, any
methods, with and without spurious wakeups:

- *AlwaysConsistent*: Consistent, types with MutualExclusion (a task is between its lock and
  its unlock exactly if it owns mtx) and WaitersAreQueued (who waits is in the queue of its
  method's condition, and nobody else). It is inductive, and types alone are not,
  since a task's queue depends on the method it is in. All that follows rests on it.
- *WritersNeverStranded*: NoStrandedWriter, always. A step can break it only by
  emptying the variable (then that task has yet to notify), by putting a writer to
  sleep (then the variable is full), or by using up the promised wakeup (then the
  woken writer, or an awake one, will look again).
- *OnlyFFStrandReaders*: the dual for those who wait for a full variable fails, and this says how: the step that first leaves
  a task asleep on a full variable, with no wakeup on its way, is the end of a readFF or
  writeFF. *ReadersNeverStranded*: hence never where no client calls those two. The
  assumption is needed: that is the finding of sync_readff_lost_wakeup.
- *Implements*: ImplementsSyncSpec, of all methods. Initial states map to
  initial states; a body maps to the effect of its method, a call and a return to
  themselves, every other step to a stutter. One step is added to SyncSpec's, writeXF of an empty
  variable, which does not do what its comment says (`EmptyWriteXF`, section 5).

Then, of SyncClients: *ReceivedExactlyOnce*, for any number of tasks and any programs without
reset, writeFF and writeXF (`HandOverOnly`) whose writeEF write different values
(`ValuesDiffer`): what has been written is in the variable or has been taken out by one
readFE, never both, nor twice, nor by two tasks. The invariant (`ClientInv`) adds to `Consistent`
which call of its program each task has come to (`Placed`), since a
value counts as handed over from the body of its writeEF on, before the call returns. The
programs of the sync_balanced run meet both assumptions.

`SyncHandshakeProofs`: *TestsHold* and *MainWaits* are OrderedTestsHold and
MainWaitsForTask, of testSyncVariable. Its threads mix the methods; `Effects` counts the
statements of a thread whose method has had its effect, and the two counts decide what both
variables hold (`Cells`), what the threads have waited for (`Positions`) and so
what each test may see (`Passes`). The lemmas about one cell, however the lock and the
condition variables behave, are stated once and used for sync_sy and sync_done.

`SingleVarProofs`, likewise for any tasks, values and methods, with waits that may end by
themselves: *TypeCorrect*, *ReadersNeverStranded*, and *NotifiedReadFFNeverEarly*
(NotifiedReadFFIsFull), which is how far one test of `full` goes. The strengthening is `Handed`: a
task that sleeps no more is in `early` or was woken by a notify_all, which comes after the write,
which nothing takes back, however long the task then waits for mtx. Of those in `early` nothing is
claimed: the run single_readff_early has one that reads too soon. With assertions on,
*WrittenAtMostOnce*, and *SingleImplements*: Single implements SyncSpec with one step
added, `EarlyReadFF`, a task in `early` that is given what the variable holds, full or not.

`SplitPhaseBarrierProofs`, for any number of workers, composes both: `CountP` and
`ReleaseP` instantiate the two proof modules for the barrier's two variables, so that
what those variables guarantee any client need not be proved again. `Places` says which
call each worker is in, `Counted` that the count is either full and tells how many are
missing or in the hands of one worker, `Gate` who opens and who got through,
`Checked` what main saw. From them *CountLocks*, *BarrierHolds* (nobody leaves before
all have come, but one whose wait on release$ ended by itself), *OpenedByOne*, *OneIsLeft*.

`AssocDomainProofs`, for any indices, sizes and number of buffers: *BuffersKeepType*
and *BuffersImplement*: each step of the code is a step of AssocSpec, where "owed" is
what some buffer holds. A copy owes nothing new; a move, a commit, a full buffer and a
destructor each hand over what they stop holding. *LoopsSeeTheirStart*: LoopSeesStart, for
any number of indices: each one a loop yields is taken from its own copy of the domain, at the
position the loop has come to, whatever the body and the buffers do to the original.

`CompilerProofs`, for any program whatever, supported or not, however many error
returns: *TablesAreTables*, *ScopesStayATree*, *EnteredSymbolsStay*. The inductive
invariant is `IsTable` (scopes numbered from 0, each inside an older one, the current one
among them); each action of the first pass is brought back to
pushScope, popScope and addEntry. EnteredSymbolsStay is SymbolsStay: no pass replaces or removes
an entered symbol, gives it another kind or moves a scope; the first pass may set the
literal of one it takes for the callee in an array literal, and that is all that changes
in the entries. The objects that kinds refer to are outside it: they do change, by design.

Then, for every `Scoped` program (section 2), of any size and depth:

- *FirstPassFollows*: `Following` is an invariant. Between any two calls of enter() and exit()
  three lists agree: the scopes of the source around the place, the symbols on symstack, and the
  scopes of the table from the root to the current one. That alone is not inductive. `Follows`
  also says what each symbol is called (`StandsFor`: exits decide by the name how many scopes
  to leave, and an else-if renames the symbol of its else-block), which names each scope may hold
  by now (`Known`: so that no exit finds its own name there and takes the error return), what
  the symbol of a declaration is while its expression is visited (`Declared`: a node does
  different things for each kind), and which line the pass remembers (`LineKept`: enter(Block) compares
  it). A lemma for each step of the pass shows that it opens, leaves or keeps all three lists
  alike; those of conditionals, which may leave two at once, are the hardest.
- *ScopedProgramsAreFollowed*: the scope being populated is as deep in the table as the node is in the source.
- *ScopesFollowTheSource*: ScopeFollowsSource, since supported programs are Scoped.
- *FirstPassIsUndisturbed*: `Undisturbed` is an invariant: what the first pass has made so far
  is what the part of the source behind it says. The config variables that have ended are in
  configVars, in their order and once (`Listed`), and modules is empty until the module's exit.
  `Following` gives it the scopes and names; to be inductive it adds that while the pass is in a
  variable the symbol on top of symstack carries its isConfig, which the exit reads. A lemma for
  each step of the pass shows it `Orderly`: what it may report, list and leave on the stack.
- *NoDeclarationIsReported*: no declaration is taken for a redefinition. What may be reported (`MayReport`)
  is the end of a block, which enters nothing, and a module with a built-in's name.
- *FirstPassEndsAtTheRoot*: the second pass begins at the root, with the one module listed. Here
  and for the options the module must not have a built-in's name (`OwnName`): its exit would return early.
- *ScopesHaveOneNumber*: all scopes have the module number 0 (`Counted`), although the counter is
  0 - 1 after the module's exit: nothing is made there any more.
- *DriverListsTheConfigs*: from these, the step that starts the third pass finds each module number
  in range, and writes an option for each config variable of the source, in its order.
  OptionsExist asks that too; that each is defined and announced comes from the later
  passes and stays with TLC.

The lemmas before them are about bracketings (which scopes contain a place, and what the
end of a node leaves), about tables (`Path` is the chain of parents, find() fails if no scope on
it has the name) and about the steps of literals, calls, identifiers and arrays, which leave all scopes alone.

`LoopProgramProofs` has four parts. First, one loop, for every MaxSize:

- *ChunksSideBySide*: LoopInvariant, of the three loops and of cobegin. AllVisited is not inductive: it says nothing of
  a running loop. The invariant says that chunks own disjoint intervals of
  positions, that in each the part behind the chunk has been visited once and the
  rest never, and that positions nobody owns have been visited. Split divides an
  interval, Begin moves the border, Finish gives up an interval that is all
  behind.
- *ReturnsWhenAllVisited*, *NoPositionTwice*, *SequentialInOrder* follow from it.
- Every program of LoopProgram implements ParallelLoop (*ProgramsRunLoops*), so the same
  holds of programs, whatever their literals, operators and partners.

Second, the arithmetic of ranges with both bounds, over unbounded integers:
*SizeCountsMembers* (size() is the number of multiples of the stride inside the
bounds), *OrdersAreInside*, *LastIsAtLastOrder* (last(), which rounds from the far
bound, is orderToIndex of size() - 1), *IndexOrderInverts*, *ByTakesEveryNth*,
*CountTakesTheFirst*.

Third, what programs make of it, for any literals, partners, operators and ranks:

- *ExpressionsTyped*: every range a program builds has a first index, a domain's are
  bounded, a range without `by` has stride 1. With *DomainIndexOrderInverts* (quotients and
  remainders across the rows of a domain, by induction on its dimensions) it gives
  *ProgramPositionsInvert*: PositionsInvert.
- *ProgramLoopsOverAll*: from its launch on a loop is over size() of its expression.
- *ProgramOrdersAccepted*: OrdersAccepted, for programs that stay Representable.

Fourth, the library against the language, for programs that are `Sound` (section 3), stay
Representable and whose HorizonReaches:

- *RangesMatch*: each range of an expression stands for its sequence in `parts`. One
  lemma for each operator says so; `Matches` says that the sequence is as long as
  size() and has orderToIndex of each position at that position, a half-open range's as far
  as it is written out.
- *ProgramSameSequence*: SameSequence. Three lemmas take the sequences of the ranges to the
  pairs of a zippering and to the rows of a domain, whose `DomainOrderToIndex` divides where
  `Denotes` enumerates.
- *ProgramCallsEachIndexOnce*: EachIndexOnce, from it and ChunksSideBySide.

`Representable` says that no bound the operators compute leaves idxType, `HorizonReaches`
that as much of a sequence without an end is written out as `#` or a zippering takes of it.
They are hypotheses on the behaviour, `[]Representable`, because the operators
compose: bounds on the literals alone do not bound a chain of MaxOps of them. Both
hold in every state of the loops run. Where they fail C++ overflows, or the
model's own list is too short, and nothing is claimed.

The recursive functions of these modules (sizes of a product, least size of a zippering,
rows) are unrolled by `Induct` and `Recursion`: induction on Nat stated with a set in
place of a predicate, and the existence of a function with given steps.

`ArrayProgramProofs`: *ArrayProgramsAreLoopPrograms*: a program with arrays is,
arrays left out, a program without, so all of the above holds of it.

- *ArraysCountedExactly*: CountedExactly, for every
  program with arrays, any sizes and any cuts. Its inductive invariant, `ArrayInvariant`,
  adds that each chunk of a loop over the array has a target and no other does (`Targets`), that
  there are none before and after, and that the counts are exact (`Counted`, stated for any store
  and any number of handles). A lemma for each of AddRef, Release, BuildArray and NewDom says how it moves the counts;
  each action then only has to name the handles it gives and takes.
- *ArraysByValue*: ByValue, under the hypotheses of RangesMatch, which it needs to know that the
  element at the position of an index is the index's. `Valued` is its invariant: the object of
  each variable holds the variable's value place by place, no two variables have one object,
  and what the generators write to is the array's object in a forLoop and no variable's
  in a forall. Counts come in once: the handle that ends with a
  forLoop's coroutine is never the array's last.

Only model-checked: everything under fairness (BalancedTermination, Terminates,
BothEnd, LoopReturns, EveryIndexArrives, Compiles), since liveness and ENABLED are out
of the provers' reach; and what Translation says of the output (EachStatementOnce, NestsAsInSource,
SameOrder, NamesResolve, OptionsExist) with the comparison with the .good files (MatchesGolden, about
given files). They relate a program to what the second and third pass make of it through
statement lists nested to any depth and a task list that is a recursion unrolled, and hold of the
supported programs only, a set given by its members: a proof needs the conditions on programs
that Scoped is for the first pass, for the other two.
Assumed everywhere: HPX's spinlock excludes, condition_variable_any loses no
notification, futures, task groups and for_loop run each task once.

## 5. Where code and comments disagree

Found by a run:

- `Sync::readFF` and `writeFF` may sleep for ever on a full variable: writeEF wakes
  one sleeper, and one of these two does not pass the wakeup on
  (`chplx/sync_variable.hpp:77,104`, run sync_readff_lost_wakeup).
- `Sync::writeXF` does not leave the variable full (`sync_variable.hpp:121`, run
  sync_writexf).
- `Single::readFF` tests `full` with an if and returns T{} from an empty variable when its wait
  ends by itself (`chplx/single_variable.hpp:47`; the comment at 43 says it blocks until full;
  run single_readff_early). Who leaves the split-phase barrier may leave it so too early.
- A call after a declaration with a literal may be compiled to a call of another
  function, whose name begins with the callee's: beta becomes betad in the test
  program fnc (`backend/src/programtreebuildingvisitor.cpp:939`, run fnc_call).

Met while modelling, without a run of their own:

- The sync test asks in main for a state its task may already have changed
  (`library/test/unit/sync_variable.cpp:42`). Line 38 has the same race on sync_done,
  the other way round.
- `# n` of a half-open range with a negative stride has another number of indices
  than n: `..3 by -1 # 2` has one (`range.hpp:904`; 892-898); so has `# -n` of a strided
  range.
- `Sync::reset` keeps the value where its comment has a default one
  (`sync_variable.hpp:43`); SyncSpec allows both, since what an empty variable holds
  is open there.
- `+` on a half-open range with a negative stride moves the bound it lacks and keeps
  the one it has (`range.hpp:946-949`; "missing bounds are ignored", 926-928).
- `# 0` of an unbounded range keeps the missing bound's MaxValue as a real one (921).
- `indexOrder` of an index between two members is the position of the next one,
  not -1 (701), and without a stride it does not look at the bounds.
- `orderToIndex` asserts `(bounded and order <= size) or hasFirst`, which lets any
  position pass for a bounded range (719); the comment calls those an error.
- `align` stores an alignment that first() and orderToIndex never read; `slice` returns the
  bounds of its right operand (a TODO in the code); the "aligned" low bound is the bound;
  `contains` of an index does not look at the stride (650).
- An index removed from an associative domain while a buffer holds it comes back when the
  buffer commits (`assoc_domain.hpp:189-194`).
- `Atomic::waitFor` waits while the values are equal, and nothing notifies it
  (`atomic.hpp:175-180`).
- `Array::indexOrder` returns the index, not its ordinal (`array.hpp:387-394`).
- `forall` over an array works on copies of it (`forall_loop.hpp:276`,
  `detail/iterator_generator.hpp:35`, `array.hpp:116`), so what its bodies assign is
  lost; the model has it so (`RunArrayLoop`, `SplitArray`), and ByValue says the array
  itself is left alone. coforall, and every loop over an `Array<T, Domain<1>>`, give the
  body a `T const &`.
- `Array<T, Domain<1>>(domain, data)` takes the bounds 0 to size - 1, whatever
  those of the domain (`array.hpp:312-315`), and an assignment to one takes the bounds
  of the other array too (318).

Of the compiler; the programs of the translation run that must be translated keep clear
of these, the others meet them:

- *Lost or moved statements.* `var c = 1; alpha();` drops the call, and a call after
  `var n : int;` becomes its value. A declaration straight in an else-block is dropped; one
  straight in a loop body is taken for the iterator and dropped. An `if` that ends a
  then-block becomes an else-if of the one around it. `for a in f { x = a; }` puts the assignment into the
  index set. A literal after a call goes into that call's arguments. Nested calls
  `f(g(x))` become an assignment. Nested operands in a return or an argument are
  printed the wrong way round (`programtree.cpp:483`).
- *Scopes.* A variable that shadows an outer one is reported as already defined in the
  current scope (`symbolbuildingvisitor.cpp:1728`: find goes on outwards), and find(ident, s)
  lets an outer declaration replace the inner (`symboltypes.cpp:93`). Scope names are found
  by words and prefixes: a function named like the beginning of one captures it, and two
  scopes made on one line collide. `var r = 1..10` leaves a symbol on symstack. The scope of
  the second pass is not restored after a conditional; Module, Record and Class are never
  popped there.
- *Ends of the process.* An else-block after a declaration or a loop in the then-block
  (symnode is null); a bare block or a tuple assignment in a module (bad_variant_access at
  its exit); an unsupported operator or a return inside a loop or an if
  unbalances curStmts; nested modules (parentModuleId wraps, modules points at what
  has gone).
- *Shared kinds.* The kind of a variable is the object that other symbols of it refer to
  (`symbolbuildingvisitor.cpp:412`), and literals are appended to whatever is on top: after
  `var a = [1, 2, 3];` the 1 of `var b = a[1];` becomes a fourth element of a's kind (553-579).
- *Types and names.* A function with typed formals loses its declared return type;
  result types are guessed from the names in the body; a bare block in a function without
  formals gives it a formal "void nil". A module's plain variables are
  local to `__main`, so functions that use them do not compile; a config variable with an
  operation for its value is local too, while the driver offers the option. The driver's
  prefix is the file's name, and the headers it includes are listed before the visit.

## 6. What the models leave out

- The values themselves: in sync and single variables they are model values, in
  loops the body is the fact of having been called with an index.
- Overflow of the index type. Integers are unbounded; the literals are small, and
  the limits appear only as the missing bounds.
- The alignment of ranges: it is ambiguous only for a half-open range strided away
  from its bound, which has no first index and which the programs do not build.
- Slices, align, interior, exterior, expand, offset, translate, assignment and
  comparison of ranges and domains.
- Two tasks that change one associative domain: a data race on a vector, of any outcome.
- Of the compiler: the C++ types, qualifiers and layout of the output, the fixed text
  of the files, CMakeGenerator, option parsing, dump(), the values of literals, and the
  two nodes no case makes (UnaryOpExpression, ArrayDeclarationExprExpression). The
  frontend is external: ChapelAst is what the visitors use of it.
- Of arrays: initialisation from nested lists, comparison and output, and assignments of a
  range, a domain, a tuple or a single value. Two tasks that copy or release a handle of one
  object at a time: the count is an atomic, and only one task has handles here but for the
  coroutines of a loop, whose copies are steps of their own.
- Task intents (how the arguments of a body are passed) and annotations.
- The lifetime of C++ objects: a task may still be about to call notify_one on a
  sync variable whose last user has gone. The handshake run has such states; what
  they do to memory is not in the model.
- Exceptions thrown by bodies.
- The two executors of forall: both are "any cut, any schedule" here.
- Everything marked planned in section 1.

## 7. Plan

In order of what matters to a program that runs on the library, then to the
programs the backend writes:

1. *(done)* Sync and single variables, their tests, their proofs; the barrier for any
   number of workers.
2. *(done)* Ranges, domains, zipperings, the three loops, cobegin, their proofs.
3. *(done)* The compiler: symbol table, symbol building, program tree, code generation.
4. *(done)* Associative domains and index buffers, their refinement and its proof.
5. `Startup`: static initialisation, registerModule's functions, startup, hpx_main,
   shutdown, against the readers of numLocales, Locales and here (generated
   modules, DefaultDist, singleLocaleSingleton, which keeps an invalid `here` if it is made
   too early). Two or three modules in every order. Invariant: nobody reads a locale
   before it exists. Theorem: construct after startup, for any number of modules.
6. `AtomicVar`: waitFor against its comment.
7. *(done for domains and arrays)* Reference counts, in `ArrayProgram`, with the proof. Left:
   the distributions' counts and the default map's locale, with `Startup`.
8. *(done)* Arrays on top of the loops: what is shared, what is copied, what a body writes to.
9. *(done)* Proofs of the loops' and arrays' properties against the language; ExactlyOnce;
   LoopSeesStart; the handshake of testSyncVariable; ScopeFollowsSource. Left: the counterpart
   of `Scoped` and `Following` for the second pass (lists on curStmts, scopes restored after a conditional), then NestsAsInSource.
