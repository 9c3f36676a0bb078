# Verification of the course programs in TLA+

The repository is a year of system-programming work in C: short exercises
(`h01`-`h12`), class programs (`c04`-`c11`) and larger projects (`p01`-`p05`).
What is hard to get right in it are the programs made of several processes: the
roller coaster `c09` (pipes), the doctor's queue `c10` (signals), the cinema
`c11` (System V semaphores, messages and shared memory) and the shell `p05`
(pipes, descriptors and children). They are modelled first, then two libraries in
which pointers and counters are hard to get right: the byte stack and the
linked graph. The only JavaScript of the repository is the search page that
Doxygen has put into the documentation of `p02`, in two versions; it is driven by
keys, clicks and timers in any order, and is modelled, too.

## Inventory

| Part | State it keeps | Operations | What is hard | What makes it correct |
|---|---|---|---|---|
| `c09` roller coaster | four pipes, the loop of the car, where each person is | car: offer seats, wait until full, trip, permit exits, wait until empty; person: sit, wake the car, ride, leave | one pipe carries two kinds of wake-up; `write` blocks on a full pipe; `fork` may fail unnoticed | exactly `CAR_CAPACITY` aboard; no wake-up of one kind ends a wait of the other; a full group rides |
| parent of `c09`, `c10`, `c11` | children, pending `SIGCHLD` | fork in a loop; reap one child per signal | exits coalesce; stops raise `SIGCHLD`, too; `wait(0)` blocks inside the handler | main goes on forking; zombies do not pile up; Ctrl+Z and `fg` do no harm |
| `c10` patients | the globals of each process, pending signals, pipe `latest_pid` | broadcast `SIGUSR1`, answer and freeze, poll, queue up, check the predecessor | handlers interrupt each other and the main line; `SIGCONT` may come before the stop | an answer is used once; nobody passes a living predecessor |
| `c10` doctor | none of its own | talk with one patient at a time | it is forked before its pipes exist | one patient at a time |
| `c11` hall, sellers, clients | counters, door semaphores, message queue, seats | seller: wait for 1, 2, 3; client: count, wait for a turn, knock, choose, thank, wake the next | posts of several clients add up; message types; unlocked memory; `RAND_MAX` | what is posted is taken, everybody is served, a seat has one owner |
| `c11` initializer and finalizer | the objects under one key | create three objects, remove three objects; the whole program, or a part of it by the name it is called with | Ctrl+C at any point in every process; the next start; a start in a second terminal | a session that nobody disturbs leaves nothing behind and keeps what it has |
| `p03`, `p05` stack | a buffer, a pointer, a counter | push, pop | frames of different sizes; the counter drifts | last in, first out; nothing behind the buffer |
| `p05` shell | command line, RPN program, stack, descriptors, children | parse, `&&`, `\|\|`, `;`, `\|`, `<`, `>`, brackets, run | jump targets, pipes opened at parse time, a child that fails to exec | the program that runs is the one that was typed; descriptors and children are given back |
| `p03` calculator | RPN program, byte stack | parse, compute | the same stack | value of the expression |
| `p02-1` graph | an array of linked lists | add and remove edges and vertices, reverse, count ways, delete | unlinking while walking; numbers that move | no cell used after `free`, none lost; the lists are what the header says |
| `p02-2` graph | an array of vertices with addresses of each other | add, remove, search | vertices move when the array grows | edges keep leading to the same vertices |
| search page of `p02` | field, filters, frame with results, timers, focus | type, choose, move with the arrow keys, open and close | press and release are two events; timers outlive their reason; the frame loads late | what is remembered is what is shown; what is shown matches |
| `p04` cp, grep, od | file positions | read, write | short and interrupted writes | the copy equals the original |
| `h06` tree, `h07` file, `h10`, `h11`, `h12` | a tree, a file, a counter | delete, reverse, split, pipe, count | last node, odd length, line 100, descriptors, signals | each is freed once, reversal, no line lost |
| the rest of `c04`-`c08`, `h01`-`h09`, `p01` | none | formatting, parsing, starting other programs | none that outlives a call | not modelled |
| tests, coverage, the rest of the Doxygen output | - | - | - | read as documentation, or generated |

Interactions. In `c09`, `c10` and `c11` a parent forks everybody and talks to
nobody. `SIGCHLD` is the only thing that comes back to it. The car and the
persons share pipes; the patients share signals and one pipe; sellers and
clients share semaphores, a queue and memory, which the parent's initializer
creates and every process's Ctrl+C handler removes. The shell's parser writes
a program for its RPN machine, which forks the commands.

## Modules

| Module | Models | Extends or instantiates |
|---|---|---|
| `Ride` | what the roller coaster promises, without pipes or bytes | |
| `Car` | `c09/main.c`: main's forks, `car()`, `person()` | instantiates `Ride` |
| `CarProofs` | theorems about `Car` | `Car`, `TLAPS` |
| `Parent` | the forking loop and `remove_zombie` of `c09`, `c10`, `c11` | |
| `ParentProofs` | theorems about `Parent` | `Parent`, `TLAPS` |
| `Cinema` | `c11/main.c`: `seller()`, `client()`, the tokens of `initializer()` | |
| `CinemaProofs` | theorems about `Cinema` | `Cinema`, `TLAPS` |
| `Doctor` | `c10/main.c`: `patient()`, its three handlers, main's forks and handler | |
| `DoctorProofs` | theorems about `Doctor` | `Doctor`, `TLAPS` |
| `Ipc` | `c11/main.c`: `main`'s choice of a part, `initializer()`, `finalizer()`, forks, Ctrl+C, several starts | |
| `IpcProofs` | theorems about `Ipc` | `Ipc`, `TLAPS` |
| `Lifo` | what callers of `stack.c` can rely on: elements, and when a call is refused | |
| `Stack` | `p05/stack.c`: the bytes behind a stack | instantiates `Lifo` |
| `StackProofs` | theorems about `Stack` | `Stack`, `TLAPS` |
| `ShellParser` | `p05/rec_desc.c`: from a line to a program, files and pipes | |
| `Shell` | `p05`: `main`, the machine, everything that forks and waits | `ShellParser` |
| `EdgeLists` | what `p02-1/graphs.h` promises | |
| `LinkedGraph` | `p02-1/graphs.c`: lists in a heap | instantiates `EdgeLists` |
| `GraphProofs` | theorems about `LinkedGraph` | `LinkedGraph`, `TLAPS` |
| `SearchResults` | `search.js`: the pages of results, ids, `Nav` | |
| `SearchBox` | `search.js`, `menu.js`: field, filters, frame, timers, focus | `SearchResults` |
| `SearchProofs` | theorems about `SearchBox` | `SearchBox`, `TLAPS` |
| `MCC09`, `MCC11`, `MCContainers` | two modules each for one run of TLC | `Car` and `Parent`; `Cinema` and `Ipc`; `LinkedGraph` and `Stack` |
| the other `MC...` | constants and symmetry for TLC | one module each |

### Car

State: `carPc` and `i` say in which `for` loop of `car()` the car is and at
which turn; `pc[p]` is the call that person `p` is about to make. Pipes
`available_places` and `exit_permit` are sequences of the bytes 0 and 1,
because the reader looks at the byte. `pers2car` and `in_trip` are counters,
because nobody looks at theirs. A `write` needs room for its byte (`PipeSize`),
a `read` needs a byte. Each `read` or `write` is one action, together with the
computation around it, which is local. Sleeping is a step not taken yet. The
two forks may fail: main compares their result with 0 only, so it goes on
without that process. Nobody closes a pipe, so there is no EOF and no SIGPIPE.

`Ride` is the promise: load, travel with exactly `Capacity`, unload, nobody on
or off on the way, nobody twice. `Car` implements it with the mapping `Phase`
(from `carPc`), `Aboard` (persons between their two reads) and everybody who
has read an exit permit as `done`. Its liveness is included: a full car goes,
arrives, empties itself and reloads.

### Parent

`child[c]` is "none", "alive", "zombie" or "reaped". `pending` is one bit, as
in the kernel: that is what makes exits coalesce. `handler = "wait"` is the
call `wait(0)` inside `remove_zombie`, during which `SIGCHLD` is blocked.
Ctrl+Z sends a stop to everybody, each process acts on it in a step of its own,
and `fg` cancels what is still pending and continues the rest. Stopping and
continuing raise `SIGCHLD` because `signal()` installs no `SA_NOCLDSTOP`. A
freeze in the middle of another one is not modelled: the terminal offers none
until main has stopped.

### Cinema

One action per `semop`, `semctl`, `msgsnd`, `msgrcv` and access to the shared
hall. Results are not looked at by the code, so a failing call is a step that
changes nothing but the program counter. `MsgAccess` chooses the two
environments: `msgget` uses mode 066, so a normal user cannot use the queue, and
root can. Without access `msg` stays uninitialised, and which branch is taken
next is arbitrary. Message types are computed as in the code (`-i`,
`-seller_no`), and `Sendable` and `Wanted` say what `msgsnd` and `msgrcv` do with
them. `LuckyDraws` bounds how often `rand()` returns `RAND_MAX`, in which case
`rand() * (n / RAND_MAX)` is `n`: the client then goes to a "seller" whose
counter is the door semaphore of seller 0.

`served` counts tickets and is only used by properties; everything else is
state of the program.

A seller cannot tell whose posts it takes, and gives the ticket before the last 3
is there, so three knocks get one ticket. `SellersStartOver` therefore does not speak of
each moment. It says that the confusion leaves nothing behind: when those who came to a seller
are through with it, and it sleeps, it sleeps in its first wait, its semaphore is 0, and it has
given as many tickets as there were clients. With 1 + 2 + 3 for each client that is so in whatever
order the posts come; with any other amount a seller may be left in its second wait.

### Doctor

`pc[p]` is the place in `patient()`, `frames[p]` the stack of handlers that are
running in `p`, each with its next step. `CheckIfLatest`, `WritePid`, `Freeze` and
`NotLatest` are the parts of `check_if_latest` between which a signal or
another process may come. `CheckForAnswer`, `ReadAnswer` and `Unfreeze` are the parts of
`check_for_answer`: between the first two the patient is the latest already and has not
looked into the pipe yet, so that a request may be answered, and the patient freeze, in
the middle of its own poll. `CheckNext` is `check_next`. Which handler an alarm
runs depends on what `signal()` has installed at that place, and between two of
them it is the default, which kills (`Killed`). An alarm may ring whenever it is
armed, because a process may be kept from running for any time.

The other order is possible, too: the alarm rings between the write of the own pid and
`raise(SIGSTOP)`, and the patient reads itself. That is the run `doctor_self`.

The doctor is forked before `pipe()` is called, so it reads and writes
descriptor 0 and never talks to a patient. The read of the first patient
therefore never returns and `patient()` is modelled up to that read.

### Ipc

Each start of the program is a session with its own main and workers, and sessions may
run at the same time, in as many terminals. `Start` is the program itself, `StartPart` and
`StartFinalizer` are what `main` does when `argv[0]` is the name of a part: `initializer` creates
the objects and ends, `sellers` and `client` run without having created anything, `finalizer`
removes them. An object
is named by the session that created it, which stands for its id: ids are not
used again. `got` holds the ids that a finalizer has looked up. Ctrl+C moves
every process of the session to its finalizer, wherever it was, and each of the
six system calls is a step. It can be pressed in the next session while processes of the last
one are still finalizing.

`finalizer()` removes what it finds under the key, whoever has created it. So Ctrl+C in a
`client` of its own (which `c11/main.c:6` allows for), in a second terminal, or a `finalizer` takes the
objects of every session that runs. That is the code's, and the model does it. `disturbed` records the
sessions in whose time a process of another session has finalized. It is a history
variable: `ResourcesStay` and `CompleteIsCleaned` are about the sessions that are not in it, among any
number that start, fail to initialize, run and leave; `SemaphoresLock` and `EndsByCtrlC` are
about all.

### Stack

`data` is the buffer, byte by byte, `stack_top` the code's pointer and `cur_size` its counter. A push
writes the element and, behind it, its size as an unsigned short, so a pop finds the element from
above. `stack_pop` reads one byte of that size, as a signed char (`SizeRead`), and a negative one
becomes a huge `size_t` (`AsSizeT`). `at` only says, for the properties, where each element starts.

`Lifo` is what a caller can rely on, without bytes, pointers and counters: what is popped is what was
pushed last and is still there, byte for byte. It says of each call when it may be refused. A pop is
refused for want of an element, for a receiver that is too small, or because the element is longer than
`Readable`, 127 bytes. The last is an effect of the signed char that a caller can meet: the shell
pushes calls of up to 129 bytes, which `put_elem_in_RPN` rounds up (`rec_desc.c:43`, `294`), so a call of
121 bytes or more takes 128 or 136 and cannot be popped any more (`E_OVERFLOW`). A push is refused only for
want of room until the first pop, and after it possibly without a reason: `stack_pop` takes the size
field off the pointer but not off the counter. `stack.h` promises otherwise, and the run `stack_room`
shows the departure. `p03/stack.c` has a size field of one byte; the module has `p05`'s two.

### Shell

`ShellParser` computes, for a line, the program that `rec_desc.c` writes, the
table of descriptors it leaves and the error it ends with. A line is a
sequence of pipelines with the operators between them, already cut into words.
Offsets are the code's: a header of 16 bytes and data of 8, a name counting as 8.
`inject_value` writes where the code writes. If that is no element, whatever it
overwrites becomes "wild", and the machine that meets it may do anything.
Pipes and files are opened while parsing, as in the code, and a file that cannot be read
(`missing`) or written (`denied`) ends the parse with `E_FILE_OP`.

`Shell` is a table of processes. A process reads a line, runs a program, waits
for one child or for all, has exited or was killed, or is a program that was
executed. `RPN_compute` is `PushElement`, `Logic`, `Execute` (the four functions
`execute...`), `ExecuteFails`, `WaitPid` and `Finish`. A child whose program
cannot be executed returns the error to where it was forked, and so becomes a
second shell that reads from the same terminal; inside brackets it exits. An
error in the machine brings a shell back to its prompt without waiting.
Descriptors are counted exactly, since a reader sees the end of its input only
when nobody holds the other end (`InputEnds`). Programs are `ls` (ends with
status 0 or 1 at any time), `cat` (ends after its input), `yes` (never ends) and
one that does not exist.

A program may be killed by a signal at any time (`ProgramKilled`): by `SIGPIPE`, by a mistake of its own, or
by somebody. The loops in `execute` and `execute_brackets` that wait for one child end only when it
has exited (`arithm_func.c:79-86`, `149-156`): `WIFEXITED` stays false for a killed one, `waitpid` fails from
then on, and the shell loops for ever. `PromptReturns` names that as its exception: the prompt
returns, or some shell is in that loop.

Several kinds of lines do not work in the code, and the properties name them
as exceptions, each with a definition that says what the kind is:

- `Chained`: in `a && b || c` the first jump lands on the next operator,
  which pops a status that is not there: the line ends with an error, or goes by
  the status of an earlier pipeline.
- `Jumpy`: after brackets the jump of `&&` or `||` is patched into the wrong place,
  and inside brackets it counts from the start of the wrong program.
- `Nested`: `((a))` runs the inner line by `execute`, which finds no program.
- `OpensInside`: pipes and files of a command in brackets are opened by the outer
  shell, which never closes them, so `(ls | cat)` does not end.
- `Displaced`: a redirection that a pipe takes the place of is never closed.

Also, a pipeline that is skipped keeps its pipes open (`spotless` in `GivenBack`),
and a program that writes to a pipe holds the read end as well, so it is never
told that its reader has gone.

### LinkedGraph

`heap` maps the cells that `malloc` may return to their contents, and `live` are
those that are allocated. Each turn of a `while` loop is one step, with the
variables `i`, `cur` and `prev` of the code. The loop that shifts the array is one
step. `remove_edge` and the second loop of `remove_vertex` have the same body, apart
from the renumbering, and share its actions. What is in a freed cell is
forgotten, so nothing can depend on it; `HeapSound` says that nobody looks. The
abstract graph changes when a call has ended: `before` is a history variable that
holds the lists while it runs. `revert_graph` and `way_count` do not change the
graph and are functions of its lists: the loops of the one and the calls of the other are
recursive functions. `Ways` compares them with `SimpleWays`, which counts sequences of edges and
knows nothing of marks or sums. Calls whose `assert` would fail are not made, and
`malloc` succeeds.

### SearchResults and SearchBox

Both classes of `search.js`. `SearchResults` has the frame's side: from a word to
the rows that stay visible (`convertToId` encodes the word and ids are compared by
prefix), the folding of rows with several links, and the places that the arrow keys
walk through (`Nav`, `NavChild`). `SearchBox` has the page: `ui` holds the field,
the filter, what is open, which document the frame shows and which one it is
loading, the timers and the focus. Press and release of a key are two actions,
between which anything else may happen. A document that was requested arrives in
an action of its own (`FrameLoads`), and a message posted to it is read or lost.
The two copies, of Doxygen 1.8.17 and 1.8.18, differ in how the field hands the focus
to the frame; `version` chooses one at the start. Positions of windows, colours
and the browsers that the script works around are left out. `dynsections.js` is not modelled: no page
calls it.

Doxygen writes the pages, and three things about them are assumptions: that the letters
lead to pages that exist (`PagesAssumption`); that the ids are the names with each character other than
small letters, digits and non-ASCII written as a sign and two digits of its code, and the number of the row
(`IdsAssumption`, read off the pages of the repository); and that the rows of a page are sorted by name, so that
those a word matches are neighbours (`SortedAssumption`, stated of the words that the
field can hold). Without it `Nav` would go wrong: Up looks for the children of the item right before
the one that has the focus, and not of the visible one before it. The pages of this
repository are sorted. The number at the end of an id is behind the sign that also starts an encoded
character, so `remove_edge)` shows `remove_edge`, whose id is `remove_5fedge_29`
(29 is the code of the bracket); `VisibleMatch` says so, and the run has such a word.
The ids are data of the pages (`row.id`, in the run literal texts), and `Escape` says what Doxygen does in
words of its own. That `convertToId` does the same is not built in: it is what `VisibleMatch` needs, and
without the zero for codes below 16 (`search.js:35-37`; the run has a name with a tab) it is wrong.

## Runs

| Run | Instance | Shows |
|---|---|---|
| `c09` | car: 2 seats, 5 persons, pipes of 1 byte; parent: 3 children, 1 Ctrl+Z | all safety properties of `Car`, `GroupRides`, and that it implements `Ride`; main never blocks in the handler and forks everybody before the first Ctrl+Z |
| `c11` | cinema: 2 clients, 2 sellers, 2 seats, no queue, 1 lucky draw; objects: 2 starts, main and 1 worker each | sellers start over, everybody served; cleaning, the objects of an undisturbed session, the lock, the end by Ctrl+C |
| `doctor` | 3 patients, 1 poll, alarms at any time | answers are used once, predecessors are respected |
| `search` | 3 texts, 2 filters, a page of 3 rows and one of 1, 2 timers | the remembered word is the shown one, matches are prefixes, Up undoes Down |
| `shell` | 2 of 15 lines, 4 processes | the right pipelines run, descriptors and children are given back, the prompt returns |
| `containers` | graph: 3 vertices, 4 cells; stack: 14 bytes, elements of 1, 3 and 4, chars of 3 bits | no cell used after `free` or lost, `LinkedGraph` implements `EdgeLists`, ways; frames, `Stack` implements `Lifo` |
| `parent_freeze` | 2 children, 1 Ctrl+Z | violation: main blocks in `wait(0)` after `fg` |
| `parent_zombies` | 2 children, no Ctrl+Z | violation: two exits, one `SIGCHLD`, and a zombie stays |
| `cinema_turn` | 2 clients, queue usable | violation: the tokens have non-positive types, nobody's turn comes |
| `cinema_seat` | 2 clients, 3 seats | violation: two clients find the same seat free |
| `stack_room` | as in `containers` | violation: a push is refused although it would fit |
| `doctor_self` | as `doctor` | violation: a patient reads its own pid |

Three runs check two modules each. `MCC09`, `MCC11` and `MCContainers` extend both; the modules share
no variable, and a behaviour is about one of them, which `part` names from the start: the other one stays
in its initial state. So each property is checked on all behaviours of its own module, the fairness
of a module is assumed of its behaviours only, and the number of states is the sum of the two
and not the product. Nothing is said by these runs of how the two modules interact. A liveness
property of `Parent` would fail where main never runs at all, so `ParentKeepsForking` is
`CalmKeepsForking` of the behaviours that are about the parent.

A "violation" run checks one sentence that a comment of the source says of the
program; TLC shows how the code departs from it. `PROJECT.json` quotes the
sentence.

Why the bounds are enough. Five persons and two seats give two full trips and
one left over, in all orders, and a failed fork gives every smaller number.
Pipes of one byte make each `write` block whenever it can; larger pipes only
remove waiting. Three children let two exits coalesce while a third one comes
later. Two clients at one door are enough to mix posts (1 + 1 is taken for 2, 1
and 2 for 3), two sellers keep one door from being the whole world, and a lucky
draw is exceptional: one is enough to disturb a door and a second one at the
same door adds the same. With three clients three knocks are mistaken for one and a half
clients; that it comes out even is `SellersStartOverAlways`, for any number. Three patients are an asker, an answerer and somebody
who asks at the same time. Two starts let the second one meet the remains of the
first, run beside it, and remove its objects; each of the finalizers only compares ids, so a third
start adds nothing but another id, and the theorems are about any number. The runs were repeated once with larger values (three seats and
pipes of two bytes, three starts, two polls) without a new result. The code polls
five times; an alarm may ring at any time, so each further poll repeats the step.
Fourteen bytes hold two to four elements and run out after a few pops; with chars of three bits an
element of four bytes is what one of 128 is with eight. The lines of
`shell` have each operator, each kind of exception, a line that follows every other one, and
pipelines of up to three programs; four processes are the shell, a pipeline of
three, or a shell, brackets and what runs in them, and `fork` waits when they are
used up. Four edges are enough for two equal ones at the start of a list, one in between
and one behind, on three vertices of which one is removed below and above. Cells
are interchangeable, so the run uses symmetry, with safety properties only. The
texts of `search` are the empty one, one that ends in a blank and one with characters
that must be encoded, one of them with a code below 16, which goes on behind the name of a row; two timers let a second search start while the first waits.

`CHECK_DEADLOCK FALSE` is used wherever the program may stop: main returns at
`INT_MAX`, the car waits for persons who do not come, clients leave, sessions
end, a reader of the search page does nothing, the shell quits or hangs, a graph is deleted. `NobodyStranded` and
`EverybodyServed` say in which states that may be.

## Fairness

- Weak fairness of each process that the kernel schedules: the car and each
  person (`Car`), main (`Parent`), sellers and clients (`Cinema`), initializers and
  finalizers (`Ipc`), shells and programs (`Shell`). A process that can make a call, and
  goes on being able to, makes it.
- `Car`: none for `fork`, which may fail, nor for anybody's arrival. `GroupRides`
  therefore starts from persons who are there. There is one reader whom a mark
  makes the waker, whoever it is, so weak fairness of each person is enough.
- `Parent`: a child exits in the end (persons and clients do), a stop that was
  sent is acted on, and a user who pressed Ctrl+Z enters `fg`. None for Ctrl+Z.
- `Cinema`: the random search for a seat finds one if there is one. That is
  `rand()` not repeating a value for ever. With a full hall there is no such
  step and the client searches for ever, as in the code.
- `Ipc`: none for starting a program or pressing Ctrl+C.
- `Shell`: none for typing. `PromptReturns` is about lines whose programs end by
  themselves once their input has ended (`Tame`), which the program `yes` or a `cat` from
  the terminal does not. None for `ProgramKilled`.
- `Doctor`, `SearchBox`, `Stack`, `LinkedGraph`: none; their runs are about safety.

## Proofs

All theorems are about every value of the constants, under the named assumption
of the module, and use the specification without fairness (`SafeSpec`, or `Spec` where
there is none).

`CarProofs`, from `CarAssumption` (positive capacity and pipe size):

- `TypeCorrect`: `[]TypeOK`.
- `InvariantHolds`: `[]IInv`. `ExactlyFull` is not inductive: it holds when the
  car goes because of how seats, wake-ups and persons add up in the loops before.
  `IInv` says that sum for each loop (`Counts`), that only the last byte of a
  completed loop is marked (`Marked`), and that nobody beyond `person_no` exists.
  In `await_full`, for instance, offered seats, persons who sit and those about to
  wake the car make `Capacity`, and the wake-up is outstanding exactly if no seat is.
  The proof goes action by action; `Move` says how a step of one person changes
  the two counts it touches, `MarkWritten` and `MarkRead` what it does to a pipe.
- `ExactlyFullAlways`, `OneWakeUpAlways`: from `IInv`, with `AboardCount`
  splitting the persons aboard by what they do next.
- `NobodyStrandedAlways`. `AllWait` is the conjunction of what each process waits for, written
  out (`CarWaits`, `PersonWaits`), because the prover has no ENABLED. `IInv` says how one group
  adds up, and not why those who are left behind are the remainder of the persons born.
  `FullTrips` does: those who have ridden (`Ridden`, with those whose trip has just ended) are a
  multiple of `Capacity`. `Room` says that no pipe holds more than it can, so that a write that waits has
  a full pipe before it. `NobodyMoves` takes the loops of the car one by one.
- `CarImplementsRide`: each step of `Car` is a step of `Ride` or leaves its
  variables alone. `SeatsFit`, from `IInv`, is what a person who sits needs.

`ParentProofs`, from `ParentAssumption` (finitely many children, distinct from
main):

- `ParentTypeCorrect`: `[]ParentTypeOK`.
- `NeverBlocks`: `HandlerNeverBlocks`, from the inductive invariant
  `CallsCovered`: before the first Ctrl+Z there is a zombie for the pending signal
  and another one for the `wait(0)` in progress. "There is a zombie while the
  handler waits" alone is not inductive, since a signal may be pending as well.

`StackProofs`, from `StackAssumption` (a buffer, elements that fit in one unsigned byte, receivers
that a `size_t` can measure):

- `TypeCorrect`, `LayoutKept`, `NoOverrun`: from the inductive invariant `IInv`. It adds to
  `StackTypeOK` and `Layout` that no frame reaches beyond `stack_top` or into another one, and that
  `cur_size` lies between `stack_top` and the size of the buffer. None is inductive alone: that
  `cur_size` stays a natural number needs that the size read is that of a frame.
  Nothing is written behind the buffer because the drift only makes the test of `stack_push` stricter.
- `Implements`: each step of `Stack` is a step of `Lifo`. `Items`, the abstract elements, are
  bytes read from the buffer: `PushStep` shows that a push changes none of the older ones,
  `SizeFound` that a pop reads the size as it was written, or takes it for a huge one, and `PopStep` that what
  it copies is the last element.

`IpcProofs`, from `IpcAssumption` (main is no worker; any number of starts and workers):

- `TypeCorrect`, `SemaphoresLockAlways`, `ResourcesStayAlways`,
  `CompleteIsCleanedAlways`, with every mixture of sessions and of programs started alone. None of the
  last three is inductive: whether a
  finalizer removes the right thing depends on what it looked up before, while others
  were removing. `IInv` adds, in this order: while a session
  that is not disturbed lasts no other one finalizes (`NobodyElse`), workers follow main (`WorkersFollow`), ids are used once (`UsedOnce`,
  `LearntOnce`),
  nothing exists without the semaphores (`Locked`), a finalizer that saw the present
  semaphores saw what belongs to them and removes that first (`LooksInOrder`), and it
  cannot have missed its own semaphores while they are there (`KnowsOwn`). The rest is about
  sessions that are not disturbed: what they create stays (`Created`, `Whole`),
  and once the memory is gone one
  process of their own is on its way to the semaphores (`OnTheWay`), which is what makes
  the last one clean up. One lemma for each system call.

`CinemaProofs`, from `CinemaAssumption` (finitely many clients, numbered from 1, a hall
with a seat, a seller):

- `TypeCorrect`: `[]TypeOK`, with `FoundOne` (who sits has found a seat) and the
  bound of a seat number, which `RAND_MAX` takes past the hall.
- `SellersStartOverAlways`, from `DoorBalance`, which is inductive with both: what has been put at a
  door is 6 for each ticket, plus what the seller has taken since or less what it is still owed, plus
  what the semaphore holds. What clients have put there is written
  as cardinalities of sets of clients by place (`Came`), so that each step is about the one
  client that enters or leaves a set. `NoTokens`: for any number of sellers all tokens
  have types that `msgsnd` refuses, by the smallest counterexample.

`DoctorProofs`, from `DoctorAssumption` (finitely many patients):

- `TypeCorrect`: at most two handlers are stacked, and never the same one twice.
- `AnswersOutstandingAlways`: an answer in the pipe is there once and its writer still
  waits, whichever handler interrupts which and where. It needs `AnswersHeld`, the same for the answers that a handler has read and
  not yet used, since another patient may read meanwhile.
- `FirstAfterPredecessorAlways`: needs `BehindSomebody`, that who polls knows whom it
  waits for, and `PollsInSearch`, that a patient does not leave its search from within the poll.

`SearchProofs`, from `SectionsAssumption` and `PagesAssumption` (filters are numbered from
0, every page that a letter leads to exists, as Doxygen writes them), `IdsAssumption` (the ids, above),
`TextsAssumption` (the label
is not empty and does not start with a blank, as `Search`), `SortedAssumption` (above) and
`BoundsAssumption`:

- `TypeCorrect`, `InactiveShowsLabelAlways`, `LastIsInFrameAlways`. A handler calls several methods, and between them the page
  need not be as it is when the handler has ended. `Good` is what every method keeps:
  `Labelled` and `Remembered` are the two properties for any page,
  and `Armed` says that a remembered timer is pending, without which the number of
  timers could pass below zero. `IInv` adds what holds between handlers: the bounds, and
  that no timer is about to close the filters while the mouse is over them. Each
  method is an operator from pages to pages and has one lemma, each handler another.
- `UpUndoesDownAlways`. `Tidy`, a part of `Good`, says that the visible items of the document in the
  frame have no gap between them, that only items with children are open, and that the word
  of a page on its way is one that the field can have held (`Words`), so that `SortedAssumption`
  speaks of it when the page arrives. `Neighbours` and `Across` are about one page: the next visible
  item is the very next one, so Up looks for children in the right place. The way through a page
  is a matter of two neighbours, and no induction is needed.
- `VisibleMatchAlways`. `EncodedIs` and `EncodesAlike` show that `convertToId` does to a character what
  Doxygen did, and `IdIs` what that makes of a row's id. `Found`, a part of `Tidy`, says that what is visible is what was found when the
  page loaded; the rest is about texts. `convertToId` joins the codes of the characters with
  `FlattenSeq`, a recursive function, which `GluingExists` and `FlattenIs` take apart (by the
  shortest text for which it would be wrong), so that `EncodeConcat` can say that the code of two
  texts is that of one and that of the other. Codes have one character or three, and
  `CodesGoApart` says that of two different characters none is the start of the other's, whatever
  follows. So the first place where word and name differ decides (`GoApart`), and `IdStartsWith` is
  what the property says of a row: its name starts with the word, or the word goes on behind the name as
  the number does, encoded.

`GraphProofs`, from `BoundsAssumption` (finitely many cells, any number of vertices):

- `HeapSoundAlways`: `HeapSound` after each turn of each loop. It says what `Chain` finds, and
  that is not inductive: the loops are the proof. `IInv` says that there are
  sequences of cells, one for each vertex, that start where `Heads` says, share no cell and have
  all that are allocated (`Holds`); that `cur` and `prev` stand next to each other in one of them
  (`At`); and what the variables are (`Shape`). `Linked` says that a sequence is the list that starts
  at a pointer, `ChainOfLinked` that `Chain` finds it (by the first cell it would
  get wrong), `AppendCell` and `RemoveCell` what writing a pointer does to one list, `PutIn`,
  `TakeOut` and `Rename` to all of them. Then one lemma for each loop.
- `ImplementsEdgeListsAlways`: the calls of `LinkedGraph` are steps of `EdgeLists`, and what
  happens inside a call is invisible. The abstract graph is `Rows` between the calls and
  `before` during one, so everything is in the last step of a loop, which has to know what the
  earlier ones did. `Progress` says it: the rows that the loop has left behind are `Done`, the
  rows ahead are as they were (`Source` gives a vertex its row in `before`, under the number it had
  then), and the row of vertex `i` is a `Splice` of what is done of its first `n` ends and the
  untouched rest, with `cur` at the border (`Stage`, `Scan`). `ScanDrop` and `ScanKeep` are
  one turn of the loop, `ScanEnd` is its end, and the lemmas `Step...` are the actions. `Kept`, the
  abstract removal, is a recursive function, and the proof goes along with the loop,
  one element at a time, so no induction over lists is needed.
- `WaysAlways`. A call of `way_count` from `v` with some vertices marked has to count `Routes`: the
  sequences of edges from `v` that come to no vertex twice and to no marked one.
  `RoutesStep` does the loop over the edges of `v`: the routes that start with the `p`-th edge are
  those of the call for its end, with the edge in front (`RoutePrepend`), or there are none,
  if that end is marked, so the finite sums of `Total` are the sizes of growing sets of routes. That
  the calls themselves are right is an argument from more marks to fewer (`ByMarks`): each
  call marks one vertex more than its caller, so they come to an end, there are finitely many routes
  (`FiniteRoutes`), the recursive function exists and is the number of routes (`CountsRoutes`). The loops of
  `revert_graph` carry over one edge after another (`CarryOne`, `RevertRow`, `RevertGraph`): between
  the edges of both graphs there is a one-to-one map that exchanges the ends, and it takes the
  routes of the one graph to the other, backwards (`WaysBack`), in both directions. Both parts
  need that every end is a vertex of the graph, `InBounds`, an invariant of the abstract graph, so its
  steps are those of `EdgeLists` (`BoundsKeep`), by the refinement above.

Only model-checked:

- the liveness properties (`GroupRides`, the liveness of `Ride`, `ParentKeepsForking`,
  `EverybodyServed`, `EndsByCtrlC`, `PromptReturns`), which the prover does not do;
- the properties of `Shell`, whose parser is a recursive operator, which the prover
  does not handle.

## Not modelled

Left out of the models: messages on the terminal, lengths of sleeps, reuse of pids by the kernel,
interrupted system calls of sellers and clients (their handlers end the
process), more than one Ctrl+Z at a time in `Parent`, Ctrl+Z in `Doctor`, Ctrl+C in a program that was
started as `finalizer` (it would begin once more), independent programs in `Cinema` (`Ipc` has them), and
the read of `shmat`'s result. `msgget` and `semget` are assumed to fail for no
other reason than an existing or a missing object, `fork`, `pipe` and `dup2` of the
shell to succeed, and `malloc` to find memory. A nested shell that reads from a
pipe gets lines that nobody has chosen, which is what the model gives it.

Parts without a module:

- The doctor of `c10` is forked before its pipes exist. All it does is read and write
  descriptor 0, and no patient's read from it returns, so nothing that both take part in can
  be said of them.
- The graph library of `p02-2` does not link (`graph.c:210` calls `asser`), so it has no behaviour
  to be faithful to. `p02-1` does.
- The parser of `p03` is a recursive descent that leaves nothing behind between two lines;
  its stack is `Stack`.
- `cp`, `grep`, `od`, `h06`, `h07`, `h10`, `h11`, `h12` and the smaller exercises are single loops or
  a handful of system calls, without state that two actors share.
- `menudata.js`, style sheets, coverage reports and Doxygen's settings are data;
  `dynsections.js` is code that no page calls.

Some of what the models show is neither a property nor a run of its own. In `Ipc` Ctrl+C
inside the initializer leaves the semaphores behind, because the finalizer gives
up at the first object that is missing, and every finalizer takes what belongs to others; in `Doctor`
a patient that claims to be the latest before it is in the queue may answer somebody behind whom it
then queues up itself, and several may queue up behind one; in `SearchBox` a timer that runs when the field
is left opens the results of the label (the last part of `InactiveShowsLabel` admits it), the release of a
key may go to another element than its press, the message `take_focus` may get lost with a document, Up
would go wrong on a page that is not sorted, and Down in the filters may choose one past the
last, where the script throws (`TypeOK` admits the index). No comment, and no other text of the repository, says
of these what ought to happen, so there is nothing to check them against; `PROJECT.json` lists them as
hazards with the reason.

## Plan

Done: everything under "Modules". Left, most important first:

1. Proofs: the types, descriptors and children of `Shell`, with a parser that is a
   recursive function.
2. `CarSystem`: `Car` and `Parent` composed, so that persons' exits are the exits
   that `Parent` reaps.
3. The small programs of the list above, where one of them turns out to have
   more than one loop to go wrong.
