# TLA+ verification of the crypto-agile edge server

The repository is a container that receives files over TLS 1.3 and decrypts
them with one of several AES implementations ("backends"). Backends are
compiled, tested, measured and numbered every time the container starts, and
the backend in use is switched at run time by a signal, also in the middle of a
transfer. This directory holds TLA+ modules for the parts of it that keep state,
the TLC configurations that check them, and TLAPS proofs.

## 1. The system

| Part | Source | State | Operations | Interacts with |
|---|---|---|---|---|
| receive loop | `server_f.c` `createserver` | socket, mode, `buffer`, `outmsg`, `tag`, `tp`, `ct`, `part`, the file | accept, read a record, decrypt, hold back, check the tag, close | client (TLS records), signal handler (shared `mode`), GCM |
| GCM decryptor | `encrypt02.c` | `EDcontext`: key, H, T, counter, accumulators, length | `ed_init`, `dec_update`, `dec_final` | reads `mode`, calls the backend through `dlsym` |
| client | `cltest.c` | bytes read and sent | chunk, last record(s) with the tag | server |
| switching | `send.c`, `signal_handler` | pending `SIGUSR1`, `mode` | find the process, queue, deliver | receive loop |
| processes | `server_f.c` `main`, `compose-server.yml` | two processes, the container | fork, exit, restart | switching, receive loop |
| received files | `server_f.c` `createserver` | `Downloads`, the state of `rand` | draw a name, look it up, create | the process of the other port |
| container start | `start.sh`, `reset.c`, `register.c`, `gen.c` | `header.h`, `LIB/`, `db.yaml`, `lib_enc.so` | reset, check, test, compare symbols, rename and compile, measure, commit or roll back, link | through files only |
| measurement | `profile01.c`, `internalprofile.c`, `ina260.h` | samples, attempts, figures | sample, run, repeat, append to `db.yaml` | start, policy |
| policy | `synthesize.c` | `db.yaml` (read) | pick the nearest backend, send its mode | switching |
| backends | `backends/f1` … `f8` | key schedule and block of a call | AES-128 (f1, f2, f3, f7), AES-256 (f4, f5, f6, f8) | GCM, check programs `check1.c`, `check2.c` |

What is hard to test here:

* the signal arrives between any two instructions, and `mode` is read at five
  places of a transfer, in one of them twice;
* the last 16 bytes of a full record are data, tag, or both, which only the next
  record shows, so that every file size modulo the record size is a case of its
  own, on two decryption paths, each with a connection that may end early;
* a start is a chain of commands whose results are mostly not looked at, and the
  container may stop between any two of them and go on with the files left;
* eight backends compute the same function in four ways, and a transfer that is
  switched between them is only right if they agree on every block, on both
  architectures, although each is compared with one vector at registration;
* a process is looked up with `lsof` and signalled afterwards, by several callers
  at once, while either process or the whole container may end and come back
  with another set of backends;
* two processes with the same seed look a file name up and create it in two steps;
* a measurement is made by two threads that meet only in a buffer and in time,
  beside whatever else draws power, and is repeated and compared with itself;
* the policy divides by ranges that can be 0 and relies on the order in which
  registration numbered the backends.

`PROJECT.json` lists these hazards one by one with the properties that cover
them.

## 2. Modules

| Module | Models | Role |
|---|---|---|
| `ModeByte` | the fields of the mode byte, how `synthesize` composes it | shared by `Gcm`, `Synthesize` and `Ports` |
| `Gcm` | `encrypt02.c` over symbolic bytes | operators on an `EDcontext` and on C arrays |
| `Transfer` | `createserver`, `cltest.c`, `signal_handler` | one port, its clients, the connection and the signals |
| `FileTransfer` | what a port promises | abstract specification |
| `TransferInvariant` | – | inductive invariant and refinement mapping of `Transfer` |
| `TransferProofs` | – | theorems about `Transfer` |
| `Ports` | `main`, the ends of `createserver`, `send.c`, the restart policy | both processes, the container, calls of `synthesize` |
| `PortsProofs` | – | theorems about `Ports` |
| `Downloads` | the file names of `createserver` | two processes, one folder |
| `DownloadsProofs` | – | theorems about `Downloads` |
| `Registry` | `start.sh`, `reset.c`, `register.c`, `gen.c`, the outcome of `profile01.c` | the start of the container, with restarts |
| `RegistryProofs` | – | theorems about `Registry` |
| `Sampler` | `ina260.h` | the sampler thread and the statistics |
| `Profile` | `profile01.c`, `internalprofile.c` | a measurement, composed with `Sampler` |
| `ProfileProofs` | – | theorems about `Profile` and `Sampler` |
| `Synthesize` | `synthesize.c` | the policy and its effect on the two ports |
| `SynthesizeProofs` | – | theorems about `Synthesize` |
| `AesField` | – | bytes, the field of AES and the four transformations of FIPS 197 |
| `Fips197` | what a backend promises | abstract specification, one step per key word or round |
| `ByteBackends` | `f1`, `f2`, `f4`, `f5`, and `f7`, `f8` on both architectures | operators: loop bodies of key expansion and cipher |
| `BitSlice` | `f3`, `f6` | operators on bit-sliced words |
| `Backends` | the registered functions, `check1.c`, `check2.c` | a call of any backend on any vector |
| `Ghash` | `addmul`, `store32`, `store64`, `crypto_verify_16` | operators on real bytes, and GHASH of SP 800-38D |
| `Decryptor` | `encrypt02.c` on real bytes | sessions, composed with the calls of `Backends` |
| `BackendProofs` | – | lemmas about the operators and the calls of `Backends` |
| `DecryptorProofs` | – | theorems about `Decryptor`, `Ghash` and `Backends` |
| `MC...` | – | instances for TLC |

### Gcm and Transfer

Bytes are symbolic. A byte of the stream of a session is named by its offset:
offsets 0..N-1 are the ciphertext of a file of N bytes, the next `TAGSIZE` ones
its tag. Decrypting ciphertext byte *b* with the keystream byte of position *b*
and the right key gives plaintext byte *b*, anything else gives `Junk`. Thus
"decrypted at the wrong counter", "tag byte written as data", "block hashed
twice" are visible, while AES and GHASH are ideal: a wrong key, accumulator or
tag byte never yields a right result. The accumulator is the sequence of padded
blocks absorbed, `paccum` the same without the last block, as in the code.

`Transfer` keeps the variables of `createserver` (`buffer`, `outmsg`, `tag`,
`tp`, `ct`, `part`, `readbytes` as `n`), the `EDcontext` `cx`, the bytes given to
OpenSSL on the native path as `evp`, and `spc`, the point reached. A point is
kept wherever the code reads `mode` or waits for a record:

| `spc` | code |
|---|---|
| `accept` | `accept`/`SSL_accept`, key export, new file |
| `choose` | `if(mode!=0)` |
| `init_level`, `init_index` | the two reads of `mode` by `fetch` in `ed_init` |
| `read` | `SSL_read_ex` of the backend path |
| `upd_level`, `upd_index` | the two reads of `mode` by `fetch` in `dec_update` |
| `choose0` | `if(mode==0)` |
| `nread` | `SSL_read_ex` of the native path |
| `saved` | "File saved", close |
| `down` | after `goto outg`: the process has ended |

An action covers the code from one point to the next. `Disconnect` cuts the
connection after any prefix of the records in flight. A full record is
`CHUNK_SIZE` bytes; the client writes records of at most that size, and TLS
delivers each as one read because the server asks for `CHUNK_SIZE` bytes.

Left out: the file name (see `Downloads`), the progress counter, the handshake's
own failure (it leaves every variable as it was), errors of OpenSSL calls that
only fail without memory, `fwrite` errors.

`NativeAt` are the points at which mode 0 may be selected or left, `SwitchAt`
those at which any other switch may happen.

### Ports

The other view of the server: both processes, reduced to the points that
concern anybody else (`boot`, `bind`, `accept`, `serve`; `cut` after `goto outg`
while the client still holds the connection; `gone`; `off` while the container
is down). The parent serves 5544 and is what `start.sh` waits for, so its end
ends the container (`ContainerEnds`), which Docker starts again; the child
serves 5545 and is not waited for. Each start registers some number of backends
per level (`Counts`).

A call is two steps, as in `send.c`: `Call` is `synthesize`'s answer and the
`lsof`, `Sigqueue` the signal, with anything in between. `SIGUSR1` is not
queued: while one is pending another is dropped. `lsof` lists the server first,
because its process is older than any client in the container; a client that is
left alone with its connection after `cut` is what `send` then finds, and the
signal ends it. A call that finds nobody changes nothing.

### Downloads

`Rand` is the sequence of names `rand()` yields, in which a seed is a position:
processes that start in the same second start at the same one. `Draw` is one
round of the loop with its `stat`, `Open` the `fopen`. A file remembers which
port created it and whether that was before the last restart.

### Registry

One action per step of `start.sh`; `at` is the directory in hand and `pc` the
step. The parameters say in which directories a step fails (`Complete`,
`Correct`, `Renamable`); a measurement may fail in any directory. `header.h` is
the pair `counter`, `protos`; a prototype has the directory its number was given
to, an object of `LIB` the one it was built from, an entry of `db.yaml` the one
that was measured, so that "the figures under a name are those of another
backend" can be said. `Build` does not look at the results of its commands, like
`gen.c`. A source that does not compile leaves no object, and gcc is then given
an input that is missing: from gcc 11 on, which is the image's, it runs the
linker, which fails and removes `./internalprofile`; an older one stops before,
and the binary of the backend before stays. Both are modelled. The board refuses
a binary that does not find the name it is asked for; on x86-64 (`Likwid`)
`profile01.c` looks only at the figures likwid prints, which are taken to be
printed whatever was run (`Looped`), so that an entry may stand for nothing that
was measured. `Consistent` therefore allows one gap: a number given to a directory
whose renamed source did not compile has no object. `Measured` says
that no stale binary speaks for a backend that was compiled. `Ports` and
`Synthesize` are about starts without such a gap. A renamed source that
compiles is taken to link with the profiler. `Collide` reads `rval`, which
is uninitialised while `LIB` is empty: both outcomes are possible. `Restart` may
happen at any step and keeps every file.

### Synthesize

All distances of a call have the same denominator, so their numerators are
compared; coordinates are doubled to keep the middle point an integer. The start
values 10, 10000 and 10000 of the searches are kept. A range of 0 makes the
distances 0/0 in the code, which no comparison selects: here no candidate is
below `Far * 0`. Rounding of `float` is not modelled. `db.yaml` has at least one
entry.

### Sampler and Profile

Time is counted in sampling periods. A thread that is ready runs before the
next period unless it is late; late periods and failed reads are counted and
bounded together (`MaxLosses`). Stamps are midpoints of two times and are kept
doubled. The sampler thread (`Begin`, `Deadline`, `Read`) and `main` (one step
per sleep) share the buffer `t`, `overflow` and the flag `run`; `Stop` and `Join`
are the two halves of `ina260_stop`.

The power of the module is not part of the state: it is the idle power, the
backend's while it loops, and a foreign burst that begins and ends somewhere.
`Evaluate` chooses the burst when the samples are read, which gives the same
attempts as choosing it before. A burst has a begin, an end and a power. Powers
are integers in units of 1/240000 W, of which every average taken is a whole
number. `robust` is the median of the block means as in `ina260_stats`; the other
statistics of that function are only logged and are left out.

On x86-64 `Probe` is the call of `likwid-perfctr -S` and `Likwid` the run;
`"no_msr"` is a machine on which the counters do not start, where the run would
never return.

### Backends

`Backends` takes one step per iteration of the loops of a call: `Expand` for the
key expansion, `Slice` for the round keys of `f3` and `f6`, `Start` for the first
key addition, `Round`. When a call is over `Return` makes the next one; in
`Decryptor` a session may make it instead. Bytes are
numbers 0..255, with the arithmetic that each backend uses for them: shifts
cut to eight bits in `xtime` and `gmul2`, the S-box table, a circuit of gates in
`bs_sbox`, `AESENC` and `vaeseq` as the processors define them (external).

`f3` and `f6` compute 64 blocks in the bits of 64-bit words. A word is the set of
the bits ("lanes") that are 1. The caller's block is in lane 0. The
mask of a lane is an `int`, so that lanes 32 to 63 cannot be set by themselves
and are overwritten by lane 31; the instance keeps the lanes 0, 31 and 32 and
shows that this never reaches lane 0.

The ARM instruction adds the round key before it substitutes. The refinement
mapping adds the key that is still missing from the block at each step, which
makes the ARM loop the loop of the standard, one addition late.

Left out: decryption and `_rev` functions of the bit-sliced library that no
backend calls, and its modes of operation.

### Ghash and Decryptor

`Ghash` has the multiplication of `addmul` as the code does it: the 256 bits of
the product, then the reduction, whose loop writes some bits above 127 that a
later pass reads (`Reduced` says what each bit is when its pass comes). Bits are
the set of the indices that are 1. Beside it is the product of SP 800-38D, as
the remainder of a product of polynomials. `Decryptor` runs sessions over
real streams: `ed_init` calls the backend for H and T, each `dec_update` looks
the backend up again, as any backend of the level, and calls it once per block.
Every call is computed by the steps of `Backends`, so that the whole chain from
a key to an accepted tag is in the state. Bytes are taken apart and put together
with `Bit` and `Packed` of `AesField`; what the proofs use of them is
`ByteAssumption`, which has no parameter: TLC evaluates it for every byte and
every pair of bytes. Its `dec_update` gets the ciphertext
without the tag; that the server separates the two correctly is `Transfer`.

## 3. Runs

| Run | Instance | Checks | Shows |
|---|---|---|---|
| `TransferSwitching` | `TAGSIZE` 3, `CHUNK_SIZE` 9, sizes 0..20, two backends of the level switched at every point, mode 0 between transfers | `TypeOK`, `FilePrefix`, `NeverDown`, `VerdictExact`, `IndInv`, `ConnectionEnds`, `ImplementsFileTransfer` | the port keeps its promise under switching and cut connections |
| `TransferUnregistered` | `TAGSIZE` 2, `CHUNK_SIZE` 6, clients of both levels, additionally a number of the level that is not registered, at any point | `SilentIsIntact`, `ConnectionEnds` | both paths report damaged and shortened files and the wrong cipher; the worst outcome is a lost port, never a bad file without a report |
| `TransferToNative` | mode 0 at any point | violates `NeverDown` | finding 1 |
| `TransferUnchecked` | leaving mode 0 at any point | violates `SilentIsIntact` | finding 2 |
| `TransferWrongLevel` | a backend of the other level at any point | violates `SilentIsIntact` | finding 3 |
| `RegistryStart` | the eight directories, one incomplete, one incorrect, one that cannot be renamed, one clash, two restarts | `TypeOK`, `Consistent`, `Measured`, `OnlyCorrect`, `AllLinked`, `NumberingKept`, `Serves` | what a start leaves is consistent whatever failed or was interrupted; where a renamed source does not compile, the profiler of an earlier backend or none answers, and at most the object of that number is missing |
| `RegistryNumbering` | the same without incorrect directories | violates `ContractKept` | finding 4 |
| `SynthesizeServed` | every `db.yaml` of 2 or 3 entries with a backend on each level, and of 3 + 1 entries | `NamesBackend`, `OwnLevel`, `CornersServed` | every answer is a registered backend of the level, corners are served |
| `DecryptorBackends` | every backend, `f7` and `f8` on two architectures; both check vectors, the block of zeros and a counter block under their keys, sixteen blocks that hold each byte once under the key of zeros; twelve streams, six genuine | `PassesCheck`, `ImplementsAes`, `HashExact`, `Authentic` | each backend is AES step by step and the hash is GHASH, so that backends of a level can replace each other in a file and exactly the genuine streams are accepted |
| `PortsSwitching` | two concurrent calls, starts with two and two, one and three, two and one, or none and two backends, one fault | `TypeOK`, `ModeServed`, `SwitchLasts`, `SwitchTakesEffect`, `HighReturns` | calls, transfers and restarts in any order leave a port on a backend of its level; a switch that reached the process happens and lasts; 5544 comes back, also after a call has cut it because its backend is not there |
| `DownloadsNames` | names in an order with repetitions, both seeds equal or not | `TypeOK`, `FilesKept`, `NameFound` | a file is only ever shared by overlapping transfers on the two ports |
| `Measurement` | windows of 8, 12 and 8 periods, buffer of 36, three attempts, thirteen bursts of three powers, one loss, a run that overruns or not | `Exclusive`, `Paced`, `NotDiscarded`, `AcceptedIsNear`, `KeptCleanest`, `PositiveKept`, `Ends` | the threads share the buffer safely, and what passes the gate is within half the tolerance of the backend's power unless a burst is in half of the blocks of the run or of both idle windows |

**Bounds.** `FileSizes` 0..20 with records of 9 covers every residue on both
sides of two record boundaries: empty file, tag in one record, split tag with
each length of both parts, a tag that ends a full record, with and without full
records before. The proofs lift the bound. Two clients in a row happen in every
run of `Transfer` because the port listens again. `CHECK_DEADLOCK FALSE` in
`TransferUnregistered` because the process may end, and in the `Registry` runs
because a server with no restart left does nothing. `MaxRestarts` = 2 lets a
start be interrupted twice, the second time on files that an interrupted start
left. The vectors of `DecryptorBackends` make every entry of every S-box table be used
in the first round, and every byte position be mixed and shifted; its streams
are empty, of one block, and of a full and a partial record with a partial
block, and altered ones differ in the last byte of ciphertext, in the tag and in
length. Up to three entries of a level in `db.yaml` with energies on both sides
of 10, the start value of the minimum, give single entries, equal figures and
mixed orders of levels. Two calls are what it takes for one to find the signal
of the other pending, and the four pairs of `Ports` are levels that
have the backend of the initial mode, one of either level that has too few for it,
so that the first call of the port cuts it, and an empty one. Four
names let both processes, files of an earlier start and a free name meet. The
windows of `Measurement` keep the order and the overlaps of the real ones with
four blocks of idle, six of the run and three of each half, for the eight, twelve
and six of `profile01.c`: a median is the mean of two blocks where it is there,
and a burst can fill some blocks and touch another. The powers of the bursts are
below the tolerance, above it, and several times the backend's power. The buffer is
as long as the longest series that must fit. `PortsSwitching` has `CHECK_DEADLOCK
FALSE` because a port that has ended and a client that stays may wait for ever,
and `Measurement` because `profile01` ends.

**Fairness.** `Transfer`: weak fairness of the server's own steps (one running
process) and of a client that was accepted (it writes its file; nothing in the
code bounds how long a read waits for one that stalls). None for new clients,
signals or disconnections. `Registry`: weak fairness of the steps of a start
(compilers end; `profile01.c` bounds its attempts and checks likwid first so
that it cannot hang), none for `Restart`. `Ports`: weak fairness of Docker's
restart (`restart: unless-stopped`), of the boot of each process, of a `send`
that has found its process and of the delivery of a pending signal; none for
clients, transfers, faults or calls. `Downloads`: weak fairness of `Draw`, a loop
that waits for nothing. `Profile`: time passes, the sampler thread runs when it
is ready and `main` goes on when its sleep or its child ends; a run of likwid on
a machine without counters is not assumed to end. `Synthesize` and `Decryptor`
have no liveness property.

## 4. Findings

1. `server_f.c:173`: a switch to mode 0 in a transfer ends the process of the
   port, although README.md describes the switch as applying from the next chunk.
2. `server_f.c:214`: a switch away from mode 0 between the two tests saves an
   empty file unchecked.
3. `encrypt02.c:109`: a switch to the other level in a transfer is not reported
   by the tag, contrary to what LOGBOOK.md says of it.
4. `gen.c:103`: a backend that is not registered renumbers the later ones of its
   level, although README.md says nothing else is affected.

Also seen, without a run:

* a level without a backend is sent a mode that names none (`synthesize.c:173`),
  and number 16 carries into the level field (`synthesize.c:180`); both are
  outside the databases that a start with two to fifteen backends per level
  writes;
* backends of a level that all share one figure make every distance 0/0, and the
  first entry answers every request (`CornersServed` excludes this case in its
  statement);
* `register.c` reads an uninitialised `rval` (LOGBOOK.md lists this as open);
* a second `sigqueue` while one is pending is dropped and `send` does not notice
  (`SwitchTakesEffect` says so in its statement);
* overlapping transfers on the two ports may share a file, as README.md says;
* an attempt whose run fails ends `profile01` with status 4, also when an earlier
  attempt was good; the deviation that stands for "not measurable", 1.0 W, is
  lower than a real one may be;
* a burst in both idle windows, or a drift of the idle power below the tolerance, passes the gate with a
  wrong net power, as LOGBOOK.md reports of measurements (lines 302 and 436);
  `AcceptedIsNear` is about what the two windows and the two halves do catch;
* a number may be given to a directory that has no object (`Consistent`), after which
  a mode that selects it finds no function.

## 5. Proofs

`TransferProofs` proves `TypeCorrect` (`Spec => []TypeOK`) for every chunk size,
tag size, set of files, modes and switching points that satisfy the assumptions
of `Gcm` and `Transfer`: the tag is not empty, a chunk is a multiple of it and
at least two tags long. It is the statement that no copy leaves its array.

It also proves, under `Safe` (every mode sent selects a registered
backend of the port's level or is 0, the latter only between transfers, and
clients use the cipher of the port):

* `LoopInvariant`: `IndInv` is invariant;
* `FileIsPrefix`, `PortStaysUp`, `VerdictIsExact`, `SilenceMeansIntact`: the
  safety properties that the runs check;
* `Implements`: `Transfer` implements `FileTransfer`.

Most of what can happen in production is outside `Safe`: a number that is not
registered, a client of the other level. `DamageIsReported` proves `SilentIsIntact`
there, under `LevelKept` alone: mode 0 comes and goes between transfers only, and
every other mode sent has the level of the port, whether or not a backend has
its number. Clients use either cipher. The invariant is `Reported`, a disjunction
on what the transfer has come to: it is `Sound` (the file, the accumulators and
the held-back bytes are what `Safe` would give), or it is `Doomed`, because the last
record was `Skipped` or the cipher is not the client's, and then no later step
can make the tag agree. The two hypotheses are needed: the runs
`TransferUnchecked` and `TransferWrongLevel` break one each and TLC finds a bad
file without a report.

The argument. None of the properties is inductive. `FilePrefix` needs to know
what the held-back bytes in `outmsg` are and how many were absorbed; `VerdictExact`
what the accumulators contain. The invariant is the conjunction of

* `SentInv`, `HandInv` (counters), on top of `TypeOK`;
* `WireInv`: the records in flight continue the stream where the reader is, only
  the last record of a stream is short, and short ones are not followed by more;
* `ModeInv`: between its two reads `fetch` holds the port's own level, and on
  the backend path mode is not 0;
* `FileInv`: the file is a prefix, not longer than what was read;
* `ServerInv`: for each point, what buffer, `outmsg`, `tag`, the context and the
  file hold in terms of `rx`, the bytes read (`ReadInv`, `UpdateInv`, `NativeInv`,
  `CheckedInv`).

TLC checks `IndInv` in `TransferSwitching`, and checked `Reported` on the instance of
`TransferUnregistered`. The proof has one lemma per action
for `ServerInv` (`ReadDataSafe`, `ReadTailSafe`, `UpdateFullSafe`,
`UpdatePartSafe`, `ReadEndSafe`, their native counterparts, `QuietSafe` and
`StartSafe` for the rest) and one per group of actions for the other conjuncts;
`NextInv` combines them. The refinement maps the points to the phases of
`FileTransfer` and each step to `Begin`, `Receive`, `Accept`, `Reject`, `Leave` or
a stutter (`StepRefined`).

`PortsProofs` proves, for every set of concurrent calls, every set of numbers of
backends and any number of faults, `TypeCorrect`, `AlwaysServed` (`ModeServed`) and
`SwitchesLast` (`SwitchLasts`). `ModeServed` is about the mode in force only; what
makes it inductive is that the pending signal (`SignalInv`) and each call on its
way (`CallInv`) carry a mode of the right level too, and that a stopped container
leaves neither behind (`StoppedInv`), so that no mode meets the backends of
another start. `AlwaysServed` is the part of `Safe` that concerns modes sent by
`synthesize`.

`DownloadsProofs` proves `TypeCorrect` and `NoFileLost` (`FilesKept`) for any names
and any sequence of draws. The invariant is about the gap between `stat` and
`fopen`: the name found is still free, or the other port has created it since.

`RegistryProofs` proves, for any queue of directories, levels, symbols and failures
and any number of restarts, `TypeCorrect`, `FilesConsistent` (`Consistent`),
`FiguresMatch` (`Measured`), on either platform, `OnlyCorrectRegistered` (`OnlyCorrect`),
`LibraryComplete` (`AllLinked`) and `NumbersStay` (`NumberingKept`). The properties
speak of the files between two registrations; `RegistryInv` says what they hold at
each step of one. Between a restart and the reset it only has types: nothing
of an interrupted start is relied on. After the reset, `ProtoInv` has in `header.h`
the names up to the counters; `LibInv` has in LIB the objects of those that compiled and,
from `gen` to commit or rollback, the new one if it did, in which case the binary is
its own; `DbInv` has in `db.yaml` the names of `header.h`, numbered by how many
entries of the level precede, and is ahead by one at the commit; `LinkInv` and
`SoInv` follow the symbols to the shared library. The numbers are cardinalities,
so that the proof uses the theorems on finite sets (`OfLevelNext`, `OfLevelAppend`).

`SynthesizeProofs` proves about any `db.yaml`, of any length and figures, and any
sequence of calls `LevelsKept` (`OwnLevel`), `AnswersNamed` (`NamesBackend`) and
`CornersAnswered` (`CornersServed`). The theorems have the hypotheses they need and
no other: `Fits` (numbers up to 15, four bits of the mode byte), `InOrder` (an entry
has the number of its place in the level), and for `AnswersNamed` also `BothServed`
(each port has a backend). `InOrder` is what `FilesConsistent` proves of the
registry; `Fits` is what `gen` does not check: 16 backends of one level would break
it; `BothServed` depends on the backends supplied. The database of
`SynthesizeServed` satisfies all three. That the first entry stands for a backend
of any level rests on `FirstOfLevel`; that a number names one entry on
`NumbersDiffer`. For the corners, `Ranges` shows each figure between its minimum
and maximum, `CornerDistances` that no distance reaches the bound at which an entry
is ignored and that a beaten entry is farther, and `NearestAnswer` that the answer
has the least distance. That a least one exists (`NatLeast`, `FiniteExtremes`) is
proved with the minimal element of a well-founded order, of counterexamples or
of their sizes, since the induction theorems cannot be instantiated.

`ProfileProofs` proves `BufferExclusive` (`Exclusive`), `SamplesPaced` (`Paced`) and
`GivenUpForCause` (`NotDiscarded`) for any sleeps, overruns, buffer and losses;
assumed are that they are naturals, that the buffer is not empty, and its size,
`CAP = 2 * IDLE + RUN + SLACK`, as `profile01.c` and `ina260_open` compute it. The invariant is
`MeasureInv`: `PhaseInv` (where main is tells where the thread can be),
`DeadlineInv` and `PaceInv` (the deadline against the clock and against the
samples), `CoverInv` (how far losses can move the first and the last sample),
`RoomInv` (the clock is ahead of the expected duration by no more than the lateness,
so that an overflow means a long run) and `GivenUpInv`. That `run` is cleared
before the join is part of it: otherwise a read could begin after the tail, which
the room does not count. TLC checked `MeasureInv`, `KeptInv` and the invariants below on the
instance of `Measurement` and on one with two losses, and the first two on 35 million
states of one with up to four. `CleanestKept` (`KeptCleanest`) assumes of the estimator only that it
gives an integer (`RobustInteger`), which a fold over samples is not provable to do
here, and that the deviation of a net power that is not positive is not
negative; it holds for the median of block means as for any other estimator.

`PositivePreferred` (`PositiveKept`) is about the 1.0 W that `profile01.c:174` gives as
the deviation of an attempt whose net power is not positive: nothing in the
code relates it to what the attempts with a positive one can have. The theorem says
when it works: `SmallSwings`, the load and a burst together stay below it, and
`FewLosses`, no window is shorter than the sampling gap that losses can make.
`GapInv` bounds the gap between two samples by the losses, `WindowInv` says that
the windows of an attempt are as long as their sleeps, so that none is empty, and
`PositiveInv` that every level is between the idle power and all of load and burst,
so that the deviation of a positive attempt is less than 1 W. `SmallSwings` is
needed: with a lower figure TLC finds a negative attempt that is kept. The
hypotheses on the estimator, `RobustInteger` and `RobustAmong` (it gives a value
between the least and the greatest sample), hold of a median of block means.

`DecryptorProofs` proves `HashIsExact` (`HashExact`) for any streams and any
backends: whatever the block cipher returns, the accumulator of every session is
GHASH of what was absorbed. `ProductExact` says that the multiplication of `addmul`
is the product of the field for all factors, which TLC can only sample: its product
is a sum of shifted copies (`OddAdd`, sums modulo 2 as cardinalities of the sets of
terms), the reduction is linear (`ReducedSum`), and what its loop makes of
one bit above 127 is the power of the indeterminate that the standard defines
(`ReducedPower`, `ReductionExact`). `PowerDefined` and `HashExists` show that the recursive
functions of `Ghash` are defined, by induction over a set of naturals, which needs
no operator parameter (`Inductive`, from the well-founded order). `SessionInv` is
the inductive part: a session has absorbed whole records, so that each one before
the last ends on a block and the padding of `dec_update` is that of the standard. TLC
checked `SessionInv` on the instance of `DecryptorBackends`.

`DecryptorProofs` also proves `BackendsImplementAes` (`DSpec => ImplementsAes`): for
every key and block, set of modelled lanes and sequence of calls, each backend
takes the steps of FIPS 197, whichever backends of its level a session is switched
to. It rests on assumptions about single bytes, which TLC evaluates for all of
them in `DecryptorBackends`: `ByteAssumption` (`^` adds bit by bit),
`FieldAssumption` (doubling shifts the bits and adds the polynomial),
`TablesAssumption` (tables, `xtime`, `gmul2` and `rcon` are the functions of the
standard) and `CircuitAssumption` (on words that hold a byte in lane 0 alone, the
gates of `bs_sbox` compute the S-box there). TLC can evaluate these and no more:
what the loops make of them for all blocks and keys is proved in `BackendProofs`.

* Key expansion (`Expands128`, `Expands256`, `ExpandsX86`): a pass appends words that
  the recurrence of the standard asks for, with the constant of the right round
  although `f2`, `f3`, `f5` and `f6` count bytes in an unsigned char. On x86-64 four words come at a
  time from three shifts and sums of a register; `RegisterSums` shows that the
  sums telescope to the words of the recurrence (`PassFour`).
* Rounds on bytes (`ByteRounds`, `X86Rounds`, `ArmRounds`): `MixColumns` of `f1` and
  `Mcol` of `f2` arrive at the product with the matrix by two different groupings of
  the sum (`MixedWays`, with `DoubleSum`: doubling is linear). On ARM the key of the
  round before is added at the start of a round, so that the block of the
  standard is the backend's with one key more, until the last round.
* Rounds on bits (`SlicedRounds`): lane 0 of every gate depends on lane 0 of its inputs
  only (`CircuitLane`, in five parts), so that the assumption about bytes
  extends to words with anything in the other lanes; `ShiftMixLane` has the carry
  of the doubling, `TransposeLane` the mask of each lane, and `LaneIs` reads the
  block back.

`CallInv` is the inductive part for a call: the schedule so far is one of the
standard and complete when the rounds begin, on x86-64 it has whole registers, and
the sliced round keys are those of the schedule. `CallsInv` is that of the sessions: only
backends of the level of the key are called, the counter block is the iv with
the number of the block, and no call is open between two records. So every call
is of the kind that `InputsAssumption` and `CallsAssumption` describe. TLC checked both on the
instance of `DecryptorBackends`.

Only model-checked: the liveness properties (`ConnectionEnds`, `Serves`,
`SwitchTakesEffect`, `HighReturns`, `NameFound`, `Ends`), which need fairness and are
out of the prover's reach; `AcceptedIsNear`, which is about what the recursive
estimator computes; and `PassesCheck` and `Authentic`, which are about given vectors
and streams. `Gcm` takes a backend of the right level to compute one function,
whichever it is, and the hash to be exact: `BackendsImplementAes`, `HashIsExact` and
`Authentic` are what this rests on.

## 6. Not modelled

| Part | Status |
|---|---|
| TLS, OpenSSL, certificates | external: an ordered stream that may break, one key at both ends |
| `test/`, `tools/` | scripts that drive a running container |
| the plot of `synthesize.c`, logs, the text of `db.yaml` and `config.txt` | formatting; no decision depends on it |
| decryption and modes of operation in the bit-sliced library | never called |
