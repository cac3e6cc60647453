------------------------------ MODULE Pipeline ------------------------------
(***************************************************************************)
(* One searching process: the GPU threads take batches of seeds from a     *)
(* shared SeedIterator and push candidates on gpu_outputs, the CPU threads *)
(* measure the candidates and push finds on cpu_outputs, the main thread   *)
(* drops repeated finds, appends the others to the output file and hands   *)
(* them to the uploader thread, which posts them and retries what failed.  *)
(*                                                                         *)
(* A critical section that takes one mutex, does not block inside and      *)
(* touches nothing but the queue it guards is a single step.  Two critical *)
(* sections are longer and their mutex is a variable: the main thread      *)
(* holds cpu_outputs.mutex while it drains the queue and waits for the     *)
(* uploader's mutex, and the uploader holds its own mutex while it sleeps  *)
(* after a failed post.                                                    *)
(***************************************************************************)
EXTENDS Integers, Sequences, FiniteSets

CONSTANTS
    Gpus,         \* the GpuThreads, one per device
    Cpus,         \* the CpuThreads
    SeedSpace,    \* number of seeds; 2^64 in the code, where pos wraps
    Batch,        \* KernelFilterSeeds::threads_per_run
    StartSeeds,   \* the values --start or random_start_seed() can give
    Positions,    \* the places in the world, one per pair (x, z)
    FinalMaxLen,  \* capacity of the last device output buffer
    Process,      \* what process / process_origin answers for a candidate
    NoOutput,     \* std::nullopt
    HasUploader,  \* whether uploader_thread was created
    MaxClaims,    \* bound: batches taken in one session
    MaxKills      \* bound: times the process is killed and restarted

Seeds == 0 .. SeedSpace - 1

\* A find is identified by its seed and place; the score is not in the key.
Keys == [seed : Seeds, at : Positions]

\* GpuOutput and CpuOutput.
Candidates == [seed : Seeds, at : Positions]
Outputs == [seed : Seeds, at : Positions, score : Nat]

ASSUME SpaceAssumption ==
    /\ SeedSpace \in Nat \ {0}
    /\ Batch \in 1 .. SeedSpace
    /\ StartSeeds \subseteq Seeds
    /\ FinalMaxLen \in Nat
    /\ MaxClaims \in Nat
    /\ MaxKills \in Nat
    /\ HasUploader \in BOOLEAN

\* Every answer of process and process_origin carries the seed of its input.
ASSUME ProcessAssumption ==
    /\ NoOutput \notin Outputs \cup Candidates
    /\ Process \in [Candidates -> Outputs \cup {NoOutput}]
    /\ \A c \in Candidates : Process[c] # NoOutput => Process[c].seed = c.seed

VARIABLES
    pos,        \* SeedIterator::pos
    first,      \* the seed this session started from (history)
    claims,     \* start seeds handed out in this session, in order (history)
    gpuPc,      \* "claim" or "scan"
    range,      \* start_seed of the batch a GPU thread works on
    pushed,     \* candidates pushed on gpu_outputs in this session (history)
    gpuQueue,   \* gpu_outputs.queue
    input,      \* the candidate a CPU thread measures, or NoOutput
    output,     \* the find a CPU thread is about to push, or NoOutput
    cpuQueue,   \* cpu_outputs.queue
    mainPc,     \* "sleep" or "drain"
    pending,    \* the find the main thread hands to the uploader, or NoOutput
    seen,       \* seen_outputs
    file,       \* the lines of the output file
    fileStart,  \* length of the file when this session opened it (history)
    upPc,       \* "pop", "post", "requeue" or "hold"
    item,       \* the UploadItem being posted, or NoOutput
    upQueue,    \* UploaderThread::queue
    acked,      \* keys answered with 200 in this session (history)
    posted,     \* keys that reached the backend, in any session (history)
    kills       \* how often the process was killed

gpuVars  == <<pos, first, claims, gpuPc, range>>
cpuVars  == <<input, output>>
mainVars == <<mainPc, pending, seen, file, fileStart>>
upVars   == <<upPc, item, acked, posted>>
vars == <<gpuVars, pushed, gpuQueue, cpuVars, cpuQueue, mainVars, upVars, upQueue, kills>>

Key(o) == [seed |-> o.seed, at |-> o.at]

Elems(s) == {s[i] : i \in DOMAIN s}

\* The seeds a batch covers: start_seed + thread index, in 64 bits.
BatchSeeds(s) == {(s + k) % SeedSpace : k \in 0 .. Batch - 1}

\* What the filter chain may leave in the last output buffer: any candidates of
\* the batch, in the order the atomic counters happened to give, cut at the
\* capacity of the buffer.  GpuBatch models the chain itself.
BatchResults(s) ==
    UNION {[1 .. n -> [seed : BatchSeeds(s), at : Positions]] : n \in 0 .. FinalMaxLen}

\* cpu_outputs.mutex is held through the whole drain of the main thread, and
\* the uploader's mutex through the sleep that follows a failed post.
CpuMutexFree == mainPc = "sleep"
UpMutexFree == upPc # "hold"

Init ==
    /\ pos \in StartSeeds
    /\ first = pos
    /\ claims = <<>>
    /\ gpuPc = [g \in Gpus |-> "claim"]
    /\ range = [g \in Gpus |-> pos]
    /\ pushed = {}
    /\ gpuQueue = <<>>
    /\ input = [c \in Cpus |-> NoOutput]
    /\ output = [c \in Cpus |-> NoOutput]
    /\ cpuQueue = <<>>
    /\ mainPc = "sleep"
    /\ pending = NoOutput
    /\ seen = {}
    /\ file = <<>>
    /\ fileStart = 0
    /\ upPc = "pop"
    /\ item = NoOutput
    /\ upQueue = <<>>
    /\ acked = {}
    /\ posted = {}
    /\ kills = 0

-----------------------------------------------------------------------------
(* GpuThread::run *)

\* Mutant: next returns the position after the addition.
ClaimAfterAdd(g) ==
    /\ gpuPc[g] = "claim"
    /\ Len(claims) < MaxClaims
    /\ pos' = (pos + Batch) % SeedSpace
    /\ range' = [range EXCEPT ![g] = pos']
    /\ claims' = Append(claims, pos')
    /\ gpuPc' = [gpuPc EXCEPT ![g] = "scan"]
    /\ UNCHANGED <<first, pushed, gpuQueue, cpuVars, cpuQueue, mainVars, upVars, upQueue, kills>>

\* SeedIterator::next: one atomic fetch_add hands out a batch.
Claim(g) ==
    /\ gpuPc[g] = "claim"
    /\ Len(claims) < MaxClaims
    /\ pos' = (pos + Batch) % SeedSpace
    /\ range' = [range EXCEPT ![g] = pos]
    /\ claims' = Append(claims, pos)
    /\ gpuPc' = [gpuPc EXCEPT ![g] = "scan"]
    /\ UNCHANGED <<first, pushed, gpuQueue, cpuVars, cpuQueue, mainVars, upVars, upQueue, kills>>

\* Mutant: the batch is computed from the shared position.
PushResultsOfPos(g) ==
    /\ gpuPc[g] = "scan"
    /\ \E results \in BatchResults(pos) :
          /\ gpuQueue' = gpuQueue \o results
          /\ pushed' = pushed \cup Elems(results)
    /\ gpuPc' = [gpuPc EXCEPT ![g] = "claim"]
    /\ UNCHANGED <<pos, first, claims, range, cpuVars, cpuQueue, mainVars, upVars, upQueue, kills>>

\* The batch is filtered and all its results are pushed under one lock.
PushResults(g) ==
    /\ gpuPc[g] = "scan"
    /\ \E results \in BatchResults(range[g]) :
          /\ gpuQueue' = gpuQueue \o results
          /\ pushed' = pushed \cup Elems(results)
    /\ gpuPc' = [gpuPc EXCEPT ![g] = "claim"]
    /\ UNCHANGED <<pos, first, claims, range, cpuVars, cpuQueue, mainVars, upVars, upQueue, kills>>

-----------------------------------------------------------------------------
(* CpuThread::run *)

PopCandidate(c) ==
    /\ input[c] = NoOutput
    /\ output[c] = NoOutput
    /\ gpuQueue # <<>>
    /\ input' = [input EXCEPT ![c] = Head(gpuQueue)]
    /\ gpuQueue' = Tail(gpuQueue)
    /\ UNCHANGED <<gpuVars, pushed, output, cpuQueue, mainVars, upVars, upQueue, kills>>

\* Mutant: a candidate without an output is not told from one with an output.
MeasureUnchecked(c) ==
    /\ input[c] # NoOutput
    /\ output' = [output EXCEPT ![c] = Process[input[c]]]
    /\ input' = [input EXCEPT ![c] = NoOutput]
    /\ cpuQueue' = IF Process[input[c]] = NoOutput THEN Append(cpuQueue, NoOutput) ELSE cpuQueue
    /\ UNCHANGED <<gpuVars, pushed, gpuQueue, mainVars, upVars, upQueue, kills>>

\* A candidate without an output sends the thread back to the queue.
Measure(c) ==
    /\ input[c] # NoOutput
    /\ output' = [output EXCEPT ![c] = Process[input[c]]]
    /\ input' = [input EXCEPT ![c] = NoOutput]
    /\ UNCHANGED <<gpuVars, pushed, gpuQueue, cpuQueue, mainVars, upVars, upQueue, kills>>

PushOutput(c) ==
    /\ output[c] # NoOutput
    /\ CpuMutexFree
    /\ cpuQueue' = Append(cpuQueue, output[c])
    /\ output' = [output EXCEPT ![c] = NoOutput]
    /\ UNCHANGED <<gpuVars, pushed, gpuQueue, input, mainVars, upVars, upQueue, kills>>

-----------------------------------------------------------------------------
(* The loop of main_inner *)

\* Mutant: the outputs are drained when all uploads are done.
LockOutputsWhenIdle ==
    /\ Cpus # {}
    /\ mainPc = "sleep" /\ upQueue = <<>>
    /\ mainPc' = "drain"
    /\ UNCHANGED <<gpuVars, pushed, gpuQueue, cpuVars, cpuQueue, pending, seen, file,
                   fileStart, upVars, upQueue, kills>>

\* A client has no CPU threads, and its main thread leaves the queue alone.
LockOutputs ==
    /\ Cpus # {}
    /\ mainPc = "sleep"
    /\ mainPc' = "drain"
    /\ UNCHANGED <<gpuVars, pushed, gpuQueue, cpuVars, cpuQueue, pending, seen, file,
                   fileStart, upVars, upQueue, kills>>

\* Mutant: a second place of a seed counts as a repetition.
DrainBySeed ==
    /\ mainPc = "drain"
    /\ pending = NoOutput
    /\ cpuQueue # <<>>
    /\ LET o == Head(cpuQueue) IN
          IF o.seed \in {k.seed : k \in seen}
            THEN UNCHANGED <<seen, file, pending>>
            ELSE /\ seen' = seen \cup {Key(o)}
                 /\ file' = Append(file, o)
                 /\ pending' = IF HasUploader THEN o ELSE NoOutput
    /\ cpuQueue' = Tail(cpuQueue)
    /\ UNCHANGED <<gpuVars, pushed, gpuQueue, cpuVars, mainPc, fileStart, upVars, upQueue, kills>>

\* Mutant: the score is part of what is compared.
DrainWithScore ==
    /\ mainPc = "drain"
    /\ pending = NoOutput
    /\ cpuQueue # <<>>
    /\ LET o == Head(cpuQueue) IN
          IF o \in Elems(file)
            THEN UNCHANGED <<seen, file, pending>>
            ELSE /\ seen' = seen \cup {Key(o)}
                 /\ file' = Append(file, o)
                 /\ pending' = IF HasUploader THEN o ELSE NoOutput
    /\ cpuQueue' = Tail(cpuQueue)
    /\ UNCHANGED <<gpuVars, pushed, gpuQueue, cpuVars, mainPc, fileStart, upVars, upQueue, kills>>

\* One turn of the drain: a key already seen is skipped, a new one is recorded,
\* written and flushed, and only then handed over to the uploader, if there is one.
DrainOne ==
    /\ mainPc = "drain"
    /\ pending = NoOutput
    /\ cpuQueue # <<>>
    /\ LET o == Head(cpuQueue) IN
          IF Key(o) \in seen
            THEN UNCHANGED <<seen, file, pending>>
            ELSE /\ seen' = seen \cup {Key(o)}
                 /\ file' = Append(file, o)
                 /\ pending' = IF HasUploader THEN o ELSE NoOutput
    /\ cpuQueue' = Tail(cpuQueue)
    /\ UNCHANGED <<gpuVars, pushed, gpuQueue, cpuVars, mainPc, fileStart, upVars, upQueue, kills>>

\* UploaderThread::enqueue, called with cpu_outputs.mutex still held.
Enqueue ==
    /\ pending # NoOutput
    /\ UpMutexFree
    /\ upQueue' = Append(upQueue, pending)
    /\ pending' = NoOutput
    /\ UNCHANGED <<gpuVars, pushed, gpuQueue, cpuVars, cpuQueue, mainPc, seen, file,
                   fileStart, upVars, kills>>

UnlockOutputs ==
    /\ mainPc = "drain"
    /\ pending = NoOutput
    /\ cpuQueue = <<>>
    /\ mainPc' = "sleep"
    /\ UNCHANGED <<gpuVars, pushed, gpuQueue, cpuVars, cpuQueue, pending, seen, file,
                   fileStart, upVars, upQueue, kills>>

-----------------------------------------------------------------------------
(* UploaderThread::run *)

PopItem ==
    /\ upPc = "pop"
    /\ upQueue # <<>>
    /\ item' = Head(upQueue)
    /\ upQueue' = Tail(upQueue)
    /\ upPc' = "post"
    /\ UNCHANGED <<gpuVars, pushed, gpuQueue, cpuVars, cpuQueue, mainVars, acked, posted, kills>>

\* http_post returned true: the backend answered 200.
PostOk ==
    /\ upPc = "post"
    /\ acked' = acked \cup {Key(item)}
    /\ posted' = posted \cup {Key(item)}
    /\ item' = NoOutput
    /\ upPc' = "pop"
    /\ UNCHANGED <<gpuVars, pushed, gpuQueue, cpuVars, cpuQueue, mainVars, upQueue, kills>>

\* http_post returned false: refused, timed out or answered otherwise.  The
\* request may have reached the backend all the same.
PostFailed ==
    /\ upPc = "post"
    /\ posted' \in {posted, posted \cup {Key(item)}}
    /\ upPc' = "requeue"
    /\ UNCHANGED <<gpuVars, pushed, gpuQueue, cpuVars, cpuQueue, mainVars, item, acked, upQueue, kills>>

\* Mutant: a failed item is forgotten.
RequeueNothing ==
    /\ upPc = "requeue"
    /\ upQueue' = upQueue
    /\ item' = NoOutput
    /\ upPc' = "hold"
    /\ UNCHANGED <<gpuVars, pushed, gpuQueue, cpuVars, cpuQueue, mainVars, acked, posted, kills>>

\* The item goes to the back of the queue and the mutex stays locked for 5 s.
Requeue ==
    /\ upPc = "requeue"
    /\ upQueue' = Append(upQueue, item)
    /\ item' = NoOutput
    /\ upPc' = "hold"
    /\ UNCHANGED <<gpuVars, pushed, gpuQueue, cpuVars, cpuQueue, mainVars, acked, posted, kills>>

WakeUp ==
    /\ upPc = "hold"
    /\ upPc' = "pop"
    /\ UNCHANGED <<gpuVars, pushed, gpuQueue, cpuVars, cpuQueue, mainVars, item, acked, posted,
                   upQueue, kills>>

-----------------------------------------------------------------------------
\* Mutant: the last line was not flushed.
KillUnflushed ==
    /\ kills < MaxKills
    /\ kills' = kills + 1
    /\ pos' \in StartSeeds
    /\ first' = pos'
    /\ claims' = <<>>
    /\ gpuPc' = [g \in Gpus |-> "claim"]
    /\ range' = [g \in Gpus |-> pos']
    /\ pushed' = {}
    /\ gpuQueue' = <<>>
    /\ input' = [c \in Cpus |-> NoOutput]
    /\ output' = [c \in Cpus |-> NoOutput]
    /\ cpuQueue' = <<>>
    /\ mainPc' = "sleep"
    /\ pending' = NoOutput
    /\ seen' = {}
    /\ file' = SubSeq(file, 1, Len(file) - 1)
    /\ fileStart' = Len(file')
    /\ upPc' = "pop"
    /\ item' = NoOutput
    /\ upQueue' = <<>>
    /\ acked' = {}
    /\ UNCHANGED posted

\* Mutant: the keys seen survive a restart.
KillKeepsSeen ==
    /\ kills < MaxKills
    /\ kills' = kills + 1
    /\ pos' \in StartSeeds
    /\ first' = pos'
    /\ claims' = <<>>
    /\ gpuPc' = [g \in Gpus |-> "claim"]
    /\ range' = [g \in Gpus |-> pos']
    /\ pushed' = {}
    /\ gpuQueue' = <<>>
    /\ input' = [c \in Cpus |-> NoOutput]
    /\ output' = [c \in Cpus |-> NoOutput]
    /\ cpuQueue' = <<>>
    /\ mainPc' = "sleep"
    /\ pending' = NoOutput
    /\ fileStart' = Len(file)
    /\ upPc' = "pop"
    /\ item' = NoOutput
    /\ upQueue' = <<>>
    /\ acked' = {}
    /\ UNCHANGED <<seen, file, posted>>

\* The main loop has no exit, so a session ends by a kill.  The next one starts
\* from a new seed with empty queues, and opens the file for appending.
Kill ==
    /\ kills < MaxKills
    /\ kills' = kills + 1
    /\ pos' \in StartSeeds
    /\ first' = pos'
    /\ claims' = <<>>
    /\ gpuPc' = [g \in Gpus |-> "claim"]
    /\ range' = [g \in Gpus |-> pos']
    /\ pushed' = {}
    /\ gpuQueue' = <<>>
    /\ input' = [c \in Cpus |-> NoOutput]
    /\ output' = [c \in Cpus |-> NoOutput]
    /\ cpuQueue' = <<>>
    /\ mainPc' = "sleep"
    /\ pending' = NoOutput
    /\ seen' = {}
    /\ fileStart' = Len(file)
    /\ upPc' = "pop"
    /\ item' = NoOutput
    /\ upQueue' = <<>>
    /\ acked' = {}
    /\ UNCHANGED <<file, posted>>

Gpu(g) == Claim(g) \/ PushResults(g)
Cpu(c) == PopCandidate(c) \/ Measure(c) \/ PushOutput(c)
Main == LockOutputs \/ DrainOne \/ Enqueue \/ UnlockOutputs
Uploader == PopItem \/ PostOk \/ PostFailed \/ Requeue \/ WakeUp

Next ==
    \/ \E g \in Gpus : Gpu(g)
    \/ \E c \in Cpus : Cpu(c)
    \/ Main
    \/ Uploader
    \/ Kill

Spec == Init /\ [][Next]_vars

(***************************************************************************)
(* Fairness.  Every thread runs forever.  A thread that waits for a mutex  *)
(* another one takes again and again needs strong fairness: a mutex makes  *)
(* no promise, but the main thread leaves cpu_outputs.mutex for a second   *)
(* at a time and the uploader leaves its mutex during each post.           *)
(***************************************************************************)
Fairness ==
    /\ \A g \in Gpus : WF_vars(PushResults(g))
    /\ \A c \in Cpus : /\ WF_vars(PopCandidate(c))
                       /\ WF_vars(Measure(c))
                       /\ SF_vars(PushOutput(c))
    /\ WF_vars(LockOutputs) /\ WF_vars(DrainOne) /\ WF_vars(UnlockOutputs)
    /\ SF_vars(Enqueue)
    /\ WF_vars(PopItem) /\ WF_vars(Requeue) /\ WF_vars(WakeUp)
    /\ WF_vars(PostOk \/ PostFailed)

FairSpec == Spec /\ Fairness

-----------------------------------------------------------------------------
(* Properties *)

SessionLines == fileStart + 1 .. Len(file)

SessionKeys == {Key(file[i]) : i \in SessionLines}

TypeOK ==
    /\ pos \in Seeds
    /\ first \in Seeds
    /\ claims \in Seq(Seeds)
    /\ gpuPc \in [Gpus -> {"claim", "scan"}]
    /\ range \in [Gpus -> Seeds]
    /\ pushed \subseteq Candidates
    /\ gpuQueue \in Seq(Candidates)
    /\ input \in [Cpus -> Candidates \cup {NoOutput}]
    /\ output \in [Cpus -> Outputs \cup {NoOutput}]
    /\ cpuQueue \in Seq(Outputs)
    /\ mainPc \in {"sleep", "drain"}
    /\ pending \in Outputs \cup {NoOutput}
    /\ seen \subseteq Keys
    /\ file \in Seq(Outputs)
    /\ fileStart \in 0 .. Len(file)
    /\ upPc \in {"pop", "post", "requeue", "hold"}
    /\ item \in Outputs \cup {NoOutput}
    /\ upQueue \in Seq(Outputs)
    /\ acked \subseteq Keys
    /\ posted \subseteq Keys
    /\ kills \in 0 .. MaxKills

\* The batches that several GPU threads take from one SeedIterator tile the
\* seed space: until the 64-bit position wraps around onto its start, no seed
\* is scanned twice and none between the first and the last one is left out.
ClaimsTile ==
    LET total == Len(claims) * Batch
        all == UNION {BatchSeeds(claims[i]) : i \in DOMAIN claims}
    IN  total <= SeedSpace =>
           /\ Cardinality(all) = total
           /\ all = {(first + k) % SeedSpace : k \in 0 .. total - 1}

\* Seed s belongs to a batch that was handed out in this session.
Handed(s) == \E n \in DOMAIN claims : s \in BatchSeeds(claims[n])

\* Where a candidate that was pushed on gpu_outputs can be.
InPipeline(c) ==
    \/ c \in Elems(gpuQueue)
    \/ \E t \in Cpus : input[t] = c \/ output[t] = Process[c]
    \/ Process[c] \in Elems(cpuQueue)

\* No find is lost between the queues, whatever threads take from and put into
\* them: a candidate that was pushed and has an output is still in the
\* pipeline or its key has been written in this session.
NoFindLost ==
    \A c \in pushed :
        Process[c] = NoOutput \/ InPipeline(c) \/ Key(Process[c]) \in SessionKeys

\* Several GPU candidates lead to the same island; one session writes a key
\* to the output file at most once.
OneLinePerKey ==
    \A i, j \in SessionLines : Key(file[i]) = Key(file[j]) => i = j

\* Nothing is made up on the way: a line of this session is what process
\* answered for a candidate of a batch that was handed out in it.
LinesWereFound ==
    \A i \in SessionLines :
        \E c \in pushed :
            /\ file[i] = Process[c]
            /\ Handed(c.seed)

\* The keys at each place of the upload path.
PendingKeys == {Key(o) : o \in {pending} \ {NoOutput}}
ItemKeys == {Key(o) : o \in {item} \ {NoOutput}}
QueueKeys == {Key(o) : o \in Elems(upQueue)}

\* With an uploader, a key written in this session is at exactly one place of
\* the upload path: with the main thread that waits for the mutex, once in
\* the queue, in the hands of the uploader, or acknowledged.  A failed post
\* neither loses nor doubles it, and nothing else is ever uploaded.
UploadedOnce ==
    HasUploader =>
        /\ SessionKeys = PendingKeys \cup QueueKeys \cup ItemKeys \cup acked
        /\ \A i, j \in DOMAIN upQueue : Key(upQueue[i]) = Key(upQueue[j]) => i = j
        /\ PendingKeys \cap (QueueKeys \cup ItemKeys \cup acked) = {}
        /\ QueueKeys \cap (ItemKeys \cup acked) = {}
        /\ ItemKeys \cap acked = {}

\* A find is on disk before the backend can have heard of it, also when the
\* process is killed between the two: what was ever posted is in the file.
PostedIsOnFile == posted \subseteq {Key(file[i]) : i \in DOMAIN file}

(* The inductive invariant of PipelineProofs: the properties above, and what *)
(* makes them hold after the next step.                                      *)

SeenIsWritten == seen = SessionKeys

\* The n-th batch starts n - 1 batches behind the first seed, and the iterator
\* stands behind the last one.
ClaimsInStep ==
    /\ \A n \in DOMAIN claims : claims[n] = (first + (n - 1) * Batch) % SeedSpace
    /\ pos = (first + Len(claims) * Batch) % SeedSpace

\* Which thread can hold what.
HandsOK ==
    /\ \A t \in Cpus : input[t] = NoOutput \/ output[t] = NoOutput
    /\ pending # NoOutput => mainPc = "drain" /\ HasUploader
    /\ item # NoOutput <=> upPc \in {"post", "requeue"}
    /\ ~HasUploader => upQueue = <<>> /\ item = NoOutput

FoundBy(o) == \E c \in pushed : o = Process[c]

\* Whatever is on its way stems from a candidate that was pushed, and that from
\* a batch that was handed out.
InFlightWasFound ==
    /\ \A g \in Gpus : gpuPc[g] = "scan" => \E n \in DOMAIN claims : claims[n] = range[g]
    /\ \A c \in pushed : Handed(c.seed)
    /\ \A c \in Elems(gpuQueue) : c \in pushed
    /\ \A t \in Cpus : input[t] # NoOutput => input[t] \in pushed
    /\ \A t \in Cpus : output[t] # NoOutput => FoundBy(output[t])
    /\ \A o \in Elems(cpuQueue) : FoundBy(o)

IInv ==
    /\ TypeOK
    /\ ClaimsInStep
    /\ SeenIsWritten
    /\ HandsOK
    /\ InFlightWasFound
    /\ LinesWereFound
    /\ NoFindLost
    /\ OneLinePerKey
    /\ UploadedOnce
    /\ PostedIsOnFile

\* The candidates that are finds.
Findable == {c \in Candidates : Process[c] # NoOutput}

\* Every candidate with an output is written in the end, even while no post
\* ever succeeds and the uploader keeps sleeping with its mutex.
FindsAreWritten ==
    \A c \in Findable :
        (c \in pushed) ~> (Key(Process[c]) \in SessionKeys)

\* What was written is acknowledged in the end, if the backend answers again
\* and again, although a failed item goes behind all the others.
WrittenIsUploaded ==
    SF_vars(PostOk) =>
        \A k \in {Key(Process[c]) : c \in Findable} : (k \in SessionKeys) ~> (k \in acked)
=============================================================================
