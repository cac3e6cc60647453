--------------------------- MODULE PipelineProofs ---------------------------
(***************************************************************************)
(* What Pipeline guarantees for any number of threads, any seed space and  *)
(* any answers of process: proved from an inductive invariant.             *)
(***************************************************************************)
EXTENDS Pipeline, Numbers, FiniteSetTheorems, TLAPS

(***************************************************************************)
(* Sequences                                                               *)
(***************************************************************************)

\* Pushing an element on a queue adds it to the elements of the queue.
LEMMA ElemsAppend ==
    ASSUME NEW S, NEW s \in Seq(S), NEW e \in S
    PROVE  /\ Append(s, e) \in Seq(S)
           /\ Len(Append(s, e)) = Len(s) + 1
           /\ \A i \in 1 .. Len(s) : Append(s, e)[i] = s[i]
           /\ Append(s, e)[Len(s) + 1] = e
           /\ Elems(Append(s, e)) = Elems(s) \cup {e}
<1>1. /\ Append(s, e) \in Seq(S)
      /\ Len(Append(s, e)) = Len(s) + 1
      /\ \A i \in 1 .. Len(s) : Append(s, e)[i] = s[i]
      /\ Append(s, e)[Len(s) + 1] = e
      /\ DOMAIN Append(s, e) = 1 .. Len(s) + 1
      /\ DOMAIN s = 1 .. Len(s)
      /\ Len(s) \in Nat
  OBVIOUS
<1>2. Elems(Append(s, e)) = Elems(s) \cup {e}
  <2>1. ASSUME NEW x \in Elems(Append(s, e)) PROVE x \in Elems(s) \cup {e}
    <3>1. PICK i \in 1 .. Len(s) + 1 : x = Append(s, e)[i]
      BY <1>1, <2>1 DEF Elems
    <3>2. i \in 1 .. Len(s) \/ i = Len(s) + 1
      BY <1>1, <3>1
    <3>. QED  BY <1>1, <3>1, <3>2 DEF Elems
  <2>2. ASSUME NEW x \in Elems(s) \cup {e} PROVE x \in Elems(Append(s, e))
    <3>1. CASE x = e
      <4>1. Len(s) + 1 \in DOMAIN Append(s, e)  BY <1>1
      <4>. QED  BY <1>1, <3>1, <4>1 DEF Elems
    <3>2. CASE x \in Elems(s)
      <4>1. PICK i \in 1 .. Len(s) : x = s[i]  BY <1>1, <3>2 DEF Elems
      <4>2. i \in DOMAIN Append(s, e)  BY <1>1
      <4>. QED  BY <1>1, <4>1, <4>2 DEF Elems
    <3>. QED  BY <2>2, <3>1, <3>2
  <2>. QED  BY <2>1, <2>2
<1>. QED  BY <1>1, <1>2

\* A thread that pops takes the head and leaves the other elements.
LEMMA ElemsTail ==
    ASSUME NEW S, NEW s \in Seq(S), s # <<>>
    PROVE  /\ Head(s) \in S
           /\ Head(s) = s[1]
           /\ 1 \in DOMAIN s
           /\ Tail(s) \in Seq(S)
           /\ DOMAIN Tail(s) = 1 .. Len(s) - 1
           /\ \A i \in DOMAIN Tail(s) : i + 1 \in DOMAIN s /\ Tail(s)[i] = s[i + 1]
           /\ Elems(s) = {Head(s)} \cup Elems(Tail(s))
<1>1. /\ Head(s) \in S
      /\ Head(s) = s[1]
      /\ Tail(s) \in Seq(S)
      /\ DOMAIN s = 1 .. Len(s)
      /\ Len(s) \in Nat \ {0}
      /\ DOMAIN Tail(s) = 1 .. Len(s) - 1
      /\ \A i \in 1 .. Len(s) - 1 : Tail(s)[i] = s[i + 1]
  OBVIOUS
<1>2. 1 \in DOMAIN s /\ \A i \in DOMAIN Tail(s) : i + 1 \in DOMAIN s
  BY <1>1
<1>3. ASSUME NEW x \in Elems(s) PROVE x \in {Head(s)} \cup Elems(Tail(s))
  <2>1. PICK i \in 1 .. Len(s) : x = s[i]  BY <1>1, <1>3 DEF Elems
  <2>2. CASE i = 1  BY <1>1, <2>1, <2>2
  <2>3. CASE i # 1
    <3>1. i - 1 \in 1 .. Len(s) - 1 /\ s[i] = Tail(s)[i - 1]
      <4>1. i - 1 \in 1 .. Len(s) - 1 /\ (i - 1) + 1 = i  BY <1>1, <2>3
      <4>. QED  BY <1>1, <4>1
    <3>. QED  BY <1>1, <2>1, <3>1 DEF Elems
  <2>. QED  BY <2>2, <2>3
<1>4. ASSUME NEW x \in {Head(s)} \cup Elems(Tail(s)) PROVE x \in Elems(s)
  BY <1>1, <1>2, <1>4 DEF Elems
<1>. QED  BY <1>1, <1>2, <1>3, <1>4

\* Pushing the results of a batch adds their elements to the queue.
LEMMA ElemsConcat ==
    ASSUME NEW S, NEW s \in Seq(S), NEW t \in Seq(S)
    PROVE  /\ s \o t \in Seq(S)
           /\ Elems(s \o t) = Elems(s) \cup Elems(t)
<1>1. /\ s \o t \in Seq(S)
      /\ Len(s) \in Nat /\ Len(t) \in Nat
      /\ DOMAIN s = 1 .. Len(s) /\ DOMAIN t = 1 .. Len(t)
      /\ DOMAIN (s \o t) = 1 .. Len(s) + Len(t)
      /\ \A i \in 1 .. Len(s) : (s \o t)[i] = s[i]
      /\ \A i \in Len(s) + 1 .. Len(s) + Len(t) : (s \o t)[i] = t[i - Len(s)]
  OBVIOUS
<1>2. ASSUME NEW x \in Elems(s \o t) PROVE x \in Elems(s) \cup Elems(t)
  <2>1. PICK i \in 1 .. Len(s) + Len(t) : x = (s \o t)[i]  BY <1>1, <1>2 DEF Elems
  <2>2. CASE i <= Len(s)
    <3>1. i \in 1 .. Len(s)  BY <1>1, <2>2
    <3>. QED  BY <1>1, <2>1, <3>1 DEF Elems
  <2>3. CASE i > Len(s)
    <3>1. i \in Len(s) + 1 .. Len(s) + Len(t) /\ i - Len(s) \in 1 .. Len(t)  BY <1>1, <2>3
    <3>. QED  BY <1>1, <2>1, <3>1 DEF Elems
  <2>. QED  BY <1>1, <2>2, <2>3
<1>3. ASSUME NEW x \in Elems(s) PROVE x \in Elems(s \o t)
  <2>1. PICK i \in 1 .. Len(s) : x = s[i]  BY <1>1, <1>3 DEF Elems
  <2>2. i \in DOMAIN (s \o t)  BY <1>1
  <2>. QED  BY <1>1, <2>1, <2>2 DEF Elems
<1>4. ASSUME NEW x \in Elems(t) PROVE x \in Elems(s \o t)
  <2>1. PICK i \in 1 .. Len(t) : x = t[i]  BY <1>1, <1>4 DEF Elems
  <2>2. /\ Len(s) + i \in Len(s) + 1 .. Len(s) + Len(t)
        /\ Len(s) + i \in 1 .. Len(s) + Len(t)
        /\ (Len(s) + i) - Len(s) = i
    BY <1>1
  <2>3. x = (s \o t)[Len(s) + i]  BY <1>1, <2>1, <2>2
  <2>. QED  BY <1>1, <2>2, <2>3 DEF Elems
<1>. QED  BY <1>1, <1>2, <1>3, <1>4

(***************************************************************************)
(* Types                                                                   *)
(***************************************************************************)

\* The position of the iterator and the seeds of a batch stay in 64 bits.
LEMMA BatchSeedsInSpace ==
    /\ \A s \in Seeds : (s + Batch) % SeedSpace \in Seeds
    /\ \A s \in Seeds : BatchSeeds(s) \subseteq Seeds
BY SpaceAssumption DEF Seeds, BatchSeeds

\* What a GPU thread pushes is a sequence of candidates of its batch.
LEMMA BatchResultsType ==
    ASSUME NEW s \in Seeds, NEW r \in BatchResults(s)
    PROVE  /\ r \in Seq(Candidates)
           /\ \A c \in Elems(r) : c \in Candidates /\ c.seed \in BatchSeeds(s)
<1>1. PICK n \in 0 .. FinalMaxLen : r \in [1 .. n -> [seed : BatchSeeds(s), at : Positions]]
  BY DEF BatchResults
<1>2. n \in Nat  BY SpaceAssumption
<1>3. [seed : BatchSeeds(s), at : Positions] \subseteq Candidates
  BY BatchSeedsInSpace DEF Candidates
<1>4. r \in [1 .. n -> Candidates]  BY <1>1, <1>3
<1>5. r \in Seq(Candidates)  BY <1>2, <1>4
<1>6. \A c \in Elems(r) : c \in [seed : BatchSeeds(s), at : Positions]
  BY <1>1 DEF Elems
<1>. QED  BY <1>3, <1>5, <1>6

\* The key of a find is a key.
LEMMA KeyType == \A o \in Outputs : Key(o) \in Keys
BY DEF Outputs, Keys, Key

\* What process and process_origin answer is a find or nothing.
LEMMA ProcessType ==
    \A c \in Candidates : Process[c] \in Outputs \cup {NoOutput}
BY ProcessAssumption

\* A session starts with everything of its type.
LEMMA TypeInit == Init => TypeOK
BY SpaceAssumption DEF Init, TypeOK

\* Every step keeps the types.
LEMMA TypeStep == TypeOK /\ HandsOK /\ [Next]_vars => TypeOK'
<1>. SUFFICES ASSUME TypeOK, HandsOK, [Next]_vars PROVE TypeOK'
  OBVIOUS
<1>1. ASSUME NEW g \in Gpus, Claim(g) PROVE TypeOK'
  BY <1>1, BatchSeedsInSpace DEF TypeOK, Claim, cpuVars, mainVars, upVars
<1>2. ASSUME NEW g \in Gpus, PushResults(g) PROVE TypeOK'
  <2>1. range[g] \in Seeds  BY DEF TypeOK
  <2>2. PICK r \in BatchResults(range[g]) : gpuQueue' = gpuQueue \o r /\ pushed' = pushed \cup Elems(r)
    BY <1>2 DEF PushResults
  <2>3. r \in Seq(Candidates) /\ Elems(r) \subseteq Candidates
    BY <2>1, BatchResultsType
  <2>4. gpuQueue' \in Seq(Candidates) /\ pushed' \subseteq Candidates
    BY <2>2, <2>3 DEF TypeOK
  <2>. QED  BY <1>2, <2>4 DEF TypeOK, PushResults, cpuVars, mainVars, upVars
<1>3. ASSUME NEW c \in Cpus, PopCandidate(c) PROVE TypeOK'
  <2>1. Head(gpuQueue) \in Candidates /\ Tail(gpuQueue) \in Seq(Candidates)
    BY <1>3, ElemsTail DEF TypeOK, PopCandidate
  <2>. QED  BY <1>3, <2>1 DEF TypeOK, PopCandidate, gpuVars, mainVars, upVars
<1>4. ASSUME NEW c \in Cpus, Measure(c) PROVE TypeOK'
  <2>1. Process[input[c]] \in Outputs \cup {NoOutput}
    BY <1>4, ProcessType DEF TypeOK, Measure
  <2>. QED  BY <1>4, <2>1 DEF TypeOK, Measure, gpuVars, mainVars, upVars
<1>5. ASSUME NEW c \in Cpus, PushOutput(c) PROVE TypeOK'
  <2>1. output[c] \in Outputs  BY <1>5 DEF TypeOK, PushOutput
  <2>2. Append(cpuQueue, output[c]) \in Seq(Outputs)
    BY <2>1 DEF TypeOK
  <2>. QED  BY <1>5, <2>2 DEF TypeOK, PushOutput, gpuVars, mainVars, upVars
<1>6. ASSUME LockOutputs PROVE TypeOK'
  BY <1>6 DEF TypeOK, LockOutputs, gpuVars, cpuVars, upVars
<1>7. ASSUME DrainOne PROVE TypeOK'
  <2>1. Head(cpuQueue) \in Outputs /\ Tail(cpuQueue) \in Seq(Outputs)
    BY <1>7, ElemsTail DEF TypeOK, DrainOne
  <2>2. Key(Head(cpuQueue)) \in Keys  BY <2>1, KeyType
  <2>3. /\ Append(file, Head(cpuQueue)) \in Seq(Outputs)
        /\ Len(Append(file, Head(cpuQueue))) = Len(file) + 1
        /\ Len(file) \in Nat
    BY <2>1, ElemsAppend DEF TypeOK
  <2>4. /\ seen' \subseteq Keys
        /\ file' \in Seq(Outputs)
        /\ fileStart' \in 0 .. Len(file')
        /\ pending' \in Outputs \cup {NoOutput}
    <3>1. CASE Key(Head(cpuQueue)) \in seen
      BY <1>7, <3>1 DEF TypeOK, DrainOne
    <3>2. CASE Key(Head(cpuQueue)) \notin seen
      <4>1. /\ seen' = seen \cup {Key(Head(cpuQueue))}
            /\ file' = Append(file, Head(cpuQueue))
            /\ pending' \in {Head(cpuQueue), NoOutput}
            /\ fileStart' = fileStart
        BY <1>7, <3>2 DEF DrainOne
      <4>. QED  BY <2>1, <2>2, <2>3, <4>1 DEF TypeOK
    <3>. QED  BY <3>1, <3>2
  <2>. QED  BY <1>7, <2>1, <2>4 DEF TypeOK, DrainOne, gpuVars, cpuVars, upVars
<1>8. ASSUME Enqueue PROVE TypeOK'
  <2>1. Append(upQueue, pending) \in Seq(Outputs)
    BY <1>8 DEF TypeOK, Enqueue
  <2>. QED  BY <1>8, <2>1 DEF TypeOK, Enqueue, gpuVars, cpuVars, upVars
<1>9. ASSUME UnlockOutputs PROVE TypeOK'
  BY <1>9 DEF TypeOK, UnlockOutputs, gpuVars, cpuVars, upVars
<1>10. ASSUME PopItem PROVE TypeOK'
  <2>1. Head(upQueue) \in Outputs /\ Tail(upQueue) \in Seq(Outputs)
    BY <1>10, ElemsTail DEF TypeOK, PopItem
  <2>. QED  BY <1>10, <2>1 DEF TypeOK, PopItem, gpuVars, cpuVars, mainVars
<1>11. ASSUME PostOk PROVE TypeOK'
  <2>1. Key(item) \in Keys
    BY <1>11, KeyType DEF TypeOK, HandsOK, PostOk
  <2>. QED  BY <1>11, <2>1 DEF TypeOK, PostOk, gpuVars, cpuVars, mainVars
<1>12. ASSUME PostFailed PROVE TypeOK'
  <2>1. Key(item) \in Keys
    BY <1>12, KeyType DEF TypeOK, HandsOK, PostFailed
  <2>. QED  BY <1>12, <2>1 DEF TypeOK, PostFailed, gpuVars, cpuVars, mainVars
<1>13. ASSUME Requeue PROVE TypeOK'
  <2>1. item \in Outputs  BY <1>13 DEF TypeOK, HandsOK, Requeue
  <2>2. Append(upQueue, item) \in Seq(Outputs)  BY <2>1 DEF TypeOK
  <2>. QED  BY <1>13, <2>2 DEF TypeOK, Requeue, gpuVars, cpuVars, mainVars
<1>14. ASSUME WakeUp PROVE TypeOK'
  BY <1>14 DEF TypeOK, WakeUp, gpuVars, cpuVars, mainVars
<1>15. ASSUME Kill PROVE TypeOK'
  BY <1>15, SpaceAssumption DEF TypeOK, Kill
<1>16. ASSUME UNCHANGED vars PROVE TypeOK'
  BY <1>16 DEF TypeOK, vars, gpuVars, cpuVars, mainVars, upVars
<1>. QED
  BY <1>1, <1>2, <1>3, <1>4, <1>5, <1>6, <1>7, <1>8, <1>9, <1>10, <1>11, <1>12, <1>13,
     <1>14, <1>15, <1>16 DEF Next, Gpu, Cpu, Main, Uploader

(***************************************************************************)
(* Which thread can hold what                                              *)
(***************************************************************************)

\* A session starts with empty hands.
LEMMA HandsInit == Init => HandsOK
BY DEF Init, HandsOK

\* The program counters of the main thread and of the uploader tell what they hold.
LEMMA HandsStep == TypeOK /\ HandsOK /\ [Next]_vars => HandsOK'
<1>. SUFFICES ASSUME TypeOK, HandsOK, [Next]_vars PROVE HandsOK'
  OBVIOUS
<1>1. ASSUME NEW g \in Gpus, Gpu(g) PROVE HandsOK'
  BY <1>1 DEF HandsOK, Gpu, Claim, PushResults, cpuVars, mainVars, upVars
<1>2. ASSUME NEW c \in Cpus, Cpu(c) PROVE HandsOK'
  <2>1. \A t \in Cpus : input'[t] = NoOutput \/ output'[t] = NoOutput
    <3>1. CASE PopCandidate(c)  BY <3>1 DEF HandsOK, TypeOK, PopCandidate
    <3>2. CASE Measure(c)  BY <3>2 DEF HandsOK, TypeOK, Measure
    <3>3. CASE PushOutput(c)  BY <3>3 DEF HandsOK, TypeOK, PushOutput
    <3>. QED  BY <1>2, <3>1, <3>2, <3>3 DEF Cpu
  <2>. QED
    BY <1>2, <2>1 DEF HandsOK, Cpu, PopCandidate, Measure, PushOutput, mainVars, upVars
<1>3. CASE LockOutputs
  BY <1>3 DEF HandsOK, LockOutputs, cpuVars, upVars
<1>4. CASE DrainOne
  <2>1. pending' # NoOutput => mainPc' = "drain" /\ HasUploader
    BY <1>4 DEF DrainOne
  <2>. QED  BY <1>4, <2>1 DEF HandsOK, DrainOne, cpuVars, upVars
<1>5. CASE Enqueue
  BY <1>5 DEF HandsOK, Enqueue, cpuVars, upVars
<1>6. CASE UnlockOutputs
  BY <1>6 DEF HandsOK, UnlockOutputs, cpuVars, upVars
<1>7. CASE PopItem
  <2>1. Head(upQueue) # NoOutput
    BY <1>7, ElemsTail, ProcessAssumption DEF TypeOK, PopItem
  <2>. QED  BY <1>7, <2>1 DEF HandsOK, PopItem, cpuVars, mainVars
<1>8. CASE PostOk \/ PostFailed \/ Requeue \/ WakeUp
  BY <1>8 DEF HandsOK, PostOk, PostFailed, Requeue, WakeUp, cpuVars, mainVars
<1>9. CASE Kill
  BY <1>9 DEF HandsOK, Kill
<1>10. CASE UNCHANGED vars
  BY <1>10 DEF HandsOK, vars, cpuVars, mainVars, upVars
<1>. QED
  BY <1>1, <1>2, <1>3, <1>4, <1>5, <1>6, <1>7, <1>8, <1>9, <1>10 DEF Next, Main, Uploader

(***************************************************************************)
(* The output file                                                         *)
(***************************************************************************)

\* The lines of this session change only when a line is written or a session starts.
LEMMA FileFrame ==
    UNCHANGED <<file, fileStart>> => SessionLines' = SessionLines /\ SessionKeys' = SessionKeys
BY DEF SessionLines, SessionKeys

\* What the main thread does with a find whose key is new.
LEMMA DrainNew ==
    ASSUME TypeOK, DrainOne, Key(Head(cpuQueue)) \notin seen
    PROVE  /\ seen' = seen \cup {Key(Head(cpuQueue))}
           /\ pending' = IF HasUploader THEN Head(cpuQueue) ELSE NoOutput
           /\ file' = Append(file, Head(cpuQueue))
           /\ SessionLines' = SessionLines \cup {Len(file) + 1}
           /\ Len(file) + 1 \notin SessionLines
           /\ \A i \in SessionLines : i \in DOMAIN file /\ file'[i] = file[i]
           /\ file'[Len(file) + 1] = Head(cpuQueue)
           /\ SessionKeys' = SessionKeys \cup {Key(Head(cpuQueue))}
           /\ Elems(file') = Elems(file) \cup {Head(cpuQueue)}
<1>. DEFINE o == Head(cpuQueue)
<1>1. /\ seen' = seen \cup {Key(o)}
      /\ pending' = IF HasUploader THEN o ELSE NoOutput
      /\ file' = Append(file, o)
      /\ fileStart' = fileStart
  BY DEF DrainOne
<1>2. o \in Outputs  BY ElemsTail DEF DrainOne, TypeOK
<1>3. /\ Len(file') = Len(file) + 1
      /\ \A i \in 1 .. Len(file) : file'[i] = file[i]
      /\ file'[Len(file) + 1] = o
      /\ Elems(file') = Elems(file) \cup {o}
  BY <1>1, <1>2, ElemsAppend DEF TypeOK
<1>4. fileStart \in 0 .. Len(file) /\ Len(file) \in Nat /\ DOMAIN file = 1 .. Len(file)
  BY DEF TypeOK
<1>5. /\ SessionLines' = SessionLines \cup {Len(file) + 1}
      /\ Len(file) + 1 \notin SessionLines
      /\ SessionLines \subseteq 1 .. Len(file)
  BY <1>1, <1>3, <1>4 DEF SessionLines
<1>6. SessionKeys' = SessionKeys \cup {Key(o)}
  BY <1>3, <1>5 DEF SessionKeys, Key
<1>. QED  BY <1>1, <1>3, <1>4, <1>5, <1>6

\* What it does with a find whose key was seen before.
LEMMA DrainSeen ==
    ASSUME DrainOne, Key(Head(cpuQueue)) \in seen
    PROVE  UNCHANGED <<seen, file, pending, fileStart>>
BY DEF DrainOne

\* A session starts with no line written and no key seen.
LEMMA WrittenInit == Init => SeenIsWritten /\ OneLinePerKey
BY DEF Init, SeenIsWritten, OneLinePerKey, SessionKeys, SessionLines

\* seen_outputs holds exactly the keys of this session's lines, so that no key
\* is written twice.
LEMMA WrittenStep ==
    TypeOK /\ SeenIsWritten /\ OneLinePerKey /\ [Next]_vars => SeenIsWritten' /\ OneLinePerKey'
<1>. SUFFICES ASSUME TypeOK, SeenIsWritten, OneLinePerKey, [Next]_vars
              PROVE  SeenIsWritten' /\ OneLinePerKey'
  OBVIOUS
<1>1. ASSUME UNCHANGED <<seen, file, fileStart>> PROVE SeenIsWritten' /\ OneLinePerKey'
  BY <1>1, FileFrame DEF SeenIsWritten, OneLinePerKey
<1>2. CASE DrainOne
  <2>1. CASE Key(Head(cpuQueue)) \in seen
    BY <1>1, <1>2, <2>1, DrainSeen
  <2>2. CASE Key(Head(cpuQueue)) \notin seen
    <3>1. SeenIsWritten'
      BY <1>2, <2>2, DrainNew DEF SeenIsWritten
    <3>2. \A i \in SessionLines : Key(file[i]) # Key(Head(cpuQueue))
      BY <2>2 DEF SeenIsWritten, SessionKeys
    <3>3. OneLinePerKey'
      <4>1. SUFFICES ASSUME NEW i \in SessionLines', NEW j \in SessionLines',
                            Key(file'[i]) = Key(file'[j])
                     PROVE  i = j
        BY DEF OneLinePerKey, Key
      <4>2. /\ SessionLines' = SessionLines \cup {Len(file) + 1}
            /\ \A k \in SessionLines : file'[k] = file[k]
            /\ file'[Len(file) + 1] = Head(cpuQueue)
        BY <1>2, <2>2, DrainNew
      <4>3. CASE i \in SessionLines /\ j \in SessionLines
        BY <4>1, <4>2, <4>3 DEF OneLinePerKey
      <4>4. CASE ~(i \in SessionLines /\ j \in SessionLines)
        BY <3>2, <4>1, <4>2, <4>4
      <4>. QED  BY <4>3, <4>4
    <3>. QED  BY <3>1, <3>3
  <2>. QED  BY <2>1, <2>2
<1>3. CASE Kill
  <2>1. SessionLines' = {}
    BY <1>3 DEF Kill, TypeOK, SessionLines
  <2>. QED  BY <1>3, <2>1 DEF Kill, SeenIsWritten, OneLinePerKey, SessionKeys
<1>4. CASE Next /\ ~DrainOne /\ ~Kill
  <2>1. UNCHANGED <<seen, file, fileStart>>
    BY <1>4 DEF Next, Gpu, Cpu, Main, Uploader, Claim, PushResults, PopCandidate, Measure,
       PushOutput, LockOutputs, Enqueue, UnlockOutputs, PopItem, PostOk, PostFailed, Requeue,
       WakeUp, mainVars
  <2>. QED  BY <1>1, <2>1
<1>5. CASE UNCHANGED vars
  BY <1>1, <1>5 DEF vars, mainVars
<1>. QED  BY <1>2, <1>3, <1>4, <1>5

(***************************************************************************)
(* Nothing is made up                                                      *)
(***************************************************************************)

\* A session starts with nothing on its way.
LEMMA FoundInit == Init => InFlightWasFound /\ LinesWereFound
BY DEF Init, InFlightWasFound, LinesWereFound, SessionLines, Elems

\* Taking a batch keeps the batches handed out before.
LEMMA ClaimKeeps ==
    ASSUME TypeOK, NEW g \in Gpus, Claim(g)
    PROVE  /\ DOMAIN claims' = DOMAIN claims \cup {Len(claims) + 1}
           /\ \A n \in DOMAIN claims : claims'[n] = claims[n]
           /\ claims'[Len(claims) + 1] = pos
           /\ \A s : Handed(s) => Handed(s)'
<1>1. /\ claims' = Append(claims, pos)
      /\ claims \in Seq(Seeds) /\ pos \in Seeds
  BY DEF Claim, TypeOK
<1>2. /\ DOMAIN claims' = DOMAIN claims \cup {Len(claims) + 1}
      /\ \A n \in DOMAIN claims : claims'[n] = claims[n]
      /\ claims'[Len(claims) + 1] = pos
  BY <1>1
<1>3. ASSUME NEW s, Handed(s) PROVE Handed(s)'
  <2>1. PICK n \in DOMAIN claims : s \in BatchSeeds(claims[n])  BY <1>3 DEF Handed
  <2>2. n \in DOMAIN claims' /\ claims'[n] = claims[n]  BY <1>2
  <2>3. s \in BatchSeeds(claims'[n])  BY <2>1, <2>2
  <2>. QED  BY <2>2, <2>3 DEF Handed, BatchSeeds
<1>. QED  BY <1>2, <1>3

\* A line or a find that stems from a pushed candidate still does so later.
LEMMA FoundStep ==
    TypeOK /\ InFlightWasFound /\ LinesWereFound /\ [Next]_vars
        => InFlightWasFound' /\ LinesWereFound'
<1>. SUFFICES ASSUME TypeOK, InFlightWasFound, LinesWereFound, [Next]_vars
              PROVE  InFlightWasFound' /\ LinesWereFound'
  OBVIOUS
<1>1. ASSUME NEW g \in Gpus, Claim(g) PROVE InFlightWasFound' /\ LinesWereFound'
  <2>1. /\ UNCHANGED <<pushed, gpuQueue, input, output, cpuQueue, file, fileStart>>
        /\ gpuPc' = [gpuPc EXCEPT ![g] = "scan"]
        /\ range' = [range EXCEPT ![g] = pos]
    BY <1>1 DEF Claim, cpuVars, mainVars
  <2>2. \A c \in pushed' : Handed(c.seed)'
    BY <1>1, <2>1, ClaimKeeps DEF InFlightWasFound
  <2>3. ASSUME NEW h \in Gpus, gpuPc'[h] = "scan"
        PROVE  \E n \in DOMAIN claims' : claims'[n] = range'[h]
    <3>1. CASE h = g
      <4>1. range'[h] = pos  BY <2>1, <3>1 DEF TypeOK
      <4>. QED  BY <1>1, <4>1, ClaimKeeps
    <3>2. CASE h # g
      <4>1. range'[h] = range[h] /\ gpuPc[h] = "scan"  BY <2>1, <2>3, <3>2 DEF TypeOK
      <4>2. PICK n \in DOMAIN claims : claims[n] = range[h]  BY <4>1 DEF InFlightWasFound
      <4>. QED  BY <1>1, <4>1, <4>2, ClaimKeeps
    <3>. QED  BY <3>1, <3>2
  <2>4. InFlightWasFound'
    BY <2>1, <2>2, <2>3 DEF InFlightWasFound, FoundBy, Elems
  <2>5. LinesWereFound'
    <3>1. SessionLines' = SessionLines  BY <2>1, FileFrame
    <3>2. ASSUME NEW i \in SessionLines
          PROVE  \E c \in pushed : file[i] = Process[c] /\ Handed(c.seed)'
      BY <1>1, ClaimKeeps DEF LinesWereFound
    <3>. QED  BY <2>1, <3>1, <3>2 DEF LinesWereFound
  <2>. QED  BY <2>4, <2>5
<1>2. ASSUME NEW g \in Gpus, PushResults(g) PROVE InFlightWasFound' /\ LinesWereFound'
  <2>1. PICK r \in BatchResults(range[g]) :
            gpuQueue' = gpuQueue \o r /\ pushed' = pushed \cup Elems(r)
    BY <1>2 DEF PushResults
  <2>2. /\ r \in Seq(Candidates)
        /\ \A c \in Elems(r) : c.seed \in BatchSeeds(range[g])
    BY BatchResultsType DEF TypeOK
  <2>3. Elems(gpuQueue') = Elems(gpuQueue) \cup Elems(r)
    BY <2>1, <2>2, ElemsConcat DEF TypeOK
  <2>4. /\ UNCHANGED <<claims, range, input, output, cpuQueue, file, fileStart>>
        /\ gpuPc' = [gpuPc EXCEPT ![g] = "claim"]
    BY <1>2 DEF PushResults, cpuVars, mainVars
  <2>5. \A s : Handed(s)' <=> Handed(s)
    BY <2>4 DEF Handed, BatchSeeds
  <2>6. \A c \in Elems(r) : Handed(c.seed)
    <3>1. PICK n \in DOMAIN claims : claims[n] = range[g]
      BY <1>2 DEF InFlightWasFound, PushResults
    <3>. QED  BY <2>2, <3>1 DEF Handed
  <2>7. \A c \in pushed' : Handed(c.seed)'
    BY <2>1, <2>5, <2>6 DEF InFlightWasFound
  <2>8. \A c \in Elems(gpuQueue') : c \in pushed'
    BY <2>1, <2>3 DEF InFlightWasFound
  <2>9. \A h \in Gpus : gpuPc'[h] = "scan" => \E n \in DOMAIN claims' : claims'[n] = range'[h]
    BY <2>4 DEF InFlightWasFound, TypeOK
  <2>10. \A o : FoundBy(o) => FoundBy(o)'
    BY <2>1 DEF FoundBy
  <2>11. InFlightWasFound'
    <3>1. \A t \in Cpus : input'[t] # NoOutput => input'[t] \in pushed'
      BY <2>1, <2>4 DEF InFlightWasFound
    <3>2. \A t \in Cpus : output'[t] # NoOutput => FoundBy(output[t])'
      BY <2>4, <2>10 DEF InFlightWasFound
    <3>3. \A o \in Elems(cpuQueue') : FoundBy(o)'
      BY <2>4, <2>10 DEF InFlightWasFound
    <3>. QED  BY <2>7, <2>8, <2>9, <3>1, <3>2, <3>3, <2>4 DEF InFlightWasFound, Elems
  <2>12. LinesWereFound'
    <3>1. SessionLines' = SessionLines  BY <2>4, FileFrame
    <3>. QED  BY <2>1, <2>4, <2>5, <3>1 DEF LinesWereFound
  <2>. QED  BY <2>11, <2>12
<1>3. ASSUME NEW c \in Cpus, PopCandidate(c) PROVE InFlightWasFound' /\ LinesWereFound'
  <2>1. /\ UNCHANGED <<claims, gpuPc, range, pushed, output, cpuQueue, file, fileStart>>
        /\ input' = [input EXCEPT ![c] = Head(gpuQueue)]
        /\ gpuQueue' = Tail(gpuQueue)
    BY <1>3 DEF PopCandidate, gpuVars, mainVars
  <2>2. Elems(gpuQueue) = {Head(gpuQueue)} \cup Elems(gpuQueue')
    BY <1>3, <2>1, ElemsTail DEF PopCandidate, TypeOK
  <2>3. /\ \A x \in Elems(gpuQueue') : x \in pushed'
        /\ \A t \in Cpus : input'[t] # NoOutput => input'[t] \in pushed'
    BY <2>1, <2>2 DEF InFlightWasFound, TypeOK
  <2>4. InFlightWasFound'
    BY <2>1, <2>3 DEF InFlightWasFound, FoundBy, Handed, BatchSeeds
  <2>5. LinesWereFound'
    BY <2>1, FileFrame DEF LinesWereFound, Handed, BatchSeeds
  <2>. QED  BY <2>4, <2>5
<1>4. ASSUME NEW c \in Cpus, Measure(c) PROVE InFlightWasFound' /\ LinesWereFound'
  <2>1. /\ UNCHANGED <<claims, gpuPc, range, pushed, gpuQueue, cpuQueue, file, fileStart>>
        /\ input' = [input EXCEPT ![c] = NoOutput]
        /\ output' = [output EXCEPT ![c] = Process[input[c]]]
    BY <1>4 DEF Measure, gpuVars, mainVars
  <2>2. FoundBy(Process[input[c]])
    BY <1>4 DEF InFlightWasFound, FoundBy, Measure
  <2>3. \A t \in Cpus : output'[t] # NoOutput => FoundBy(output'[t])
    BY <2>1, <2>2 DEF InFlightWasFound, TypeOK
  <2>4. \A t \in Cpus : input'[t] # NoOutput => input'[t] \in pushed
    BY <2>1 DEF InFlightWasFound, TypeOK
  <2>5. InFlightWasFound'
    BY <2>1, <2>3, <2>4 DEF InFlightWasFound, FoundBy, Handed, BatchSeeds, Elems
  <2>6. LinesWereFound'
    BY <2>1, FileFrame DEF LinesWereFound, Handed, BatchSeeds
  <2>. QED  BY <2>5, <2>6
<1>5. ASSUME NEW c \in Cpus, PushOutput(c) PROVE InFlightWasFound' /\ LinesWereFound'
  <2>1. /\ UNCHANGED <<claims, gpuPc, range, pushed, gpuQueue, input, file, fileStart>>
        /\ output' = [output EXCEPT ![c] = NoOutput]
        /\ cpuQueue' = Append(cpuQueue, output[c])
        /\ output[c] # NoOutput
    BY <1>5 DEF PushOutput, gpuVars, mainVars
  <2>2. Elems(cpuQueue') = Elems(cpuQueue) \cup {output[c]}
    BY <2>1, ElemsAppend DEF TypeOK
  <2>3. \A o \in Elems(cpuQueue') : FoundBy(o)
    BY <2>1, <2>2 DEF InFlightWasFound
  <2>4. \A t \in Cpus : output'[t] # NoOutput => FoundBy(output'[t])
    BY <2>1 DEF InFlightWasFound, TypeOK
  <2>5. InFlightWasFound'
    BY <2>1, <2>3, <2>4 DEF InFlightWasFound, FoundBy, Handed, BatchSeeds
  <2>6. LinesWereFound'
    BY <2>1, FileFrame DEF LinesWereFound, Handed, BatchSeeds
  <2>. QED  BY <2>5, <2>6
<1>6. CASE DrainOne
  <2>1. /\ UNCHANGED <<claims, gpuPc, range, pushed, gpuQueue, input, output>>
        /\ cpuQueue' = Tail(cpuQueue)
    BY <1>6 DEF DrainOne, gpuVars, cpuVars
  <2>2. Elems(cpuQueue) = {Head(cpuQueue)} \cup Elems(cpuQueue')
    BY <1>6, <2>1, ElemsTail DEF DrainOne, TypeOK
  <2>3. InFlightWasFound'
    BY <2>1, <2>2 DEF InFlightWasFound, FoundBy, Handed, BatchSeeds, Elems
  <2>4. \A s : Handed(s)' <=> Handed(s)
    BY <2>1 DEF Handed, BatchSeeds
  <2>5. LinesWereFound'
    <3>1. CASE Key(Head(cpuQueue)) \in seen
      BY <1>6, <2>1, <2>4, <3>1, DrainSeen, FileFrame DEF LinesWereFound
    <3>2. CASE Key(Head(cpuQueue)) \notin seen
      <4>1. PICK d \in pushed : Head(cpuQueue) = Process[d]
        BY <2>2 DEF InFlightWasFound, FoundBy
      <4>2. Handed(d.seed)  BY <4>1 DEF InFlightWasFound
      <4>3. /\ SessionLines' = SessionLines \cup {Len(file) + 1}
            /\ \A i \in SessionLines : file'[i] = file[i]
            /\ file'[Len(file) + 1] = Head(cpuQueue)
        BY <1>6, <3>2, DrainNew
      <4>4. ASSUME NEW i \in SessionLines'
            PROVE  \E c \in pushed' : file'[i] = Process[c] /\ Handed(c.seed)'
        <5>1. CASE i \in SessionLines
          BY <2>1, <2>4, <4>3, <5>1 DEF LinesWereFound
        <5>2. CASE i = Len(file) + 1
          BY <2>1, <2>4, <4>1, <4>2, <4>3, <5>2
        <5>. QED  BY <4>3, <5>1, <5>2
      <4>. QED  BY <4>4 DEF LinesWereFound
    <3>. QED  BY <3>1, <3>2
  <2>. QED  BY <2>3, <2>5
<1>7. CASE Kill
  <2>1. SessionLines' = {}  BY <1>7 DEF Kill, TypeOK, SessionLines
  <2>. QED  BY <1>7, <2>1 DEF Kill, InFlightWasFound, LinesWereFound, Elems
<1>8. CASE LockOutputs \/ Enqueue \/ UnlockOutputs \/ Uploader \/ UNCHANGED vars
  <2>1. UNCHANGED <<claims, gpuPc, range, pushed, gpuQueue, input, output, cpuQueue, file,
                    fileStart>>
    BY <1>8 DEF LockOutputs, Enqueue, UnlockOutputs, Uploader, PopItem, PostOk, PostFailed,
       Requeue, WakeUp, vars, gpuVars, cpuVars, mainVars
  <2>2. InFlightWasFound'
    BY <2>1 DEF InFlightWasFound, FoundBy, Handed, BatchSeeds, Elems
  <2>3. LinesWereFound'
    BY <2>1, FileFrame DEF LinesWereFound, Handed, BatchSeeds
  <2>. QED  BY <2>2, <2>3
<1>. QED
  BY <1>1, <1>2, <1>3, <1>4, <1>5, <1>6, <1>7, <1>8 DEF Next, Gpu, Cpu, Main

(***************************************************************************)
(* Nothing is lost                                                         *)
(***************************************************************************)

\* Before any candidate is pushed none can be lost.
LEMMA LostInit == Init => NoFindLost
BY DEF Init, NoFindLost

\* A candidate that leaves one place of the pipeline is found at the next one.
LEMMA LostStep ==
    TypeOK /\ HandsOK /\ SeenIsWritten /\ NoFindLost /\ [Next]_vars => NoFindLost'
<1>. SUFFICES ASSUME TypeOK, HandsOK, SeenIsWritten, NoFindLost, [Next]_vars PROVE NoFindLost'
  OBVIOUS
<1>. DEFINE Safe(d) == Process[d] = NoOutput \/ InPipeline(d) \/ Key(Process[d]) \in SessionKeys
<1>0. \A d \in pushed : d \in Candidates /\ d # NoOutput
  BY ProcessAssumption DEF TypeOK
<1>1. ASSUME UNCHANGED <<pushed, gpuQueue, input, output, cpuQueue, file, fileStart>>
      PROVE  NoFindLost'
  BY <1>1, FileFrame DEF NoFindLost, InPipeline, Elems, Key
<1>2. ASSUME NEW g \in Gpus, PushResults(g) PROVE NoFindLost'
  <2>1. PICK r \in BatchResults(range[g]) :
            gpuQueue' = gpuQueue \o r /\ pushed' = pushed \cup Elems(r)
    BY <1>2 DEF PushResults
  <2>2. r \in Seq(Candidates)
    BY BatchResultsType DEF TypeOK
  <2>3. Elems(gpuQueue') = Elems(gpuQueue) \cup Elems(r)
    BY <2>1, <2>2, ElemsConcat DEF TypeOK
  <2>4. UNCHANGED <<input, output, cpuQueue, file, fileStart>>
    BY <1>2 DEF PushResults, cpuVars, mainVars
  <2>5. ASSUME NEW d \in pushed' PROVE Safe(d)'
    <3>1. CASE d \in Elems(r)  BY <2>3, <3>1 DEF InPipeline
    <3>2. CASE d \in pushed
      <4>1. Safe(d)  BY <3>2 DEF NoFindLost
      <4>2. InPipeline(d) => InPipeline(d)'  BY <2>3, <2>4 DEF InPipeline
      <4>. QED  BY <2>4, <4>1, <4>2, FileFrame DEF Key
    <3>. QED  BY <2>1, <3>1, <3>2
  <2>. QED  BY <2>5 DEF NoFindLost
<1>3. ASSUME NEW c \in Cpus, PopCandidate(c) PROVE NoFindLost'
  <2>1. /\ UNCHANGED <<pushed, output, cpuQueue, file, fileStart>>
        /\ input[c] = NoOutput
        /\ input' = [input EXCEPT ![c] = Head(gpuQueue)]
        /\ gpuQueue' = Tail(gpuQueue)
    BY <1>3 DEF PopCandidate, mainVars
  <2>2. Elems(gpuQueue) = {Head(gpuQueue)} \cup Elems(gpuQueue')
    BY <1>3, <2>1, ElemsTail DEF PopCandidate, TypeOK
  <2>3. ASSUME NEW d \in pushed' PROVE Safe(d)'
    <3>1. Safe(d) /\ d # NoOutput  BY <1>0, <2>1 DEF NoFindLost
    <3>2. InPipeline(d) => InPipeline(d)'
      <4>1. \A t \in Cpus : input'[t] = IF t = c THEN Head(gpuQueue) ELSE input[t]
        BY <2>1 DEF TypeOK
      <4>. QED  BY <2>1, <2>2, <3>1, <4>1 DEF InPipeline
    <3>. QED  BY <2>1, <3>1, <3>2, FileFrame DEF Key
  <2>. QED  BY <2>3 DEF NoFindLost
<1>4. ASSUME NEW c \in Cpus, Measure(c) PROVE NoFindLost'
  <2>1. /\ UNCHANGED <<pushed, gpuQueue, cpuQueue, file, fileStart>>
        /\ input[c] # NoOutput
        /\ input' = [input EXCEPT ![c] = NoOutput]
        /\ output' = [output EXCEPT ![c] = Process[input[c]]]
    BY <1>4 DEF Measure, mainVars
  <2>2. output[c] = NoOutput  BY <2>1 DEF HandsOK
  <2>3. \A t \in Cpus : /\ input'[t] = IF t = c THEN NoOutput ELSE input[t]
                        /\ output'[t] = IF t = c THEN Process[input[c]] ELSE output[t]
    BY <2>1 DEF TypeOK
  <2>4. ASSUME NEW d \in pushed' PROVE Safe(d)'
    <3>1. Safe(d)  BY <2>1 DEF NoFindLost
    <3>2. CASE Process[d] = NoOutput  BY <3>2
    <3>3. CASE Process[d] # NoOutput
      <4>1. InPipeline(d) => InPipeline(d)'
        BY <2>1, <2>2, <2>3, <3>3 DEF InPipeline, Elems
      <4>. QED  BY <2>1, <3>1, <4>1, FileFrame DEF Key
    <3>. QED  BY <3>2, <3>3
  <2>. QED  BY <2>4 DEF NoFindLost
<1>5. ASSUME NEW c \in Cpus, PushOutput(c) PROVE NoFindLost'
  <2>1. /\ UNCHANGED <<pushed, gpuQueue, input, file, fileStart>>
        /\ output' = [output EXCEPT ![c] = NoOutput]
        /\ cpuQueue' = Append(cpuQueue, output[c])
        /\ output[c] # NoOutput
    BY <1>5 DEF PushOutput, mainVars
  <2>2. Elems(cpuQueue') = Elems(cpuQueue) \cup {output[c]}
    BY <2>1, ElemsAppend DEF TypeOK
  <2>3. \A t \in Cpus : output'[t] = IF t = c THEN NoOutput ELSE output[t]
    BY <2>1 DEF TypeOK
  <2>4. ASSUME NEW d \in pushed' PROVE Safe(d)'
    <3>1. Safe(d)  BY <2>1 DEF NoFindLost
    <3>2. InPipeline(d) => InPipeline(d)'
      BY <2>1, <2>2, <2>3 DEF InPipeline
    <3>. QED  BY <2>1, <3>1, <3>2, FileFrame DEF Key
  <2>. QED  BY <2>4 DEF NoFindLost
<1>6. CASE DrainOne
  <2>1. /\ UNCHANGED <<pushed, gpuQueue, input, output>>
        /\ cpuQueue' = Tail(cpuQueue)
    BY <1>6 DEF DrainOne, cpuVars
  <2>2. Elems(cpuQueue) = {Head(cpuQueue)} \cup Elems(cpuQueue')
    BY <1>6, <2>1, ElemsTail DEF DrainOne, TypeOK
  <2>3. SessionKeys \subseteq SessionKeys' /\ Key(Head(cpuQueue)) \in SessionKeys'
    <3>1. CASE Key(Head(cpuQueue)) \in seen
      BY <1>6, <3>1, DrainSeen, FileFrame DEF SeenIsWritten
    <3>2. CASE Key(Head(cpuQueue)) \notin seen
      BY <1>6, <3>2, DrainNew
    <3>. QED  BY <3>1, <3>2
  <2>4. ASSUME NEW d \in pushed' PROVE Safe(d)'
    <3>1. Safe(d)  BY <2>1 DEF NoFindLost
    <3>2. CASE Process[d] = Head(cpuQueue)
      <4>1. Key(Process[d]) \in SessionKeys'  BY <2>3, <3>2
      <4>. QED  BY <4>1 DEF Key
    <3>3. CASE Process[d] # Head(cpuQueue)
      <4>1. InPipeline(d) => InPipeline(d)'  BY <2>1, <2>2, <3>3 DEF InPipeline
      <4>2. Key(Process[d]) \in SessionKeys => Key(Process[d]) \in SessionKeys'  BY <2>3
      <4>. QED  BY <3>1, <4>1, <4>2 DEF Key
    <3>. QED  BY <3>2, <3>3
  <2>. QED  BY <2>4 DEF NoFindLost
<1>7. CASE Kill
  BY <1>7 DEF Kill, NoFindLost
<1>8. CASE \/ \E g \in Gpus : Claim(g)
           \/ LockOutputs \/ Enqueue \/ UnlockOutputs \/ Uploader \/ UNCHANGED vars
  <2>1. UNCHANGED <<pushed, gpuQueue, input, output, cpuQueue, file, fileStart>>
    BY <1>8 DEF Claim, LockOutputs, Enqueue, UnlockOutputs, Uploader, PopItem, PostOk,
       PostFailed, Requeue, WakeUp, vars, cpuVars, mainVars
  <2>. QED  BY <1>1, <2>1
<1>. QED
  BY <1>2, <1>3, <1>4, <1>5, <1>6, <1>7, <1>8 DEF Next, Gpu, Cpu, Main

(***************************************************************************)
(* The upload path                                                         *)
(***************************************************************************)

KeysDistinct(q) == \A i, j \in DOMAIN q : Key(q[i]) = Key(q[j]) => i = j

\* An item pushed on the upload queue keeps its keys distinct if its own is new.
LEMMA DistinctAppend ==
    ASSUME NEW q \in Seq(Outputs), NEW o \in Outputs, KeysDistinct(q),
           \A x \in Elems(q) : Key(x) # Key(o)
    PROVE  KeysDistinct(Append(q, o))
<1>. DEFINE r == Append(q, o)
<1>1. /\ DOMAIN q = 1 .. Len(q) /\ Len(q) \in Nat
      /\ DOMAIN r = 1 .. Len(q) + 1
      /\ \A i \in 1 .. Len(q) : r[i] = q[i]
      /\ r[Len(q) + 1] = o
  OBVIOUS
<1>2. \A i \in 1 .. Len(q) : Key(r[i]) # Key(o)
  BY <1>1 DEF Elems
<1>. HIDE DEF r
<1>3. ASSUME NEW i \in DOMAIN r, NEW j \in DOMAIN r, Key(r[i]) = Key(r[j]) PROVE i = j
  <2>1. CASE i = Len(q) + 1 \/ j = Len(q) + 1
    <3>1. ASSUME NEW k \in DOMAIN r, k # Len(q) + 1 PROVE k \in 1 .. Len(q)
      BY <1>1, <3>1
    <3>. QED  BY <1>1, <1>2, <1>3, <2>1, <3>1
  <2>2. CASE i # Len(q) + 1 /\ j # Len(q) + 1
    <3>1. i \in DOMAIN q /\ j \in DOMAIN q  BY <1>1, <2>2
    <3>. QED  BY <1>1, <1>3, <3>1 DEF KeysDistinct
  <2>. QED  BY <2>1, <2>2
<1>. QED  BY <1>3 DEF KeysDistinct, r

\* Popping the upload queue keeps its keys distinct, and the one popped is gone.
LEMMA DistinctTail ==
    ASSUME NEW q \in Seq(Outputs), q # <<>>, KeysDistinct(q)
    PROVE  /\ KeysDistinct(Tail(q))
           /\ \A x \in Elems(Tail(q)) : Key(x) # Key(Head(q))
<1>1. /\ Head(q) = q[1] /\ 1 \in DOMAIN q
      /\ \A i \in DOMAIN Tail(q) : i + 1 \in DOMAIN q /\ Tail(q)[i] = q[i + 1]
      /\ DOMAIN Tail(q) = 1 .. Len(q) - 1
  BY ElemsTail
<1>2. KeysDistinct(Tail(q))
  <2>1. SUFFICES ASSUME NEW i \in DOMAIN Tail(q), NEW j \in DOMAIN Tail(q),
                        Key(Tail(q)[i]) = Key(Tail(q)[j])
                 PROVE  i = j
    BY DEF KeysDistinct
  <2>2. i + 1 = j + 1  BY <1>1, <2>1 DEF KeysDistinct
  <2>3. i \in Int /\ j \in Int  BY <1>1
  <2>. QED  BY <2>2, <2>3
<1>3. ASSUME NEW i \in DOMAIN Tail(q) PROVE Key(Tail(q)[i]) # Key(Head(q))
  <2>1. i + 1 # 1  BY <1>1
  <2>. QED  BY <1>1, <2>1 DEF KeysDistinct
<1>. QED  BY <1>2, <1>3 DEF Elems

\* A session starts with nothing written and nothing to upload.
LEMMA UploadInit == Init => UploadedOnce /\ PostedIsOnFile
BY DEF Init, UploadedOnce, PostedIsOnFile, SessionKeys, SessionLines, PendingKeys, ItemKeys,
       QueueKeys, Elems

\* A key moves along the upload path without being doubled or dropped.
LEMMA UploadStep ==
    TypeOK /\ HandsOK /\ SeenIsWritten /\ UploadedOnce /\ [Next]_vars => UploadedOnce'
<1>. SUFFICES ASSUME TypeOK, HandsOK, SeenIsWritten, UploadedOnce, [Next]_vars, HasUploader
              PROVE  UploadedOnce'
  BY DEF UploadedOnce
<1>0. /\ SessionKeys = PendingKeys \cup QueueKeys \cup ItemKeys \cup acked
      /\ KeysDistinct(upQueue)
      /\ PendingKeys \cap (QueueKeys \cup ItemKeys \cup acked) = {}
      /\ QueueKeys \cap (ItemKeys \cup acked) = {}
      /\ ItemKeys \cap acked = {}
  BY DEF UploadedOnce, KeysDistinct
<1>. SUFFICES /\ SessionKeys' = PendingKeys' \cup QueueKeys' \cup ItemKeys' \cup acked'
              /\ KeysDistinct(upQueue')
              /\ PendingKeys' \cap (QueueKeys' \cup ItemKeys' \cup acked') = {}
              /\ QueueKeys' \cap (ItemKeys' \cup acked') = {}
              /\ ItemKeys' \cap acked' = {}
  BY DEF UploadedOnce, KeysDistinct, Key
<1>1. CASE UNCHANGED <<file, fileStart, pending, upQueue, item, acked>>
  BY <1>0, <1>1, FileFrame DEF PendingKeys, QueueKeys, ItemKeys
<1>2. CASE DrainOne
  <2>1. CASE Key(Head(cpuQueue)) \in seen
    <3>1. UNCHANGED <<file, fileStart, pending, upQueue, item, acked>>
      BY <1>2, <2>1, DrainSeen DEF DrainOne, upVars
    <3>. QED  BY <1>1, <3>1
  <2>2. CASE Key(Head(cpuQueue)) \notin seen
    <3>1. /\ pending' = Head(cpuQueue)
          /\ SessionKeys' = SessionKeys \cup {Key(Head(cpuQueue))}
      BY <1>2, <2>2, DrainNew
    <3>2. UNCHANGED <<upQueue, item, acked>> /\ pending = NoOutput
      BY <1>2 DEF DrainOne, upVars
    <3>3. QueueKeys' = QueueKeys /\ ItemKeys' = ItemKeys /\ PendingKeys = {}
      BY <3>2 DEF QueueKeys, ItemKeys, PendingKeys
    <3>4. Head(cpuQueue) # NoOutput
      BY <1>2, ElemsTail, ProcessAssumption DEF DrainOne, TypeOK
    <3>5. PendingKeys' = {Key(Head(cpuQueue))}
      BY <3>1, <3>4 DEF PendingKeys
    <3>6. Key(Head(cpuQueue)) \notin SessionKeys
      BY <2>2 DEF SeenIsWritten
    <3>. QED  BY <1>0, <3>1, <3>2, <3>3, <3>5, <3>6
  <2>. QED  BY <2>1, <2>2
<1>3. CASE Enqueue
  <2>1. /\ pending \in Outputs /\ pending # NoOutput
        /\ upQueue' = Append(upQueue, pending)
        /\ pending' = NoOutput
        /\ UNCHANGED <<file, fileStart, item, acked>>
    BY <1>3 DEF Enqueue, TypeOK, upVars
  <2>2. PendingKeys = {Key(pending)} /\ PendingKeys' = {} /\ ItemKeys' = ItemKeys
    BY <2>1 DEF PendingKeys, ItemKeys
  <2>3. Elems(upQueue') = Elems(upQueue) \cup {pending}
    BY <2>1, ElemsAppend DEF TypeOK
  <2>4. QueueKeys' = QueueKeys \cup {Key(pending)}
    BY <2>3 DEF QueueKeys
  <2>5. KeysDistinct(upQueue')
    <3>1. \A x \in Elems(upQueue) : Key(x) # Key(pending)
      BY <1>0, <2>2 DEF QueueKeys
    <3>. QED  BY <1>0, <2>1, <3>1, DistinctAppend DEF TypeOK
  <2>6. SessionKeys' = SessionKeys  BY <2>1, FileFrame
  <2>. QED  BY <1>0, <2>1, <2>2, <2>4, <2>5, <2>6
<1>4. CASE PopItem
  <2>1. /\ upQueue # <<>> /\ upQueue \in Seq(Outputs)
        /\ item' = Head(upQueue) /\ upQueue' = Tail(upQueue)
        /\ UNCHANGED <<file, fileStart, pending, acked>>
        /\ item = NoOutput
    BY <1>4 DEF PopItem, TypeOK, HandsOK, mainVars
  <2>2. /\ Head(upQueue) \in Outputs
        /\ Elems(upQueue) = {Head(upQueue)} \cup Elems(upQueue')
    BY <2>1, ElemsTail
  <2>3. Head(upQueue) # NoOutput  BY <2>2, ProcessAssumption
  <2>4. ItemKeys = {} /\ ItemKeys' = {Key(Head(upQueue))} /\ PendingKeys' = PendingKeys
    BY <2>1, <2>3 DEF ItemKeys, PendingKeys
  <2>5. /\ KeysDistinct(upQueue')
        /\ \A x \in Elems(upQueue') : Key(x) # Key(Head(upQueue))
    BY <1>0, <2>1, DistinctTail
  <2>6. /\ QueueKeys = {Key(Head(upQueue))} \cup QueueKeys'
        /\ Key(Head(upQueue)) \notin QueueKeys'
    BY <2>2, <2>5 DEF QueueKeys
  <2>7. SessionKeys' = SessionKeys  BY <2>1, FileFrame
  <2>. QED  BY <1>0, <2>1, <2>4, <2>5, <2>6, <2>7
<1>5. CASE PostOk
  <2>1. /\ item # NoOutput
        /\ acked' = acked \cup {Key(item)}
        /\ item' = NoOutput
        /\ UNCHANGED <<file, fileStart, pending, upQueue>>
    BY <1>5 DEF PostOk, HandsOK, mainVars
  <2>2. /\ ItemKeys = {Key(item)} /\ ItemKeys' = {}
        /\ PendingKeys' = PendingKeys /\ QueueKeys' = QueueKeys
    BY <2>1 DEF ItemKeys, PendingKeys, QueueKeys
  <2>3. SessionKeys' = SessionKeys  BY <2>1, FileFrame
  <2>. QED  BY <1>0, <2>1, <2>2, <2>3
<1>6. CASE Requeue
  <2>1. /\ item \in Outputs /\ item # NoOutput
        /\ upQueue' = Append(upQueue, item)
        /\ item' = NoOutput
        /\ UNCHANGED <<file, fileStart, pending, acked>>
    BY <1>6 DEF Requeue, TypeOK, HandsOK, mainVars
  <2>2. ItemKeys = {Key(item)} /\ ItemKeys' = {} /\ PendingKeys' = PendingKeys
    BY <2>1 DEF PendingKeys, ItemKeys
  <2>3. Elems(upQueue') = Elems(upQueue) \cup {item}
    BY <2>1, ElemsAppend DEF TypeOK
  <2>4. QueueKeys' = QueueKeys \cup {Key(item)}
    BY <2>3 DEF QueueKeys
  <2>5. KeysDistinct(upQueue')
    <3>1. \A x \in Elems(upQueue) : Key(x) # Key(item)
      BY <1>0, <2>2 DEF QueueKeys
    <3>. QED  BY <1>0, <2>1, <3>1, DistinctAppend DEF TypeOK
  <2>6. SessionKeys' = SessionKeys  BY <2>1, FileFrame
  <2>. QED  BY <1>0, <2>1, <2>2, <2>4, <2>5, <2>6
<1>7. CASE Kill
  <2>1. SessionLines' = {}  BY <1>7 DEF Kill, TypeOK, SessionLines
  <2>2. SessionKeys' = {} /\ PendingKeys' = {} /\ QueueKeys' = {} /\ ItemKeys' = {}
    BY <1>7, <2>1 DEF Kill, SessionKeys, PendingKeys, QueueKeys, ItemKeys, Elems
  <2>3. acked' = {} /\ KeysDistinct(upQueue')
    BY <1>7 DEF Kill, KeysDistinct
  <2>. QED  BY <2>2, <2>3
<1>8. CASE \/ \E g \in Gpus : Gpu(g)
           \/ \E c \in Cpus : Cpu(c)
           \/ LockOutputs \/ UnlockOutputs \/ PostFailed \/ WakeUp \/ UNCHANGED vars
  <2>1. UNCHANGED <<file, fileStart, pending, upQueue, item, acked>>
    BY <1>8 DEF Gpu, Cpu, Claim, PushResults, PopCandidate, Measure, PushOutput, LockOutputs,
       UnlockOutputs, PostFailed, WakeUp, vars, mainVars, upVars
  <2>. QED  BY <1>1, <2>1
<1>. QED
  BY <1>2, <1>3, <1>4, <1>5, <1>6, <1>7, <1>8 DEF Next, Main, Uploader

\* A post concerns a key that is written, and a written line stays.
LEMMA PostedStep ==
    TypeOK /\ HandsOK /\ UploadedOnce /\ PostedIsOnFile /\ [Next]_vars => PostedIsOnFile'
<1>. SUFFICES ASSUME TypeOK, HandsOK, UploadedOnce, PostedIsOnFile, [Next]_vars
              PROVE  PostedIsOnFile'
  OBVIOUS
<1>. DEFINE FileKeys == {Key(file[i]) : i \in DOMAIN file}
<1>1. CASE UNCHANGED <<file, posted>>
  BY <1>1 DEF PostedIsOnFile, Key
<1>2. CASE DrainOne
  <2>1. CASE Key(Head(cpuQueue)) \in seen
    BY <1>1, <1>2, <2>1, DrainSeen DEF DrainOne, upVars
  <2>2. CASE Key(Head(cpuQueue)) \notin seen
    <3>1. Elems(file') = Elems(file) \cup {Head(cpuQueue)}
      BY <1>2, <2>2, DrainNew
    <3>2. posted' = posted  BY <1>2 DEF DrainOne, upVars
    <3>3. posted \subseteq {Key(o) : o \in Elems(file)}
      BY DEF PostedIsOnFile, Elems
    <3>4. posted' \subseteq {Key(o) : o \in Elems(file')}
      BY <3>1, <3>2, <3>3
    <3>. QED  BY <3>4 DEF PostedIsOnFile, Elems, Key
  <2>. QED  BY <2>1, <2>2
<1>3. CASE PostOk \/ PostFailed
  <2>1. HasUploader /\ item # NoOutput
    BY <1>3 DEF PostOk, PostFailed, HandsOK
  <2>2. Key(item) \in SessionKeys
    BY <2>1 DEF UploadedOnce, ItemKeys
  <2>3. SessionLines \subseteq DOMAIN file
    BY DEF SessionLines, TypeOK
  <2>4. Key(item) \in FileKeys
    BY <2>2, <2>3 DEF SessionKeys
  <2>5. file' = file /\ posted' \subseteq posted \cup {Key(item)}
    BY <1>3 DEF PostOk, PostFailed, mainVars
  <2>6. posted' \subseteq FileKeys
    BY <2>4, <2>5 DEF PostedIsOnFile
  <2>. QED  BY <2>5, <2>6 DEF PostedIsOnFile, Key
<1>4. CASE \/ \E g \in Gpus : Gpu(g)
           \/ \E c \in Cpus : Cpu(c)
           \/ LockOutputs \/ Enqueue \/ UnlockOutputs
           \/ PopItem \/ Requeue \/ WakeUp \/ Kill \/ UNCHANGED vars
  <2>1. UNCHANGED <<file, posted>>
    BY <1>4 DEF Gpu, Cpu, Claim, PushResults, PopCandidate, Measure, PushOutput, LockOutputs,
       Enqueue, UnlockOutputs, PopItem, Requeue, WakeUp, Kill, vars, mainVars, upVars
  <2>. QED  BY <1>1, <2>1
<1>. QED
  BY <1>2, <1>3, <1>4 DEF Next, Main, Uploader

(***************************************************************************)
(* The seed iterator                                                       *)
(***************************************************************************)

\* A session begins where its iterator stands, and each fetch_add moves it one
\* batch on, modulo the size of the seed space.
LEMMA ClaimsInit == Init => ClaimsInStep
<1>. SUFFICES ASSUME Init PROVE ClaimsInStep  OBVIOUS
<1>1. pos \in Nat /\ pos < SeedSpace /\ first = pos /\ claims = <<>>
  BY SpaceAssumption DEF Init, Seeds
<1>2. (first + 0) % SeedSpace = pos  BY <1>1, SpaceAssumption, SmallMod
<1>3. Len(claims) * Batch = 0  BY <1>1, SpaceAssumption
<1>. QED  BY <1>1, <1>2, <1>3 DEF ClaimsInStep

\* The same after every step: only a claim moves the iterator, and a kill starts
\* it anew.
LEMMA ClaimsStep == TypeOK /\ ClaimsInStep /\ [Next]_vars => ClaimsInStep'
<1>. SUFFICES ASSUME TypeOK, ClaimsInStep, [Next]_vars PROVE ClaimsInStep'  OBVIOUS
<1>0. SeedSpace \in Nat /\ SeedSpace > 0 /\ Batch \in Nat  BY SpaceAssumption
<1>1. CASE UNCHANGED <<pos, first, claims>>  BY <1>1 DEF ClaimsInStep
<1>2. ASSUME NEW g \in Gpus, Claim(g) PROVE ClaimsInStep'
  <2>1. PICK m \in Nat : m = Len(claims)  BY DEF TypeOK
  <2>2. claims \in Seq(Seeds) /\ pos \in Seeds /\ first \in Nat  BY SpaceAssumption DEF TypeOK, Seeds
  <2>3. claims' = Append(claims, pos) /\ first' = first /\ pos' = (pos + Batch) % SeedSpace
    BY <1>2 DEF Claim
  <2>4. /\ Len(claims') = m + 1 /\ DOMAIN claims' = 1 .. m + 1 /\ DOMAIN claims = 1 .. m
        /\ \A n \in 1 .. m : claims'[n] = claims[n]
        /\ claims'[m + 1] = pos
    BY <2>1, <2>2, <2>3
  <2>5. PICK x \in Nat : x = m * Batch  BY <1>0
  <2>6. (m + 1) * Batch = x + Batch
    <3>1. (m + 1) * Batch = m * Batch + Batch  BY <1>0
    <3>. QED  BY <2>5, <3>1
  <2>7. pos = (first + x) % SeedSpace  BY <2>1, <2>5 DEF ClaimsInStep
  <2>8. first + x \in Nat /\ first + x + Batch = first + (x + Batch)  BY <1>0, <2>2
  <2>9. (((first + x) % SeedSpace) + Batch) % SeedSpace = (first + x + Batch) % SeedSpace
    BY <1>0, <2>8, ModPlus
  <2>10. pos' = (first + (m + 1) * Batch) % SeedSpace  BY <2>3, <2>6, <2>7, <2>8, <2>9
  <2>11. ASSUME NEW n \in 1 .. m + 1 PROVE claims'[n] = (first + (n - 1) * Batch) % SeedSpace
    <3>1. CASE n <= m
      <4>1. n \in 1 .. m  BY <3>1
      <4>. QED  BY <2>4, <4>1 DEF ClaimsInStep
    <3>2. CASE n = m + 1
      <4>1. n - 1 = m  BY <3>2
      <4>. QED  BY <2>4, <2>5, <2>7, <3>2, <4>1
    <3>. QED  BY <3>1, <3>2
  <2>. QED  BY <2>3, <2>4, <2>10, <2>11 DEF ClaimsInStep
<1>3. CASE Kill
  <2>1. pos' \in Nat /\ pos' < SeedSpace /\ first' = pos' /\ claims' = <<>>
    BY <1>3, SpaceAssumption DEF Kill, Seeds
  <2>2. (first' + 0) % SeedSpace = pos'  BY <1>0, <2>1, SmallMod
  <2>3. Len(claims') * Batch = 0  BY <1>0, <2>1
  <2>. QED  BY <2>1, <2>2, <2>3 DEF ClaimsInStep
<1>4. CASE \/ \E g \in Gpus : PushResults(g)
           \/ \E c \in Cpus : Cpu(c)
           \/ Main \/ Uploader \/ UNCHANGED vars
  <2>1. UNCHANGED <<pos, first, claims>>
    BY <1>4 DEF PushResults, Cpu, PopCandidate, Measure, PushOutput, Main, LockOutputs, DrainOne,
       Enqueue, UnlockOutputs, Uploader, PopItem, PostOk, PostFailed, Requeue, WakeUp, vars, gpuVars
  <2>. QED  BY <1>1, <2>1
<1>. QED  BY <1>2, <1>3, <1>4 DEF Next, Gpu

\* Batches that follow each other cover what lies between their ends.
LEMMA Covered ==
    ASSUME TypeOK, ClaimsInStep
    PROVE  UNION {BatchSeeds(claims[i]) : i \in DOMAIN claims}
               = {(first + k) % SeedSpace : k \in 0 .. Len(claims) * Batch - 1}
<1>0. SeedSpace \in Nat /\ SeedSpace > 0 /\ Batch \in Nat /\ Batch > 0 /\ first \in Nat
  BY SpaceAssumption DEF TypeOK, Seeds
<1>1. PICK m \in Nat : m = Len(claims) /\ DOMAIN claims = 1 .. m  BY DEF TypeOK
<1>2. PICK total \in Nat : total = m * Batch  BY <1>0
<1>3. ASSUME NEW i \in 1 .. m, NEW k \in 0 .. Batch - 1, NEW j \in Nat, j = (i - 1) * Batch + k
      PROVE  j \in 0 .. total - 1 /\ (claims[i] + k) % SeedSpace = (first + j) % SeedSpace
  <2>1. PICK x \in Nat : x = (i - 1) * Batch
    <3>1. i - 1 \in Nat  OBVIOUS
    <3>. QED  BY <1>0, <3>1
  <2>2. claims[i] = (first + x) % SeedSpace  BY <1>1, <2>1 DEF ClaimsInStep
  <2>3. first + x \in Nat /\ k \in Nat /\ j = x + k /\ first + x + k = first + j
    BY <1>0, <1>3, <2>1
  <2>4. (((first + x) % SeedSpace) + k) % SeedSpace = (first + x + k) % SeedSpace
    BY ZenonT(40), <1>0, <2>3, ModPlus
  <2>5. total >= x + Batch
    <3>1. m > i - 1 /\ i - 1 \in Int /\ m \in Int  OBVIOUS
    <3>2. m * Batch >= (i - 1) * Batch + Batch  BY <1>0, <3>1, SmallMultiple
    <3>. QED  BY <1>2, <2>1, <3>2
  <2>6. j \in 0 .. total - 1  BY <1>0, <2>3, <2>5
  <2>. QED  BY <2>2, <2>3, <2>4, <2>6
<1>4. ASSUME NEW i \in 1 .. m, NEW s \in BatchSeeds(claims[i])
      PROVE  \E j \in 0 .. total - 1 : s = (first + j) % SeedSpace
  <2>1. PICK k \in 0 .. Batch - 1 : s = (claims[i] + k) % SeedSpace  BY DEF BatchSeeds
  <2>2. PICK j \in Nat : j = (i - 1) * Batch + k
    <3>1. i - 1 \in Nat /\ k \in Nat  OBVIOUS
    <3>2. PICK x \in Nat : x = (i - 1) * Batch  BY <1>0, <3>1
    <3>. QED  BY <3>1, <3>2
  <2>. QED  BY <1>3, <2>1, <2>2
<1>5. ASSUME NEW j \in 0 .. total - 1
      PROVE  \E i \in 1 .. m : (first + j) % SeedSpace \in BatchSeeds(claims[i])
  <2>1. j \in Nat  BY <1>2
  <2>2. PICK q \in Nat, k \in 0 .. Batch - 1 : j = q * Batch + k
    <3>1. j \div Batch \in Nat /\ j % Batch \in 0 .. Batch - 1
          /\ j = (j \div Batch) * Batch + (j % Batch)
      BY <1>0, <2>1, DivMod
    <3>. QED  BY <3>1
  <2>3. q < m
    <3>1. SUFFICES ASSUME ~(q < m) PROVE FALSE  OBVIOUS
    <3>2. PICK x \in Nat : x = q * Batch  BY <1>0
    <3>3. x >= total
      <4>1. CASE q = m  BY <1>2, <3>2, <4>1
      <4>2. CASE q > m
        <5>1. q * Batch >= m * Batch + Batch  BY <1>0, <4>2, SmallMultiple
        <5>. QED  BY <1>0, <1>2, <3>2, <5>1
      <4>. QED  BY <3>1, <4>1, <4>2
    <3>4. j = x + k  BY <2>2, <3>2
    <3>. QED  BY <1>0, <3>3, <3>4
  <2>4. q + 1 \in 1 .. m /\ (q + 1) - 1 = q  BY <2>3
  <2>5. (claims[q + 1] + k) % SeedSpace = (first + j) % SeedSpace
    BY <1>3, <2>1, <2>2, <2>4
  <2>6. (first + j) % SeedSpace \in BatchSeeds(claims[q + 1])  BY <2>5 DEF BatchSeeds
  <2>. QED  BY <2>4, <2>6
<1>. DEFINE all == UNION {BatchSeeds(claims[i]) : i \in 1 .. m}
            between == {(first + k) % SeedSpace : k \in 0 .. total - 1}
<1>6. all \subseteq between  BY <1>4
<1>7. between \subseteq all  BY <1>5
<1>8. all = between  BY <1>6, <1>7, Zenon
<1>. QED  BY <1>1, <1>2, <1>8

\* As many numbers as there are seeds, one after the other, are as many seeds.
LEMMA DistinctSeeds ==
    ASSUME NEW n \in Nat, n <= SeedSpace, NEW a \in Nat
    PROVE  Cardinality({(a + k) % SeedSpace : k \in 0 .. n - 1}) = n
<1>0. SeedSpace \in Nat /\ SeedSpace > 0  BY SpaceAssumption
<1>. DEFINE D == 0 .. n - 1
            T == {(a + k) % SeedSpace : k \in D}
            f == [k \in D |-> (a + k) % SeedSpace]
<1>1. ASSUME NEW k \in D, NEW l \in D, k < l PROVE f[k] # f[l]
  <2>1. a + k \in Nat /\ a + l \in Nat /\ a + k < a + l /\ a + l < a + k + SeedSpace
    BY <1>0, <1>1
  <2>2. (a + k) % SeedSpace # (a + l) % SeedSpace  BY <1>0, <2>1, ModDistinct
  <2>. QED  BY <2>2
<1>2. \A k, l \in D : f[k] = f[l] => k = l
  <2>1. SUFFICES ASSUME NEW k \in D, NEW l \in D, f[k] = f[l], k # l PROVE FALSE  OBVIOUS
  <2>2. k < l \/ l < k  BY <2>1
  <2>. QED  BY <1>1, <2>1, <2>2
<1>3. f \in Surjection(D, T)  BY DEF Surjection
<1>4. f \in Injection(D, T)  BY <1>2, <1>3 DEF Injection, IsInjective, Surjection
<1>5. IsFiniteSet(D) /\ Cardinality(D) = n
  <2>1. 0 \in Int /\ n - 1 \in Int  OBVIOUS
  <2>2. IsFiniteSet(D) /\ Cardinality(D) = IF 0 > n - 1 THEN 0 ELSE (n - 1) - 0 + 1
    BY <2>1, FS_Interval
  <2>. QED  BY <2>2
<1>. HIDE DEF D, T, f
<1>6. Cardinality(T) = n  BY <1>3, <1>4, <1>5, FS_Surjection
<1>. QED  BY <1>6 DEF T, D

(***************************************************************************)
(* The theorems                                                            *)
(***************************************************************************)

\* The inductive invariant holds in every reachable state.
THEOREM Invariance == Spec => []IInv
<1>1. Init => IInv
  BY TypeInit, ClaimsInit, HandsInit, WrittenInit, FoundInit, LostInit, UploadInit DEF IInv
<1>2. IInv /\ [Next]_vars => IInv'
  BY TypeStep, ClaimsStep, HandsStep, WrittenStep, FoundStep, LostStep, UploadStep, PostedStep
     DEF IInv
<1>. QED  BY <1>1, <1>2, PTL DEF Spec

\* Every variable of the searching process keeps its type: in particular the
\* iterator stays in the seed space, and every item on a queue is a find.
THEOREM TypeCorrect == Spec => []TypeOK
BY Invariance, PTL DEF IInv

\* No find is lost between the GPU threads and the output file, for any number
\* of GPU and CPU threads and any interleaving of them with the main thread.
THEOREM NothingLost == Spec => []NoFindLost
BY Invariance, PTL DEF IInv

\* The batches several GPU threads take tile the seed space, from any start seed
\* and over the wrap of the position: none is scanned twice, none left out.
THEOREM ScanCorrect == Spec => []ClaimsTile
<1>1. IInv => ClaimsTile
  <2>. SUFFICES ASSUME IInv PROVE ClaimsTile  OBVIOUS
  <2>. DEFINE total == Len(claims) * Batch
              all == UNION {BatchSeeds(claims[i]) : i \in DOMAIN claims}
  <2>1. total \in Nat /\ first \in Nat
    <3>1. Len(claims) \in Nat /\ first \in Nat  BY SpaceAssumption DEF IInv, TypeOK, Seeds
    <3>2. Batch \in Nat  BY SpaceAssumption
    <3>. QED  BY <3>1, <3>2
  <2>2. all = {(first + k) % SeedSpace : k \in 0 .. total - 1}  BY Covered DEF IInv
  <2>. HIDE DEF total, all
  <2>3. total <= SeedSpace => Cardinality(all) = total  BY <2>1, <2>2, DistinctSeeds
  <2>. QED  BY <2>2, <2>3 DEF ClaimsTile, total, all
<1>. QED  BY <1>1, Invariance, PTL

\* A session writes a key to the output file at most once.
THEOREM FileCorrect == Spec => []OneLinePerKey
BY Invariance, PTL DEF IInv

\* Every line of a session is what process answered for a candidate of a batch
\* that was handed out in it.
THEOREM LinesCorrect == Spec => []LinesWereFound
BY Invariance, PTL DEF IInv

\* Every written key is at exactly one place of the upload path, through any
\* number of failed posts.
THEOREM UploadExactlyOnce == Spec => []UploadedOnce
BY Invariance, PTL DEF IInv

\* What reached the backend is on disk, through any number of kills.
THEOREM FileFirst == Spec => []PostedIsOnFile
BY Invariance, PTL DEF IInv
=============================================================================
