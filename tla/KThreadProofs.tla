---------------------------- MODULE KThreadProofs ----------------------------
(***************************************************************************)
(* The invariant of KThreadInv is kept by every step of the scheduler and   *)
(* of the thread system calls; what KThread states of them follows.         *)
(***************************************************************************)
EXTENDS KThreadInv, KSchedProofs

-----------------------------------------------------------------------------
(* Control points *)

\* A label of a system call is none of the primitives'.
LEMMA LabelFacts ==
  /\ CallLabels \subseteq Resumes
  /\ CallLabels \cap {"run", "lk", "lk_sel", "lk_own", "ul", "ul_wake", "cw_sel",
                      "sg_wake", "sl_sel", "kloop", "user"} = {}
  /\ Guarding \subseteq CallLabels /\ Waking \subseteq CallLabels
  /\ Killing \subseteq CallLabels /\ Forking \subseteq CallLabels
  /\ Exiting \subseteq CallLabels
BY DEF CallLabels, Resumes, Labels, Guarding, Waking, Killing, Forking, Exiting

\* What Doing says of a thread's label.
LEMMA DoingFacts ==
  ASSUME IInv, NEW t \in AllThreads
  PROVE  /\ pc[t] \in CallLabels => Doing(t) = pc[t] /\ ret[t] = "run"
         /\ ret[t] \in CallLabels =>
              Doing(t) = ret[t] /\ pc[t] \in {"lk", "lk_sel", "lk_own", "ul", "ul_wake"}
         /\ pc[t] \notin CallLabels /\ ret[t] \notin CallLabels => Doing(t) = "user"
         /\ Doing(t) \in CallLabels => Doing(t) \in {pc[t], ret[t]}
         /\ t \notin THREADS => Doing(t) = "user"
<1>1. /\ ret[t] # "run" => pc[t] \in {"lk", "lk_sel", "lk_own", "ul", "ul_wake"}
      /\ t \notin THREADS => pc[t] \in {"run", "kloop", "ul", "ul_wake"}
      /\ t \notin THREADS => ret[t] \in {"run", "kloop"}
  BY ConstantFacts DEF IInv, PcInv
<1> QED
  BY <1>1, LabelFacts DEF Doing

\* The code a thread may go on with: it names p, the mutex m and where to resume.
Fits(t, p, m, r) ==
  \/ p = "run" /\ r = "run"
  \/ p \in CallLabels \ {"yt_go"} /\ r = "run" /\ held[t] = Needs(p)
  \/ /\ p = "lk" /\ m \in MUTEXES
     /\ r \in CallLabels \ {"yt_go", "ds_sel", "tv_lock", "tv_wake"}
     /\ held[t] = {} /\ Needs(r) = {m}
  \/ /\ p = "ul" /\ m \in MUTEXES
     /\ r \in ({"run"} \cup CallLabels) \ {"yt_go", "ds_sel", "tv_lock", "tv_wake"}
     /\ held[t] = {m} /\ Needs(r) = {}

\* Where a thread that goes on so is.
Now(p, r) == IF r \in CallLabels THEN r ELSE IF p \in CallLabels THEN p ELSE "user"

\* Thread t, on CPU c, runs the code of a system call: outside the primitives and
\* linked nowhere.
LEMMA Running ==
  ASSUME KIInv, NEW c \in CPUS, NEW t \in THREADS, NEW l \in {"run"} \cup CallLabels,
         At(c, t, l)
  PROVE  /\ t \in AllThreads /\ current[c] = t /\ phase[c] = "run" /\ pc[t] = l
         /\ ret[t] = "run" /\ ~Busy(t) /\ ~InCvWait(t)
         /\ Doing(t) = (IF l = "run" THEN "user" ELSE l)
         /\ l # "run" => held[t] = Needs(l)
         /\ ~Dead(t) /\ ~Off(t)
         /\ \A q \in QUEUES : t \notin Waiting(q)
         /\ t \notin Range(ready) \cup timers
<1>1. /\ t \in AllThreads /\ current[c] = t /\ phase[c] = "run" /\ pc[t] = l
      /\ pc[t] \notin {"lk", "lk_sel", "lk_own", "ul", "ul_wake", "cw_sel", "sg_wake",
                       "sl_sel"}
  BY LabelFacts, ConstantFacts DEF At
<1>2. ret[t] = "run" /\ ~Busy(t) /\ ~InCvWait(t)
  BY <1>1 DEF KIInv, IInv, PcInv, Busy, InCvWait
<1>3. Doing(t) = IF l = "run" THEN "user" ELSE l
  BY <1>1, <1>2, LabelFacts DEF Doing
<1>4. l # "run" => held[t] = Needs(l)
  BY <1>1 DEF KIInv, LabelInv, LabelOK
<1>5. ~Dead(t) /\ ~Off(t)
  BY <1>1 DEF KIInv, IInv, GoneInv
<1>6. /\ \A q \in QUEUES : t \notin Waiting(q)
      /\ t \notin Range(ready) \cup timers
  BY <1>1, <1>2, Unlinked DEF KIInv
<1> QED
  BY <1>1, <1>2, <1>3, <1>4, <1>5, <1>6

\* Thread t moves to label p, and to a mutex operation on m that resumes at r.
GoesOn(t, p, m, r) ==
  /\ pc' = [pc EXCEPT ![t] = p] /\ mtx' = [mtx EXCEPT ![t] = m]
  /\ ret' = [ret EXCEPT ![t] = r]
  /\ Fits(t, p, m, r)
  /\ UNCHANGED <<current, phase, held>>

\* What LabelInv says of the threads then.
LEMMA LabelStep ==
  ASSUME KIInv, NEW t \in THREADS,
         NEW p \in Labels, NEW m \in MUTEXES \cup {None}, NEW r \in Labels,
         GoesOn(t, p, m, r)
  PROVE  /\ LabelInv'
         /\ \A u \in AllThreads : u # t => Doing(u)' = Doing(u)
         /\ Doing(t)' = Now(p, r)
<1>1. /\ pc \in [AllThreads -> Labels] /\ ret \in [AllThreads -> Labels]
      /\ mtx \in [AllThreads -> MUTEXES \cup {None}]
      /\ t \in AllThreads /\ THREADS \subseteq AllThreads
      /\ \A d \in CPUS : kthread[d] \in AllThreads /\ kthread[d] # t
  BY ConstantFacts DEF KIInv, IInv, TypeOK
<1>2. /\ pc'[t] = p /\ mtx'[t] = m /\ ret'[t] = r
      /\ \A u \in AllThreads : u # t =>
           pc'[u] = pc[u] /\ mtx'[u] = mtx[u] /\ ret'[u] = ret[u] /\ held'[u] = held[u]
  BY <1>1 DEF GoesOn
<1>3. /\ \A u \in AllThreads : u # t => Doing(u)' = Doing(u)
      /\ Doing(t)' = Now(p, r)
  BY <1>1, <1>2 DEF Doing, Now
<1>4. LabelOK(t)'
  <2>1. CASE p \in CallLabels
    BY <1>2, <1>3, <2>1, LabelFacts DEF LabelOK, Fits, Now, GoesOn
  <2>2. CASE p = "lk"
    BY <1>2, <1>3, <2>2, LabelFacts DEF LabelOK, Fits, Now, GoesOn
  <2>3. CASE p = "ul"
    BY <1>2, <1>3, <2>3, LabelFacts DEF LabelOK, Fits, Now, GoesOn
  <2>4. CASE p = "run"
    BY <1>2, <1>3, <2>4, LabelFacts DEF LabelOK, Fits, Now, GoesOn
  <2> QED
    BY <2>1, <2>2, <2>3, <2>4 DEF Fits, GoesOn
<1>5. \A u \in THREADS : u # t => LabelOK(u)'
  BY <1>1, <1>2, <1>3 DEF KIInv, LabelInv, LabelOK
<1>6. \A d \in CPUS : KthreadOK(d)'
  BY <1>1, <1>2 DEF KIInv, LabelInv, KthreadOK, GoesOn
<1> QED
  BY <1>3, <1>4, <1>5, <1>6 DEF LabelInv

\* Thread t, on CPU c, moves on without touching queues, guards and mutexes.
LEMMA CallLocal ==
  ASSUME KIInv, NEW c \in CPUS, NEW t \in THREADS, current[c] = t, phase[c] = "run",
         pc[t] \in {"run"} \cup CallLabels,
         NEW p \in Labels, NEW m \in MUTEXES \cup {None}, NEW r \in Labels,
         pc' = [pc EXCEPT ![t] = p], mtx' = [mtx EXCEPT ![t] = m],
         ret' = [ret EXCEPT ![t] = r], Fits(t, p, m, r),
         UNCHANGED <<cpuVars, runVars, syncVars, wait, timeVars>>,
         spl' \in [SPLS -> CPUS \cup {None}], \A k \in GUARDS : spl'[k] = spl[k]
  PROVE  IInv' /\ LabelInv'
<1> USE DEF KIInv
<1>1. /\ t \in AllThreads /\ ret[t] = "run" /\ ~Busy(t) /\ ~InCvWait(t)
      /\ \A q \in QUEUES : t \notin Waiting(q)
  BY Running DEF At
<1>2. LabelInv'
  <2>1. GoesOn(t, p, m, r)
    BY DEF GoesOn, cpuVars, syncVars
  <2> QED
    BY <2>1, LabelStep
<1>3. TypeOK'
  BY DEF IInv, TypeOK, cpuVars, runVars, syncVars, timeVars
<1>4. /\ pc'[t] = p /\ mtx'[t] = m /\ ret'[t] = r
      /\ \A u \in AllThreads : u # t =>
           /\ pc'[u] = pc[u] /\ mtx'[u] = mtx[u] /\ ret'[u] = ret[u]
           /\ wait'[u] = wait[u]
  BY <1>1 DEF IInv, TypeOK
<1>5. /\ p \in {"run", "lk", "ul"} \cup CallLabels /\ r \in {"run"} \cup CallLabels
      /\ p \in {"run"} \cup CallLabels => r = "run"
      /\ p \in {"lk", "ul"} => m \in MUTEXES
      /\ p = "ul" => m \in held[t]
  BY LabelFacts DEF Fits
<1>6. ~InCvWait(t)'
  BY <1>4, <1>5, LabelFacts DEF InCvWait
<1>7. MachineInv'
  <2>1. SameGone
    BY StatusStep DEF runVars
  <2>2. /\ pc[t] \notin {"lk_sel", "ul_wake", "sg_wake", "sl_sel"}
        /\ p \notin {"lk_sel", "ul_wake", "sg_wake", "sl_sel"}
    BY <1>5, LabelFacts
  <2> QED
    BY <1>1, <1>4, <1>6, <2>1, <2>2, LocalStep DEF runVars, syncVars, timeVars
<1>8. PcInv'
  <2>1. /\ r \in Resumes /\ r # "cw_sel" /\ r # "kloop" /\ p # "kloop"
        /\ r # "run" => p \in {"lk", "ul"}
        /\ p \notin {"lk_sel", "lk_own", "ul_wake", "sg_wake"}
    BY <1>5, LabelFacts DEF Resumes, Labels
  <2>2. t \notin IdleThreads \cup KThreads /\ IdleThreads \subseteq AllThreads
        /\ KThreads \subseteq AllThreads /\ THREADS \subseteq AllThreads
    BY ConstantFacts
  <2>3. UNCHANGED held
    BY DEF syncVars
  <2> QED
    BY <1>4, <1>5, <1>6, <2>1, <2>2, <2>3 DEF IInv, PcInv, InCvWait
<1>9. WaiterInv'
  <2>1. \A n \in MUTEXES : t \notin Waiting(n)
    BY <1>1, ConstantFacts
  <2>2. p \notin {"ul_wake", "sg_wake"}
    BY <1>5, LabelFacts
  <2> QED
    BY <1>1, <1>4, <2>1, <2>2, WaiterFrame DEF syncVars
<1>10. OwnInv'
  BY <1>1, <1>4, <1>5, LabelFacts, OwnFrame DEF syncVars
<1> QED
  BY <1>2, <1>3, <1>7, <1>8, <1>9, <1>10 DEF IInv, MachineInv

-----------------------------------------------------------------------------
(* What one thread's step leaves of the rest of the invariant *)

\* Thread t goes from x to y, the other threads stay where they are.
Moves(t, x, y) ==
  /\ Doing(t) = x /\ Doing(t)' = y
  /\ \A u \in AllThreads : u # t => Doing(u)' = Doing(u)

\* Of the system calls' targets only that of t may change.
OnlyArg(t) == \A u \in THREADS : u # t => arg'[u] = arg[u]

\* A step of CPU c leaves the status_locks the other CPUs hold as they are.
LEMMA OtherLocks ==
  ASSUME KIInv, NEW c \in CPUS, NEW d \in CPUS, d # c, NEW u \in THREADS,
         current'[d] = current[d], phase'[d] = phase[d], rel'[d] = rel[d],
         \A v \in AllThreads : v # current[c] => Doing(v)' = Doing(v),
         \A v \in THREADS : v # current[c] => arg'[v] = arg[v]
  PROVE  HoldsStatus(d, u)' <=> HoldsStatus(d, u)
<1>1. /\ current[d] \in AllThreads /\ current[d] # current[c] /\ IInv
  BY DEF KIInv, IInv, TypeOK, CpuInv
<1>2. PICK v \in AllThreads : v = current[d] /\ v # current[c]
  BY <1>1
<1>3. Doing(v)' = Doing(v)
  BY <1>2
<1>4. Doing(v) \in {"mr_go", "tv_wake"} => arg'[v] = arg[v]
  BY <1>1, <1>2, DoingFacts
<1> QED
  BY <1>2, <1>3, <1>4 DEF HoldsStatus

\* The status_locks CPU c holds are those its thread t needs at y; other CPUs keep
\* theirs.
Locks(c, t, y) ==
  /\ \A u \in THREADS, d \in CPUS : d # c => (spl'[u] = d <=> spl[u] = d)
  /\ \A u \in THREADS :
       spl'[u] = c <=> \/ y = "ds_sel" /\ u = t
                       \/ y \in {"mr_go", "tv_wake"} /\ arg'[t] = u

LEMMA StatusKeep ==
  ASSUME KIInv, NEW c \in CPUS, NEW t \in THREADS, current[c] = t, phase[c] = "run",
         UNCHANGED <<current, phase, rel>>, NEW x, NEW y, Moves(t, x, y), OnlyArg(t),
         Locks(c, t, y)
  PROVE  StatusLockInv'
<1>1. \A d \in CPUS : d # c => current[d] # t
  BY DEF KIInv, IInv, CpuInv
<1>2. ASSUME NEW d \in CPUS, d # c, NEW u \in THREADS
      PROVE  spl'[u] = d <=> HoldsStatus(d, u)'
  <2>1. HoldsStatus(d, u)' <=> HoldsStatus(d, u)
    BY <1>2, OtherLocks DEF Moves, OnlyArg
  <2> QED
    BY <1>2, <2>1 DEF KIInv, StatusLockInv, Locks
<1>3. ASSUME NEW u \in THREADS
      PROVE  spl'[u] = c <=> HoldsStatus(c, u)'
  BY DEF HoldsStatus, Moves, Locks
<1>4. ASSUME NEW v \in THREADS, Doing(v)' \in Guarding
      PROVE  \E d \in CPUS : current'[d] = v /\ phase'[d] = "run"
  <2>1. CASE v = t
    BY <2>1
  <2>2. CASE v # t
    BY <1>1, <1>4, <2>2, ConstantFacts DEF KIInv, StatusLockInv, Moves
  <2> QED
    BY <2>1, <2>2
<1> QED
  BY <1>2, <1>3, <1>4 DEF StatusLockInv

\* A step outside the sections that a status_lock protects.
LEMMA StatusSame ==
  ASSUME KIInv, NEW c \in CPUS, NEW t \in THREADS, current[c] = t, phase[c] = "run",
         UNCHANGED <<current, phase, rel>>, NEW x, NEW y, Moves(t, x, y), OnlyArg(t),
         \A u \in THREADS : spl'[u] = spl[u],
         x \notin Guarding, y \notin Guarding
  PROVE  StatusLockInv'
<1>1. ASSUME NEW u \in THREADS
      PROVE  ~HoldsStatus(c, u)
  BY DEF HoldsStatus, Moves, Guarding
<1>2. \A u \in THREADS : spl'[u] # c
  BY <1>1 DEF KIInv, StatusLockInv
<1>3. y # "ds_sel" /\ y \notin {"mr_go", "tv_wake"}
  BY DEF Guarding
<1>4. Locks(c, t, y)
  BY <1>2, <1>3 DEF Locks
<1> QED
  BY <1>4, StatusKeep

\* A thread that has a status_lock taken from it, or waits for one, is not asleep
\* in a way the lock's holder does not see.
LEMMA FreeStatus ==
  ASSUME KIInv, NEW u \in THREADS, Free(u)
  PROVE  Doing(u) # "ds_sel"
<1> SUFFICES ASSUME Doing(u) = "ds_sel"
             PROVE  FALSE
  OBVIOUS
<1>1. PICK d \in CPUS : current[d] = u /\ phase[d] = "run"
  BY DEF KIInv, StatusLockInv, Guarding
<1>2. spl[u] = d
  BY <1>1 DEF KIInv, StatusLockInv, HoldsStatus
<1> QED
  BY <1>2, ConstantFacts DEF Free

\* A thread that is dead or descheduled is in no system call.
LEMMA GoneIdle ==
  ASSUME KIInv, NEW u \in THREADS, Dead(u) \/ Off(u)
  PROVE  Doing(u) = "user" /\ pc[u] = "run" /\ ret[u] = "run" /\ held[u] = {}
BY LabelFacts DEF KIInv, RestInv, Doing

LEMMA RestSame ==
  ASSUME KIInv, NEW t \in THREADS, ~Dead(t), ~Off(t), UNCHANGED <<saved, freed>>,
         \A u \in THREADS : u # t =>
           pc'[u] = pc[u] /\ ret'[u] = ret[u] /\ held'[u] = held[u],
         \A u \in THREADS : (Dead(u)' => Dead(u)) /\ (Off(u)' => Off(u))
  PROVE  RestInv'
BY DEF KIInv, RestInv

\* Thread t moves, and may leave the tree or the list; the other threads keep what
\* they know.
LEMMA ArgStep ==
  ASSUME KIInv, SameGone, NEW t \in THREADS, ~Dead(t), NEW x, NEW y, Moves(t, x, y),
         OnlyArg(t), freed' = freed,
         members \ {t} \subseteq members', tree \ {t} \subseteq tree',
         \A v \in THREADS : Doing(v) \in Killing => members \subseteq members',
         ArgOK(t)',
         y \in Forking => \A v \in THREADS :
           v # t /\ Doing(v) \in Forking => arg[v] # arg'[t]
  PROVE  ArgInv'
<1>1. /\ \A u \in THREADS : u # t => Doing(u)' = Doing(u) /\ arg'[u] = arg[u]
      /\ Doing(t)' = y
  BY ConstantFacts DEF Moves, OnlyArg
<1>2. \A u \in THREADS : /\ status'[u] = "DEAD" <=> status[u] = "DEAD"
                         /\ status'[u] = "DESCHEDULED" <=> status[u] = "DESCHEDULED"
  BY DEF SameGone, Dead, Off
<1>3. ASSUME NEW v \in THREADS, v # t
      PROVE  ArgOK(v)'
  <2>1. ArgOK(v)
    BY DEF KIInv, ArgInv
  <2>2. Doing(v) \in Forking => arg[v] # t
    BY <2>1 DEF ArgOK
  <2>3. "fk_go" \in Forking
    BY DEF Forking
  <2> QED
    BY <1>1, <1>2, <1>3, <2>1, <2>2, <2>3 DEF ArgOK, Dead, Off
<1>4. ASSUME NEW v \in THREADS, NEW w \in THREADS, Doing(v)' \in Forking,
             Doing(w)' \in Forking, arg'[w] = arg'[v]
      PROVE  w = v
  <2>1. CASE v # t /\ w # t
    BY <1>1, <1>4, <2>1 DEF KIInv, ArgInv
  <2>2. CASE v = t \/ w = t
    BY <1>1, <1>4, <2>2
  <2> QED
    BY <2>1, <2>2
<1> QED
  BY <1>3, <1>4 DEF ArgInv

\* Thread t moves on and knows nothing of another thread.
LEMMA ArgSame ==
  ASSUME KIInv, SameGone, NEW t \in THREADS, ~Dead(t), NEW x, NEW y, Moves(t, x, y),
         OnlyArg(t), members \subseteq members', tree \subseteq tree', freed' = freed,
         y \notin {"yt_find"} \cup Waking \cup Killing \cup Forking
  PROVE  ArgInv'
<1>1. Doing(t)' = y /\ "fk_go" \in Forking
  BY DEF Moves, Forking
<1>2. ArgOK(t)'
  BY <1>1 DEF ArgOK
<1> QED
  BY <1>2, ArgStep

\* Thread t moves; new threads may enter the tree and the list.
LEMMA TreeStep ==
  ASSUME KIInv, SameGone, NEW t \in THREADS, NEW x, NEW y, Moves(t, x, y),
         freed' = freed,
         \A u \in THREADS : u # t =>
           /\ u \in tree => u \in tree'
           /\ u \in members => u \in members'
           /\ u \in tree' => u \in tree \/ (Dead(u) /\ u \notin freed)
           /\ u \in members' => u \in members \/ (Dead(u) /\ u \notin freed),
         TreeOK(t)'
  PROVE  TreeInv'
<1>1. ASSUME NEW u \in THREADS, u # t
      PROVE  TreeOK(u)'
  <2>1. Doing(u)' = Doing(u) /\ (Dead(u)' <=> Dead(u)) /\ TreeOK(u)
    BY <1>1, ConstantFacts DEF Moves, SameGone, KIInv, TreeInv
  <2>2. Dead(u) => Doing(u) \notin Exiting /\ Doing(u) \notin {"vn_left", "vn_die"}
    BY GoneIdle DEF Exiting
  <2> QED
    BY <1>1, <2>1, <2>2 DEF TreeOK
<1> QED
  BY <1>1 DEF TreeInv

LEMMA TreeSame ==
  ASSUME KIInv, SameGone, NEW t \in THREADS, NEW x, NEW y, Moves(t, x, y),
         UNCHANGED <<tree, members, freed>>,
         x \in Exiting <=> y \in Exiting,
         y \in {"vn_left", "vn_die"} => x \in {"vn_left", "vn_die"}
  PROVE  TreeInv'
<1>1. Doing(t) = x /\ Doing(t)' = y /\ TreeOK(t) /\ (Dead(t)' <=> Dead(t))
  BY DEF Moves, SameGone, KIInv, TreeInv
<1>2. TreeOK(t)'
  BY <1>1 DEF TreeOK
<1> QED
  BY <1>2, TreeStep

\* Thread t moves, and whoever sleeps although he should not has a waker.
LEMMA WakeMove ==
  ASSUME KIInv, NEW t \in THREADS, NEW x, NEW y, Moves(t, x, y), OnlyArg(t),
         \A u \in THREADS : Asleep(u)' =>
           /\ reject'[u] =>
                \/ Asleep(u) /\ reject[u] /\ ~(x \in ForFlag /\ arg[t] = u)
                \/ y \in ForFlag /\ arg'[t] = u
           /\ pending'[u] =>
                \/ Asleep(u) /\ pending[u] /\ ~(x \in ForExit /\ arg[t] = u)
                \/ y \in ForExit /\ arg'[t] = u
  PROVE  WakeInv'
<1>1. /\ \A v \in THREADS : v # t => Doing(v)' = Doing(v) /\ arg'[v] = arg[v]
      /\ Doing(t)' = y /\ Doing(t) = x
  BY ConstantFacts DEF Moves, OnlyArg
<1>2. ASSUME NEW u \in THREADS, Asleep(u)', reject'[u]
      PROVE  \E v \in THREADS : arg'[v] = u /\ Doing(v)' \in ForFlag
  <2>1. CASE y \in ForFlag /\ arg'[t] = u
    BY <1>1, <2>1
  <2>2. CASE Asleep(u) /\ reject[u] /\ ~(x \in ForFlag /\ arg[t] = u)
    BY <1>1, <2>2 DEF KIInv, WakeInv
  <2> QED
    BY <1>2, <2>1, <2>2
<1>3. ASSUME NEW u \in THREADS, Asleep(u)', pending'[u]
      PROVE  \E v \in THREADS : arg'[v] = u /\ Doing(v)' \in ForExit
  <2>1. CASE y \in ForExit /\ arg'[t] = u
    BY <1>1, <2>1
  <2>2. CASE Asleep(u) /\ pending[u] /\ ~(x \in ForExit /\ arg[t] = u)
    BY <1>1, <2>2 DEF KIInv, WakeInv
  <2> QED
    BY <1>3, <2>1, <2>2
<1> QED
  BY <1>2, <1>3 DEF WakeInv

\* Nobody goes to sleep, no flag is set, and t, if it is a waker, stays one.
LEMMA WakeSame ==
  ASSUME KIInv, SameGone, NEW t \in THREADS, NEW x, NEW y, Moves(t, x, y), OnlyArg(t),
         UNCHANGED <<reject, pending>>, y # "ds_sel",
         x \notin ForFlag \/ (y \in ForExit /\ arg'[t] = arg[t])
  PROVE  WakeInv'
<1>1. ForExit \subseteq ForFlag
  BY DEF ForExit, ForFlag
<1>2. ASSUME NEW u \in THREADS, Asleep(u)'
      PROVE  Asleep(u)
  BY <1>2, ConstantFacts DEF Asleep, SameGone, Moves
<1> QED
  BY <1>1, <1>2, WakeMove

\* Thread t takes no status_lock, or that of thread u, which it is going to put to
\* sleep or to wake.
Takes(c, t, y) ==
  \/ y \notin Guarding /\ spl' = spl
  \/ \E u \in THREADS :
       /\ \/ y = "ds_sel" /\ u = t
          \/ y \in Waking /\ u = arg'[t]
       /\ Free(u) /\ spl' = [spl EXCEPT ![u] = c]

\* A step of a system call that moves its thread on, and may take a status_lock.
LEMMA TakeStep ==
  ASSUME KIInv, NEW c \in CPUS, NEW t \in THREADS, NEW l \in {"run"} \cup CallLabels,
         At(c, t, l), l \notin Guarding,
         NEW p \in Labels, NEW m \in MUTEXES \cup {None}, NEW r \in Labels,
         pc' = [pc EXCEPT ![t] = p], mtx' = [mtx EXCEPT ![t] = m],
         ret' = [ret EXCEPT ![t] = r], Fits(t, p, m, r),
         UNCHANGED <<cpuVars, runVars, syncVars, wait, timeVars>>,
         OnlyArg(t), freed' = freed, Takes(c, t, Now(p, r))
  PROVE  /\ IInv' /\ LabelInv' /\ StatusLockInv' /\ RestInv'
         /\ SameGone /\ TypeOK'
         /\ Moves(t, IF l = "run" THEN "user" ELSE l, Now(p, r))
<1> DEFINE x == IF l = "run" THEN "user" ELSE l
           y == Now(p, r)
<1>1. /\ current[c] = t /\ phase[c] = "run" /\ pc[t] = l
      /\ UNCHANGED <<current, phase, rel, held, saved, status>>
  BY DEF At, cpuVars, syncVars, runVars
<1>2. /\ spl' \in [SPLS -> CPUS \cup {None}]
      /\ \A k \in GUARDS : spl'[k] = spl[k]
      /\ \A u \in THREADS : u \in SPLS /\ u \notin GUARDS
      /\ spl \in [SPLS -> CPUS \cup {None}]
  <2>1. /\ \A u \in THREADS : u \in SPLS /\ u \notin GUARDS
        /\ GUARDS \subseteq SPLS
        /\ spl \in [SPLS -> CPUS \cup {None}]
    BY ConstantFacts DEF KIInv, IInv, TypeOK
  <2>2. CASE spl' = spl
    BY <2>1, <2>2
  <2>3. ASSUME NEW u \in THREADS, spl' = [spl EXCEPT ![u] = c]
        PROVE  /\ spl' \in [SPLS -> CPUS \cup {None}]
               /\ \A k \in GUARDS : spl'[k] = spl[k]
    BY <2>1, <2>3
  <2> QED
    BY <2>1, <2>2, <2>3 DEF Takes
<1>3. IInv' /\ LabelInv'
  BY <1>1, <1>2, CallLocal
<1>4. SameGone
  BY <1>1 DEF SameGone, Dead, Off
<1>5. Moves(t, x, y)
  <2>1. Doing(t) = x
    BY Running
  <2>2. GoesOn(t, p, m, r)
    BY <1>1 DEF GoesOn
  <2> QED
    BY <2>1, <2>2, LabelStep DEF Moves
<1>6. x \notin Guarding
  BY LabelFacts
<1>7. StatusLockInv'
  <2>1. CASE y \notin Guarding /\ spl' = spl
    <3>1. \A u \in THREADS : spl'[u] = spl[u]
      BY <2>1
    <3> QED
      BY <1>1, <1>5, <1>6, <2>1, <3>1, StatusSame
  <2>2. ASSUME NEW u \in THREADS,
               (y = "ds_sel" /\ u = t) \/ (y \in Waking /\ u = arg'[t]),
               Free(u), spl' = [spl EXCEPT ![u] = c]
        PROVE  StatusLockInv'
    <3>1. \A v \in THREADS : ~HoldsStatus(c, v)
      BY <1>1, <1>5, <1>6 DEF HoldsStatus, Moves, Guarding
    <3>2. \A v \in THREADS : spl[v] # c
      BY <3>1 DEF KIInv, StatusLockInv
    <3>3. \A v \in THREADS : v # u => spl'[v] = spl[v]
      BY <1>2, <2>2
    <3>4. spl'[u] = c /\ spl[u] = None /\ None \notin CPUS
      BY <1>2, <2>2, ConstantFacts DEF Free
    <3>5. \A v \in THREADS :
            spl'[v] = c <=> \/ y = "ds_sel" /\ v = t
                            \/ y \in {"mr_go", "tv_wake"} /\ arg'[t] = v
      BY <2>2, <3>2, <3>3, <3>4 DEF Waking
    <3>6. \A v \in THREADS, d \in CPUS : d # c => (spl'[v] = d <=> spl[v] = d)
      BY <3>3, <3>4
    <3>7. Locks(c, t, y)
      BY <3>5, <3>6 DEF Locks
    <3> QED
      BY <1>1, <1>5, <3>7, StatusKeep
  <2> QED
    BY <2>1, <2>2 DEF Takes
<1>8. RestInv'
  <2>1. ~Dead(t) /\ ~Off(t)
    BY Running
  <2>2. \A u \in THREADS : u # t =>
          pc'[u] = pc[u] /\ ret'[u] = ret[u] /\ held'[u] = held[u]
    BY <1>1, ConstantFacts DEF KIInv, IInv, TypeOK
  <2> QED
    BY <1>1, <1>4, <2>1, <2>2, RestSame DEF SameGone
<1> QED
  BY <1>3, <1>4, <1>5, <1>7, <1>8 DEF IInv

\* A step that only starts a mutex operation, outside the status_locks.
LEMMA OnlyCallStep ==
  ASSUME KIInv, NEW c \in CPUS, NEW t \in THREADS, NEW l \in {"run"} \cup CallLabels,
         At(c, t, l), NEW op \in {"lk", "ul"}, NEW m \in MUTEXES,
         NEW r \in {"run"} \cup CallLabels, OnlyCall(c, t, op, m, r),
         Fits(t, op, m, r), l \notin Guarding, r \notin Guarding,
         OnlyArg(t), freed' = freed
  PROVE  /\ IInv' /\ LabelInv' /\ StatusLockInv' /\ RestInv'
         /\ SameGone /\ TypeOK'
         /\ Moves(t, IF l = "run" THEN "user" ELSE l, IF r = "run" THEN "user" ELSE r)
<1>1. /\ pc' = [pc EXCEPT ![t] = op] /\ mtx' = [mtx EXCEPT ![t] = m]
      /\ ret' = [ret EXCEPT ![t] = r] /\ spl' = spl
      /\ UNCHANGED <<cpuVars, runVars, syncVars, wait, timeVars>>
  BY DEF OnlyCall, Call
<1>2. op \in Labels /\ r \in Labels
  BY LabelFacts DEF Labels, CallLabels
<1>3. Now(op, r) = (IF r = "run" THEN "user" ELSE r) /\ Now(op, r) \notin Guarding
  BY LabelFacts DEF Now
<1> QED
  BY <1>1, <1>2, <1>3, TakeStep DEF Takes

-----------------------------------------------------------------------------
(* Each system call's steps that only start a mutex operation *)

LEMMA NeedsFacts ==
  /\ Needs("yt_find") = {ThreadsLock} /\ Needs("mr_find") = {ThreadsLock}
  /\ Needs("fk_add") = {ThreadsLock} /\ Needs("vn_remove") = {ThreadsLock}
  /\ Needs("fk_join") = {RefLock} /\ Needs("vn_leave") = {RefLock}
  /\ Needs("tv_list") = {RefLock} /\ Needs("tv_lock") = {RefLock}
  /\ Needs("tv_wake") = {RefLock} /\ Needs("vn_die") = {MallocLock}
  /\ \A l \in {"run", "mr_go", "ds_sel", "fk_joined", "fk_go", "vn_enter",
               "vn_removed", "vn_left"} : Needs(l) = {}
  /\ ThreadsLock \in MUTEXES /\ RefLock \in MUTEXES /\ MallocLock \in MUTEXES
BY CallAssumption DEF Needs

\* The target of thread t changes, if at all, to u.
LEMMA TargetFacts ==
  ASSUME KIInv, NEW t \in THREADS, NEW u \in THREADS \cup {None},
         Target(t, u) \/ (arg' = arg /\ u = arg[t])
  PROVE  /\ OnlyArg(t) /\ arg'[t] = u
         /\ arg' \in [THREADS -> THREADS \cup {None}]
BY DEF KIInv, KTypeOK, Target, OnlyArg

\* yield(tid) starts with a tid nobody has.
LEMMA YieldToEnterInv ==
  ASSUME NoYieldTo, KIInv, NEW c \in CPUS, NEW t \in THREADS, YieldToEnter(c, t)
  PROVE  KIInv'
<1>1. /\ At(c, t, "run") /\ held[t] = {}
      /\ OnlyCall(c, t, "lk", ThreadsLock, "yt_find")
      /\ Target(t, None)
      /\ UNCHANGED <<tree, members, pending, reject, todo, freed>>
  BY DEF YieldToEnter, Enters, NoYieldTo
<1>2. /\ IInv' /\ LabelInv' /\ StatusLockInv' /\ RestInv'
      /\ SameGone /\ TypeOK' /\ Moves(t, "user", "yt_find")
      /\ OnlyArg(t) /\ arg'[t] = None /\ arg' \in [THREADS -> THREADS \cup {None}]
  <2>1. /\ OnlyArg(t) /\ arg'[t] = None /\ arg' \in [THREADS -> THREADS \cup {None}]
    BY <1>1, TargetFacts DEF KIInv, KTypeOK
  <2>2. Fits(t, "lk", ThreadsLock, "yt_find")
    BY <1>1, Running, NeedsFacts DEF Fits, CallLabels
  <2>3. /\ "run" \in {"run"} \cup CallLabels /\ "yt_find" \in {"run"} \cup CallLabels
        /\ "run" \notin Guarding /\ "yt_find" \notin Guarding
        /\ ThreadsLock \in MUTEXES
    BY NeedsFacts DEF CallLabels, Guarding
  <2> QED
    BY <1>1, <2>1, <2>2, <2>3, OnlyCallStep
<1>3. KTypeOK'
  BY <1>1, <1>2 DEF KIInv, KTypeOK
<1>4. ~Dead(t)
  BY <1>1, Running DEF CallLabels
<1>5. ArgInv'
  <2>1. ArgOK(t)'
    BY <1>2 DEF ArgOK, Moves, Waking, Killing, Forking
  <2> QED
    BY <1>1, <1>2, <1>4, <2>1, ArgStep DEF Forking
<1>6. TreeInv'
  BY <1>1, <1>2, TreeSame DEF Exiting
<1>7. WakeInv'
  BY <1>1, <1>2, WakeSame DEF ForFlag
<1> QED
  BY <1>2, <1>3, <1>5, <1>6, <1>7 DEF KIInv

\* yield(tid) finds no thread to switch to.
LEMMA YieldToFailInv ==
  ASSUME KIInv, NEW c \in CPUS, NEW t \in THREADS, YieldToFail(c, t)
  PROVE  KIInv'
<1>1. /\ At(c, t, "yt_find")
      /\ OnlyCall(c, t, "ul", ThreadsLock, "run")
      /\ Target(t, None)
      /\ UNCHANGED <<tree, members, pending, reject, todo, freed>>
  BY DEF YieldToFail
<1>2. /\ IInv' /\ LabelInv' /\ StatusLockInv' /\ RestInv'
      /\ SameGone /\ TypeOK' /\ Moves(t, "yt_find", "user")
      /\ OnlyArg(t) /\ arg'[t] = None /\ arg' \in [THREADS -> THREADS \cup {None}]
  <2>1. /\ OnlyArg(t) /\ arg'[t] = None /\ arg' \in [THREADS -> THREADS \cup {None}]
    BY <1>1, TargetFacts DEF KIInv, KTypeOK
  <2>2. Fits(t, "ul", ThreadsLock, "run")
    BY <1>1, Running, NeedsFacts DEF Fits, CallLabels
  <2>3. /\ "yt_find" \in {"run"} \cup CallLabels /\ "run" \in {"run"} \cup CallLabels
        /\ "yt_find" \notin Guarding /\ "run" \notin Guarding
        /\ ThreadsLock \in MUTEXES
    BY NeedsFacts DEF CallLabels, Guarding
  <2> QED
    BY <1>1, <2>1, <2>2, <2>3, OnlyCallStep
<1>3. KTypeOK'
  BY <1>1, <1>2 DEF KIInv, KTypeOK
<1>4. ~Dead(t)
  BY <1>1, Running DEF CallLabels
<1>5. ArgInv'
  BY <1>1, <1>2, <1>4, ArgSame DEF Waking, Killing, Forking
<1>6. TreeInv'
  BY <1>1, <1>2, TreeSame DEF Exiting
<1>7. WakeInv'
  BY <1>1, <1>2, WakeSame DEF ForFlag
<1> QED
  BY <1>2, <1>3, <1>5, <1>6, <1>7 DEF KIInv

\* make_runnable starts: its flag is set, and it is the waker of its target.
LEMMA MakeRunnableEnterInv ==
  ASSUME KIInv, NEW c \in CPUS, NEW t \in THREADS, MakeRunnableEnter(c, t)
  PROVE  KIInv'
<1>1. /\ At(c, t, "run") /\ held[t] = {}
      /\ OnlyCall(c, t, "lk", ThreadsLock, "mr_find")
      /\ \E u \in THREADS \cup {None} :
           /\ Target(t, u)
           /\ reject' = [v \in THREADS |-> v = u \/ reject[v]]
      /\ UNCHANGED <<tree, members, pending, todo, freed>>
  BY DEF MakeRunnableEnter, Enters
<1>0. PICK u \in THREADS \cup {None} :
        Target(t, u) /\ reject' = [v \in THREADS |-> v = u \/ reject[v]]
  BY <1>1
<1>2. /\ IInv' /\ LabelInv' /\ StatusLockInv' /\ RestInv'
      /\ SameGone /\ TypeOK' /\ Moves(t, "user", "mr_find")
      /\ OnlyArg(t) /\ arg'[t] = u /\ arg' \in [THREADS -> THREADS \cup {None}]
  <2>1. /\ OnlyArg(t) /\ arg'[t] = u /\ arg' \in [THREADS -> THREADS \cup {None}]
    BY <1>0, TargetFacts DEF KIInv, KTypeOK
  <2>2. Fits(t, "lk", ThreadsLock, "mr_find")
    BY <1>1, Running, NeedsFacts DEF Fits, CallLabels
  <2>3. /\ "run" \in {"run"} \cup CallLabels /\ "mr_find" \in {"run"} \cup CallLabels
        /\ "run" \notin Guarding /\ "mr_find" \notin Guarding
        /\ ThreadsLock \in MUTEXES
    BY NeedsFacts DEF CallLabels, Guarding
  <2> QED
    BY <1>1, <2>1, <2>2, <2>3, OnlyCallStep
<1>3. KTypeOK'
  BY <1>0, <1>1, <1>2 DEF KIInv, KTypeOK
<1>4. ~Dead(t)
  BY <1>1, Running DEF CallLabels
<1>5. ArgInv'
  BY <1>1, <1>2, <1>4, ArgSame DEF Waking, Killing, Forking
<1>6. TreeInv'
  BY <1>1, <1>2, TreeSame DEF Exiting
<1>7. WakeInv'
  <2>1. ASSUME NEW v \in THREADS, Asleep(v)'
        PROVE  Asleep(v) /\ (reject'[v] => reject[v] \/ v = u)
    BY <1>0, <1>2, <2>1, ConstantFacts DEF Asleep, SameGone, Moves
  <2> QED
    BY <1>1, <1>2, <2>1, WakeMove DEF ForFlag, ForExit
<1> QED
  BY <1>2, <1>3, <1>5, <1>6, <1>7 DEF KIInv

\* A thread that is in no tree is not asleep.
LEMMA NotInTree ==
  ASSUME KIInv, NEW u \in THREADS, u \notin tree
  PROVE  ~Off(u) /\ Doing(u) # "ds_sel"
<1>1. u \in tree \/ Dead(u) \/ Doing(u) \in Exiting
  BY DEF KIInv, TreeInv, TreeOK
<1>2. Off(u) => ~Dead(u) /\ Doing(u) \notin Exiting
  BY GoneIdle DEF Off, Dead, Exiting
<1>3. Doing(u) = "ds_sel" => ~Dead(u) /\ Doing(u) \notin Exiting
  BY GoneIdle DEF Exiting
<1> QED
  BY <1>1, <1>2, <1>3

\* make_runnable finds that its target does not sleep.
LEMMA MakeRunnableFailInv ==
  ASSUME KIInv, NEW c \in CPUS, NEW t \in THREADS, MakeRunnableFail(c, t)
  PROVE  KIInv'
<1>1. /\ At(c, t, "mr_find")
      /\ OnlyCall(c, t, "ul", ThreadsLock, "run")
      /\ Target(t, None)
      /\ arg[t] \notin tree \/ (Free(arg[t]) /\ status[arg[t]] # "DESCHEDULED")
      /\ UNCHANGED <<tree, members, pending, reject, todo, freed>>
  BY DEF MakeRunnableFail
<1>2. /\ IInv' /\ LabelInv' /\ StatusLockInv' /\ RestInv'
      /\ SameGone /\ TypeOK' /\ Moves(t, "mr_find", "user")
      /\ OnlyArg(t) /\ arg'[t] = None /\ arg' \in [THREADS -> THREADS \cup {None}]
  <2>1. /\ OnlyArg(t) /\ arg'[t] = None /\ arg' \in [THREADS -> THREADS \cup {None}]
    BY <1>1, TargetFacts DEF KIInv, KTypeOK
  <2>2. Fits(t, "ul", ThreadsLock, "run")
    BY <1>1, Running, NeedsFacts DEF Fits, CallLabels
  <2>3. /\ "mr_find" \in {"run"} \cup CallLabels /\ "run" \in {"run"} \cup CallLabels
        /\ "mr_find" \notin Guarding /\ "run" \notin Guarding
        /\ ThreadsLock \in MUTEXES
    BY NeedsFacts DEF CallLabels, Guarding
  <2> QED
    BY <1>1, <2>1, <2>2, <2>3, OnlyCallStep
<1>3. KTypeOK'
  BY <1>1, <1>2 DEF KIInv, KTypeOK
<1>4. ~Dead(t)
  BY <1>1, Running DEF CallLabels
<1>5. ArgInv'
  BY <1>1, <1>2, <1>4, ArgSame DEF Waking, Killing, Forking
<1>6. TreeInv'
  BY <1>1, <1>2, TreeSame DEF Exiting
<1>7. WakeInv'
  <2>1. ASSUME NEW u \in THREADS, u = arg[t]
        PROVE  ~Off(u) /\ Doing(u) # "ds_sel"
    <3>1. CASE u \notin tree
      BY <2>1, <3>1, NotInTree
    <3>2. CASE Free(u) /\ status[u] # "DESCHEDULED"
      BY <3>2, FreeStatus DEF Off
    <3> QED
      BY <1>1, <2>1, <3>1, <3>2
  <2>2. ASSUME NEW u \in THREADS, Asleep(u)'
        PROVE  Asleep(u) /\ arg[t] # u
    <3>1. Asleep(u)
      BY <1>2, <2>2, ConstantFacts DEF Asleep, SameGone, Moves
    <3> QED
      BY <2>1, <3>1 DEF Asleep
  <2> QED
    BY <1>1, <1>2, <2>2, WakeMove
<1> QED
  BY <1>2, <1>3, <1>5, <1>6, <1>7 DEF KIInv

\* thread_fork starts, with a control block nobody else works on.
LEMMA ForkEnterInv ==
  ASSUME KIInv, NEW c \in CPUS, NEW t \in THREADS, ForkEnter(c, t)
  PROVE  KIInv'
<1>1. /\ At(c, t, "run") /\ held[t] = {}
      /\ OnlyCall(c, t, "lk", RefLock, "fk_join")
      /\ \E u \in THREADS \ (members \cup freed) :
           /\ Dead(u) /\ \A v \in THREADS : arg[v] # u
           /\ Target(t, u) /\ pending' = [pending EXCEPT ![u] = pending[t]]
      /\ UNCHANGED <<tree, members, reject, todo, freed>>
  BY DEF ForkEnter, Enters, Dead
<1>0. PICK u \in THREADS \ (members \cup freed) :
        /\ Dead(u) /\ \A v \in THREADS : arg[v] # u
        /\ Target(t, u) /\ pending' = [pending EXCEPT ![u] = pending[t]]
  BY <1>1
<1>2. /\ IInv' /\ LabelInv' /\ StatusLockInv' /\ RestInv'
      /\ SameGone /\ TypeOK' /\ Moves(t, "user", "fk_join")
      /\ OnlyArg(t) /\ arg'[t] = u /\ arg' \in [THREADS -> THREADS \cup {None}]
  <2>1. /\ OnlyArg(t) /\ arg'[t] = u /\ arg' \in [THREADS -> THREADS \cup {None}]
    BY <1>0, TargetFacts DEF KIInv, KTypeOK
  <2>2. Fits(t, "lk", RefLock, "fk_join")
    BY <1>1, Running, NeedsFacts DEF Fits, CallLabels
  <2>3. /\ "run" \in {"run"} \cup CallLabels /\ "fk_join" \in {"run"} \cup CallLabels
        /\ "run" \notin Guarding /\ "fk_join" \notin Guarding
        /\ RefLock \in MUTEXES
    BY NeedsFacts DEF CallLabels, Guarding
  <2> QED
    BY <1>1, <2>1, <2>2, <2>3, OnlyCallStep
<1>3. KTypeOK'
  BY <1>0, <1>1, <1>2 DEF KIInv, KTypeOK
<1>4. ~Dead(t)
  BY <1>1, Running DEF CallLabels
<1>5. ArgInv'
  <2>1. ArgOK(t)'
    BY <1>0, <1>1, <1>2 DEF ArgOK, Moves, Waking, Killing, Forking, SameGone, Dead
  <2> QED
    BY <1>0, <1>1, <1>2, <1>4, <2>1, ArgStep
<1>6. TreeInv'
  BY <1>1, <1>2, TreeSame DEF Exiting
<1>7. WakeInv'
  <2>1. ASSUME NEW v \in THREADS, Asleep(v)'
        PROVE  Asleep(v) /\ v # u
    <3>1. Asleep(v)
      BY <1>2, <2>1, ConstantFacts DEF Asleep, SameGone, Moves
    <3>2. ~Asleep(u)
      BY <1>0, GoneIdle DEF Asleep, Dead, Off
    <3> QED
      BY <3>1, <3>2
  <2>2. \A v \in THREADS : v # u => pending'[v] = pending[v]
    BY <1>0 DEF KIInv, KTypeOK
  <2> QED
    BY <1>1, <1>2, <2>1, <2>2, WakeMove DEF ForFlag, ForExit
<1> QED
  BY <1>2, <1>3, <1>5, <1>6, <1>7 DEF KIInv

\* thread_fork enters the new thread in p->threads.
LEMMA ForkJoinInv ==
  ASSUME KIInv, NEW c \in CPUS, NEW t \in THREADS, ForkJoin(c, t)
  PROVE  KIInv'
<1>1. /\ At(c, t, "fk_join")
      /\ OnlyCall(c, t, "ul", RefLock, "fk_joined")
      /\ members' = members \cup {arg[t]} /\ arg[t] \in THREADS /\ arg' = arg
      /\ UNCHANGED <<tree, pending, reject, todo, freed>>
  <2>1. At(c, t, "fk_join") /\ Doing(t) = "fk_join"
    BY Running DEF ForkJoin, CallLabels
  <2> QED
    BY <2>1 DEF ForkJoin, KIInv, ArgInv, ArgOK, Forking
<1>2. /\ IInv' /\ LabelInv' /\ StatusLockInv' /\ RestInv'
      /\ SameGone /\ TypeOK' /\ Moves(t, "fk_join", "fk_joined")
      /\ OnlyArg(t) /\ arg'[t] = arg[t] /\ arg' \in [THREADS -> THREADS \cup {None}]
  <2>1. /\ OnlyArg(t) /\ arg'[t] = arg[t] /\ arg' \in [THREADS -> THREADS \cup {None}]
    BY <1>1, TargetFacts DEF KIInv, KTypeOK
  <2>2. Fits(t, "ul", RefLock, "fk_joined")
    BY <1>1, Running, NeedsFacts DEF Fits, CallLabels
  <2>3. /\ "fk_join" \in {"run"} \cup CallLabels /\ "fk_joined" \in {"run"} \cup CallLabels
        /\ "fk_join" \notin Guarding /\ "fk_joined" \notin Guarding
        /\ RefLock \in MUTEXES
    BY NeedsFacts DEF CallLabels, Guarding
  <2> QED
    BY <1>1, <2>1, <2>2, <2>3, OnlyCallStep
<1>3. KTypeOK'
  BY <1>1, <1>2 DEF KIInv, KTypeOK
<1>4. ~Dead(t)
  BY <1>1, Running DEF CallLabels
<1>5. ArgInv'
  <2>1. /\ ArgOK(t) /\ Doing(t) = "fk_join" /\ Doing(t)' = "fk_joined"
        /\ \A v \in THREADS : v # t /\ Doing(v) \in Forking => arg[v] # arg[t]
    BY <1>2 DEF KIInv, ArgInv, Moves, Forking
  <2>2. ArgOK(t)'
    BY <1>1, <1>2, <2>1 DEF ArgOK, Waking, Killing, Forking, SameGone, Dead
  <2> QED
    BY <1>1, <1>2, <1>4, <2>1, <2>2, ArgStep
<1>6. TreeInv'
  <2>1. ArgOK(t) /\ TreeOK(t) /\ Doing(t) = "fk_join" /\ Doing(t)' = "fk_joined"
    BY <1>2 DEF KIInv, ArgInv, TreeInv, Moves
  <2>2. Dead(arg[t]) /\ arg[t] \notin freed /\ arg[t] # t
    BY <1>4, <2>1 DEF ArgOK, Forking
  <2>3. TreeOK(t)'
    BY <1>1, <1>2, <2>1, <2>2 DEF TreeOK, Exiting, SameGone
  <2> QED
    BY <1>1, <1>2, <2>2, <2>3, TreeStep
<1>7. WakeInv'
  BY <1>1, <1>2, WakeSame DEF ForFlag
<1> QED
  BY <1>2, <1>3, <1>5, <1>6, <1>7 DEF KIInv

\* thread_fork goes on to the tree.
LEMMA ForkJoinedInv ==
  ASSUME KIInv, NEW c \in CPUS, NEW t \in THREADS, ForkJoined(c, t)
  PROVE  KIInv'
<1>1. /\ At(c, t, "fk_joined")
      /\ OnlyCall(c, t, "lk", ThreadsLock, "fk_add")
      /\ arg' = arg
      /\ UNCHANGED <<tree, members, pending, reject, todo, freed>>
  BY DEF ForkJoined, callVars
<1>2. /\ IInv' /\ LabelInv' /\ StatusLockInv' /\ RestInv'
      /\ SameGone /\ TypeOK' /\ Moves(t, "fk_joined", "fk_add")
      /\ OnlyArg(t) /\ arg'[t] = arg[t] /\ arg' \in [THREADS -> THREADS \cup {None}]
  <2>1. /\ OnlyArg(t) /\ arg'[t] = arg[t] /\ arg' \in [THREADS -> THREADS \cup {None}]
    BY <1>1, TargetFacts DEF KIInv, KTypeOK
  <2>2. Fits(t, "lk", ThreadsLock, "fk_add")
    BY <1>1, Running, NeedsFacts DEF Fits, CallLabels
  <2>3. /\ "fk_joined" \in {"run"} \cup CallLabels /\ "fk_add" \in {"run"} \cup CallLabels
        /\ "fk_joined" \notin Guarding /\ "fk_add" \notin Guarding
        /\ ThreadsLock \in MUTEXES
    BY NeedsFacts DEF CallLabels, Guarding
  <2> QED
    BY <1>1, <2>1, <2>2, <2>3, OnlyCallStep
<1>3. KTypeOK'
  BY <1>1, <1>2 DEF KIInv, KTypeOK
<1>4. ~Dead(t)
  BY <1>1, Running DEF CallLabels
<1>5. ArgInv'
  <2>1. /\ ArgOK(t) /\ Doing(t) = "fk_joined" /\ Doing(t)' = "fk_add"
        /\ \A v \in THREADS : v # t /\ Doing(v) \in Forking => arg[v] # arg[t]
    BY <1>2 DEF KIInv, ArgInv, Moves, Forking
  <2>2. ArgOK(t)'
    BY <1>1, <1>2, <2>1 DEF ArgOK, Waking, Killing, Forking, SameGone, Dead
  <2> QED
    BY <1>1, <1>2, <1>4, <2>1, <2>2, ArgStep
<1>6. TreeInv'
  BY <1>1, <1>2, TreeSame DEF Exiting
<1>7. WakeInv'
  BY <1>1, <1>2, WakeSame DEF ForFlag
<1> QED
  BY <1>2, <1>3, <1>5, <1>6, <1>7 DEF KIInv

\* thread_fork enters the new thread in the tree.
LEMMA ForkAddInv ==
  ASSUME KIInv, NEW c \in CPUS, NEW t \in THREADS, ForkAdd(c, t)
  PROVE  KIInv'
<1>1. /\ At(c, t, "fk_add")
      /\ OnlyCall(c, t, "ul", ThreadsLock, "fk_go")
      /\ tree' = tree \cup {arg[t]} /\ arg[t] \in THREADS /\ arg' = arg
      /\ UNCHANGED <<members, pending, reject, todo, freed>>
  <2>1. At(c, t, "fk_add") /\ Doing(t) = "fk_add"
    BY Running DEF ForkAdd, CallLabels
  <2> QED
    BY <2>1 DEF ForkAdd, KIInv, ArgInv, ArgOK, Forking
<1>2. /\ IInv' /\ LabelInv' /\ StatusLockInv' /\ RestInv'
      /\ SameGone /\ TypeOK' /\ Moves(t, "fk_add", "fk_go")
      /\ OnlyArg(t) /\ arg'[t] = arg[t] /\ arg' \in [THREADS -> THREADS \cup {None}]
  <2>1. /\ OnlyArg(t) /\ arg'[t] = arg[t] /\ arg' \in [THREADS -> THREADS \cup {None}]
    BY <1>1, TargetFacts DEF KIInv, KTypeOK
  <2>2. Fits(t, "ul", ThreadsLock, "fk_go")
    BY <1>1, Running, NeedsFacts DEF Fits, CallLabels
  <2>3. /\ "fk_add" \in {"run"} \cup CallLabels /\ "fk_go" \in {"run"} \cup CallLabels
        /\ "fk_add" \notin Guarding /\ "fk_go" \notin Guarding
        /\ ThreadsLock \in MUTEXES
    BY NeedsFacts DEF CallLabels, Guarding
  <2> QED
    BY <1>1, <2>1, <2>2, <2>3, OnlyCallStep
<1>3. KTypeOK'
  BY <1>1, <1>2 DEF KIInv, KTypeOK
<1>4. ~Dead(t)
  BY <1>1, Running DEF CallLabels
<1>5. ArgInv'
  <2>1. /\ ArgOK(t) /\ Doing(t) = "fk_add" /\ Doing(t)' = "fk_go"
        /\ \A v \in THREADS : v # t /\ Doing(v) \in Forking => arg[v] # arg[t]
    BY <1>2 DEF KIInv, ArgInv, Moves, Forking
  <2>2. ArgOK(t)'
    BY <1>1, <1>2, <2>1 DEF ArgOK, Waking, Killing, Forking, SameGone, Dead
  <2> QED
    BY <1>1, <1>2, <1>4, <2>1, <2>2, ArgStep
<1>6. TreeInv'
  <2>1. ArgOK(t) /\ TreeOK(t) /\ Doing(t) = "fk_add" /\ Doing(t)' = "fk_go"
    BY <1>2 DEF KIInv, ArgInv, TreeInv, Moves
  <2>2. Dead(arg[t]) /\ arg[t] \notin freed /\ arg[t] # t
    BY <1>4, <2>1 DEF ArgOK, Forking
  <2>3. TreeOK(t)'
    BY <1>1, <1>2, <2>1, <2>2 DEF TreeOK, Exiting, SameGone
  <2> QED
    BY <1>1, <1>2, <2>2, <2>3, TreeStep
<1>7. WakeInv'
  BY <1>1, <1>2, WakeSame DEF ForFlag
<1> QED
  BY <1>2, <1>3, <1>5, <1>6, <1>7 DEF KIInv

\* An exiting thread locks the tree.
LEMMA VanishLockTreeInv ==
  ASSUME KIInv, NEW c \in CPUS, NEW t \in THREADS, VanishLockTree(c, t)
  PROVE  KIInv'
<1>1. /\ At(c, t, "vn_enter")
      /\ OnlyCall(c, t, "lk", ThreadsLock, "vn_remove")
      /\ arg' = arg
      /\ UNCHANGED <<tree, members, pending, reject, todo, freed>>
  BY DEF VanishLockTree, callVars
<1>2. /\ IInv' /\ LabelInv' /\ StatusLockInv' /\ RestInv'
      /\ SameGone /\ TypeOK' /\ Moves(t, "vn_enter", "vn_remove")
      /\ OnlyArg(t) /\ arg'[t] = arg[t] /\ arg' \in [THREADS -> THREADS \cup {None}]
  <2>1. /\ OnlyArg(t) /\ arg'[t] = arg[t] /\ arg' \in [THREADS -> THREADS \cup {None}]
    BY <1>1, TargetFacts DEF KIInv, KTypeOK
  <2>2. Fits(t, "lk", ThreadsLock, "vn_remove")
    BY <1>1, Running, NeedsFacts DEF Fits, CallLabels
  <2>3. /\ "vn_enter" \in {"run"} \cup CallLabels /\ "vn_remove" \in {"run"} \cup CallLabels
        /\ "vn_enter" \notin Guarding /\ "vn_remove" \notin Guarding
        /\ ThreadsLock \in MUTEXES
    BY NeedsFacts DEF CallLabels, Guarding
  <2> QED
    BY <1>1, <2>1, <2>2, <2>3, OnlyCallStep
<1>3. KTypeOK'
  BY <1>1, <1>2 DEF KIInv, KTypeOK
<1>4. ~Dead(t)
  BY <1>1, Running DEF CallLabels
<1>5. ArgInv'
  BY <1>1, <1>2, <1>4, ArgSame DEF Waking, Killing, Forking
<1>6. TreeInv'
  BY <1>1, <1>2, TreeSame DEF Exiting
<1>7. WakeInv'
  BY <1>1, <1>2, WakeSame DEF ForFlag
<1> QED
  BY <1>2, <1>3, <1>5, <1>6, <1>7 DEF KIInv

\* An exiting thread leaves the tree.
LEMMA VanishRemoveInv ==
  ASSUME KIInv, NEW c \in CPUS, NEW t \in THREADS, VanishRemove(c, t)
  PROVE  KIInv'
<1>1. /\ At(c, t, "vn_remove")
      /\ OnlyCall(c, t, "ul", ThreadsLock, "vn_removed")
      /\ tree' = tree \ {t} /\ arg' = arg
      /\ UNCHANGED <<members, pending, reject, todo, freed>>
  BY DEF VanishRemove
<1>2. /\ IInv' /\ LabelInv' /\ StatusLockInv' /\ RestInv'
      /\ SameGone /\ TypeOK' /\ Moves(t, "vn_remove", "vn_removed")
      /\ OnlyArg(t) /\ arg'[t] = arg[t] /\ arg' \in [THREADS -> THREADS \cup {None}]
  <2>1. /\ OnlyArg(t) /\ arg'[t] = arg[t] /\ arg' \in [THREADS -> THREADS \cup {None}]
    BY <1>1, TargetFacts DEF KIInv, KTypeOK
  <2>2. Fits(t, "ul", ThreadsLock, "vn_removed")
    BY <1>1, Running, NeedsFacts DEF Fits, CallLabels
  <2>3. /\ "vn_remove" \in {"run"} \cup CallLabels /\ "vn_removed" \in {"run"} \cup CallLabels
        /\ "vn_remove" \notin Guarding /\ "vn_removed" \notin Guarding
        /\ ThreadsLock \in MUTEXES
    BY NeedsFacts DEF CallLabels, Guarding
  <2> QED
    BY <1>1, <2>1, <2>2, <2>3, OnlyCallStep
<1>3. KTypeOK'
  BY <1>1, <1>2 DEF KIInv, KTypeOK
<1>4. ~Dead(t)
  BY <1>1, Running DEF CallLabels
<1>5. ArgInv'
  <2>1. ArgOK(t)'
    BY <1>2 DEF ArgOK, Moves, Waking, Killing, Forking
  <2> QED
    BY <1>1, <1>2, <1>4, <2>1, ArgStep DEF Forking
<1>6. TreeInv'
  <2>1. TreeOK(t) /\ Doing(t) = "vn_remove" /\ Doing(t)' = "vn_removed"
    BY <1>2 DEF KIInv, TreeInv, Moves
  <2>2. TreeOK(t)'
    BY <1>1, <1>2, <2>1 DEF TreeOK, Exiting, SameGone
  <2> QED
    BY <1>1, <1>2, <2>2, TreeStep
<1>7. WakeInv'
  BY <1>1, <1>2, WakeSame DEF ForFlag
<1> QED
  BY <1>2, <1>3, <1>5, <1>6, <1>7 DEF KIInv

\* An exiting thread locks p->threads.
LEMMA VanishLockMembersInv ==
  ASSUME KIInv, NEW c \in CPUS, NEW t \in THREADS, VanishLockMembers(c, t)
  PROVE  KIInv'
<1>1. /\ At(c, t, "vn_removed")
      /\ OnlyCall(c, t, "lk", RefLock, "vn_leave")
      /\ arg' = arg
      /\ UNCHANGED <<tree, members, pending, reject, todo, freed>>
  BY DEF VanishLockMembers, callVars
<1>2. /\ IInv' /\ LabelInv' /\ StatusLockInv' /\ RestInv'
      /\ SameGone /\ TypeOK' /\ Moves(t, "vn_removed", "vn_leave")
      /\ OnlyArg(t) /\ arg'[t] = arg[t] /\ arg' \in [THREADS -> THREADS \cup {None}]
  <2>1. /\ OnlyArg(t) /\ arg'[t] = arg[t] /\ arg' \in [THREADS -> THREADS \cup {None}]
    BY <1>1, TargetFacts DEF KIInv, KTypeOK
  <2>2. Fits(t, "lk", RefLock, "vn_leave")
    BY <1>1, Running, NeedsFacts DEF Fits, CallLabels
  <2>3. /\ "vn_removed" \in {"run"} \cup CallLabels /\ "vn_leave" \in {"run"} \cup CallLabels
        /\ "vn_removed" \notin Guarding /\ "vn_leave" \notin Guarding
        /\ RefLock \in MUTEXES
    BY NeedsFacts DEF CallLabels, Guarding
  <2> QED
    BY <1>1, <2>1, <2>2, <2>3, OnlyCallStep
<1>3. KTypeOK'
  BY <1>1, <1>2 DEF KIInv, KTypeOK
<1>4. ~Dead(t)
  BY <1>1, Running DEF CallLabels
<1>5. ArgInv'
  BY <1>1, <1>2, <1>4, ArgSame DEF Waking, Killing, Forking
<1>6. TreeInv'
  BY <1>1, <1>2, TreeSame DEF Exiting
<1>7. WakeInv'
  BY <1>1, <1>2, WakeSame DEF ForFlag
<1> QED
  BY <1>2, <1>3, <1>5, <1>6, <1>7 DEF KIInv

\* An exiting thread leaves p->threads: no task_vanish is in the list then.
LEMMA VanishLeaveInv ==
  ASSUME KIInv, NEW c \in CPUS, NEW t \in THREADS, VanishLeave(c, t)
  PROVE  KIInv'
<1>1. /\ At(c, t, "vn_leave")
      /\ OnlyCall(c, t, "ul", RefLock, "vn_left")
      /\ members' = members \ {t} /\ arg' = arg
      /\ UNCHANGED <<tree, pending, reject, todo, freed>>
  BY DEF VanishLeave
<1>2. /\ IInv' /\ LabelInv' /\ StatusLockInv' /\ RestInv'
      /\ SameGone /\ TypeOK' /\ Moves(t, "vn_leave", "vn_left")
      /\ OnlyArg(t) /\ arg'[t] = arg[t] /\ arg' \in [THREADS -> THREADS \cup {None}]
  <2>1. /\ OnlyArg(t) /\ arg'[t] = arg[t] /\ arg' \in [THREADS -> THREADS \cup {None}]
    BY <1>1, TargetFacts DEF KIInv, KTypeOK
  <2>2. Fits(t, "ul", RefLock, "vn_left")
    BY <1>1, Running, NeedsFacts DEF Fits, CallLabels
  <2>3. /\ "vn_leave" \in {"run"} \cup CallLabels /\ "vn_left" \in {"run"} \cup CallLabels
        /\ "vn_leave" \notin Guarding /\ "vn_left" \notin Guarding
        /\ RefLock \in MUTEXES
    BY NeedsFacts DEF CallLabels, Guarding
  <2> QED
    BY <1>1, <2>1, <2>2, <2>3, OnlyCallStep
<1>3. KTypeOK'
  BY <1>1, <1>2 DEF KIInv, KTypeOK
<1>4. ~Dead(t)
  BY <1>1, Running DEF CallLabels
<1>5. ArgInv'
  <2>1. ArgOK(t)'
    BY <1>2 DEF ArgOK, Moves, Waking, Killing, Forking
  <2>2. ASSUME NEW v \in THREADS, Doing(v) \in Killing
        PROVE  FALSE
    <3>1. v \in AllThreads /\ t \in AllThreads /\ RefLock \in MUTEXES
      BY NeedsFacts, ConstantFacts
    <3>2. pc[v] \in {"tv_lock", "tv_wake"}
      BY <2>2, <3>1, DoingFacts DEF KIInv, LabelInv, LabelOK, Killing, CallLabels
    <3>3. RefLock \in held[v]
      BY <3>2, NeedsFacts DEF KIInv, LabelInv, LabelOK, CallLabels
    <3>4. RefLock \in held[t]
      BY <1>1, Running, NeedsFacts DEF CallLabels
    <3>5. v = t
      BY <3>1, <3>3, <3>4 DEF KIInv, IInv, OwnInv, Owns
    <3> QED
      BY <1>2, <2>2, <3>5 DEF Moves, Killing
  <2> QED
    BY <1>1, <1>2, <1>4, <2>1, <2>2, ArgStep DEF Forking
<1>6. TreeInv'
  <2>1. TreeOK(t) /\ Doing(t) = "vn_leave" /\ Doing(t)' = "vn_left"
    BY <1>2 DEF KIInv, TreeInv, Moves
  <2>2. TreeOK(t)'
    BY <1>1, <1>2, <2>1 DEF TreeOK, Exiting, SameGone
  <2> QED
    BY <1>1, <1>2, <2>2, TreeStep
<1>7. WakeInv'
  BY <1>1, <1>2, WakeSame DEF ForFlag
<1> QED
  BY <1>2, <1>3, <1>5, <1>6, <1>7 DEF KIInv

\* An exiting thread locks the heap.
LEMMA VanishLockHeapInv ==
  ASSUME KIInv, NEW c \in CPUS, NEW t \in THREADS, VanishLockHeap(c, t)
  PROVE  KIInv'
<1>1. /\ At(c, t, "vn_left")
      /\ OnlyCall(c, t, "lk", MallocLock, "vn_die")
      /\ arg' = arg
      /\ UNCHANGED <<tree, members, pending, reject, todo, freed>>
  BY DEF VanishLockHeap, callVars
<1>2. /\ IInv' /\ LabelInv' /\ StatusLockInv' /\ RestInv'
      /\ SameGone /\ TypeOK' /\ Moves(t, "vn_left", "vn_die")
      /\ OnlyArg(t) /\ arg'[t] = arg[t] /\ arg' \in [THREADS -> THREADS \cup {None}]
  <2>1. /\ OnlyArg(t) /\ arg'[t] = arg[t] /\ arg' \in [THREADS -> THREADS \cup {None}]
    BY <1>1, TargetFacts DEF KIInv, KTypeOK
  <2>2. Fits(t, "lk", MallocLock, "vn_die")
    BY <1>1, Running, NeedsFacts DEF Fits, CallLabels
  <2>3. /\ "vn_left" \in {"run"} \cup CallLabels /\ "vn_die" \in {"run"} \cup CallLabels
        /\ "vn_left" \notin Guarding /\ "vn_die" \notin Guarding
        /\ MallocLock \in MUTEXES
    BY NeedsFacts DEF CallLabels, Guarding
  <2> QED
    BY <1>1, <2>1, <2>2, <2>3, OnlyCallStep
<1>3. KTypeOK'
  BY <1>1, <1>2 DEF KIInv, KTypeOK
<1>4. ~Dead(t)
  BY <1>1, Running DEF CallLabels
<1>5. ArgInv'
  BY <1>1, <1>2, <1>4, ArgSame DEF Waking, Killing, Forking
<1>6. TreeInv'
  BY <1>1, <1>2, TreeSame DEF Exiting
<1>7. WakeInv'
  BY <1>1, <1>2, WakeSame DEF ForFlag
<1> QED
  BY <1>2, <1>3, <1>5, <1>6, <1>7 DEF KIInv

\* task_vanish starts.
LEMMA TaskVanishEnterInv ==
  ASSUME KIInv, NEW c \in CPUS, NEW t \in THREADS, TaskVanishEnter(c, t)
  PROVE  KIInv'
<1>1. /\ At(c, t, "run") /\ held[t] = {}
      /\ OnlyCall(c, t, "lk", RefLock, "tv_list")
      /\ arg' = arg /\ todo' = [todo EXCEPT ![t] = THREADS]
      /\ UNCHANGED <<tree, members, pending, reject, freed>>
  BY DEF TaskVanishEnter, Enters
<1>2. /\ IInv' /\ LabelInv' /\ StatusLockInv' /\ RestInv'
      /\ SameGone /\ TypeOK' /\ Moves(t, "user", "tv_list")
      /\ OnlyArg(t) /\ arg'[t] = arg[t] /\ arg' \in [THREADS -> THREADS \cup {None}]
  <2>1. /\ OnlyArg(t) /\ arg'[t] = arg[t] /\ arg' \in [THREADS -> THREADS \cup {None}]
    BY <1>1, TargetFacts DEF KIInv, KTypeOK
  <2>2. Fits(t, "lk", RefLock, "tv_list")
    BY <1>1, Running, NeedsFacts DEF Fits, CallLabels
  <2>3. /\ "run" \in {"run"} \cup CallLabels /\ "tv_list" \in {"run"} \cup CallLabels
        /\ "run" \notin Guarding /\ "tv_list" \notin Guarding
        /\ RefLock \in MUTEXES
    BY NeedsFacts DEF CallLabels, Guarding
  <2> QED
    BY <1>1, <2>1, <2>2, <2>3, OnlyCallStep
<1>3. KTypeOK'
  BY <1>1, <1>2 DEF KIInv, KTypeOK
<1>4. ~Dead(t)
  BY <1>1, Running DEF CallLabels
<1>5. ArgInv'
  BY <1>1, <1>2, <1>4, ArgSame DEF Waking, Killing, Forking
<1>6. TreeInv'
  BY <1>1, <1>2, TreeSame DEF Exiting
<1>7. WakeInv'
  BY <1>1, <1>2, WakeSame DEF ForFlag
<1> QED
  BY <1>2, <1>3, <1>5, <1>6, <1>7 DEF KIInv

\* task_vanish has visited every thread.
LEMMA TaskVanishDoneInv ==
  ASSUME KIInv, NEW c \in CPUS, NEW t \in THREADS, TaskVanishDone(c, t)
  PROVE  KIInv'
<1>1. /\ At(c, t, "tv_list")
      /\ OnlyCall(c, t, "ul", RefLock, "vn_enter")
      /\ arg' = arg /\ todo' = [todo EXCEPT ![t] = {}]
      /\ UNCHANGED <<tree, members, pending, reject, freed>>
  BY DEF TaskVanishDone
<1>2. /\ IInv' /\ LabelInv' /\ StatusLockInv' /\ RestInv'
      /\ SameGone /\ TypeOK' /\ Moves(t, "tv_list", "vn_enter")
      /\ OnlyArg(t) /\ arg'[t] = arg[t] /\ arg' \in [THREADS -> THREADS \cup {None}]
  <2>1. /\ OnlyArg(t) /\ arg'[t] = arg[t] /\ arg' \in [THREADS -> THREADS \cup {None}]
    BY <1>1, TargetFacts DEF KIInv, KTypeOK
  <2>2. Fits(t, "ul", RefLock, "vn_enter")
    BY <1>1, Running, NeedsFacts DEF Fits, CallLabels
  <2>3. /\ "tv_list" \in {"run"} \cup CallLabels /\ "vn_enter" \in {"run"} \cup CallLabels
        /\ "tv_list" \notin Guarding /\ "vn_enter" \notin Guarding
        /\ RefLock \in MUTEXES
    BY NeedsFacts DEF CallLabels, Guarding
  <2> QED
    BY <1>1, <2>1, <2>2, <2>3, OnlyCallStep
<1>3. KTypeOK'
  BY <1>1, <1>2 DEF KIInv, KTypeOK
<1>4. ~Dead(t)
  BY <1>1, Running DEF CallLabels
<1>5. ArgInv'
  BY <1>1, <1>2, <1>4, ArgSame DEF Waking, Killing, Forking
<1>6. TreeInv'
  BY <1>1, <1>2, TreeSame DEF Exiting
<1>7. WakeInv'
  BY <1>1, <1>2, WakeSame DEF ForFlag
<1> QED
  BY <1>2, <1>3, <1>5, <1>6, <1>7 DEF KIInv

-----------------------------------------------------------------------------
(* The steps that move on without a mutex, or take a status_lock *)

\* deschedule finds neither flag nor pending exit and takes its status_lock.
LEMMA DescheduleInv ==
  ASSUME KIInv, NEW c \in CPUS, NEW t \in THREADS, Deschedule(c, t)
  PROVE  KIInv'
<1>1. /\ At(c, t, "run") /\ t \in AllThreads /\ ret[t] = "run"
      /\ held[t] = {} /\ Free(t) /\ ~reject[t] /\ ~pending[t] /\ arg' = arg
      /\ spl' = [spl EXCEPT ![t] = c]
      /\ pc' = [pc EXCEPT ![t] = "ds_sel"] /\ mtx' = [mtx EXCEPT ![t] = mtx[t]]
      /\ ret' = [ret EXCEPT ![t] = "run"]
      /\ UNCHANGED <<cpuVars, runVars, syncVars, wait, timeVars>>
      /\ UNCHANGED <<tree, members, pending, reject, todo, freed>>
  <2>1. /\ At(c, t, "run") /\ t \in AllThreads /\ ret[t] = "run"
        /\ mtx \in [AllThreads -> MUTEXES \cup {None}] /\ ret \in [AllThreads -> Labels]
    BY Running DEF Deschedule, Enters, Goto, callVars, CallLabels, KIInv, IInv, TypeOK
  <2> QED
    BY <2>1 DEF Deschedule, Enters, Goto, callVars
<1>2. /\ IInv' /\ LabelInv' /\ StatusLockInv' /\ RestInv'
      /\ SameGone /\ TypeOK' /\ Moves(t, "user", "ds_sel")
      /\ OnlyArg(t) /\ arg'[t] = arg[t] /\ arg' \in [THREADS -> THREADS \cup {None}]
  <2>1. /\ OnlyArg(t) /\ arg'[t] = arg[t] /\ arg' \in [THREADS -> THREADS \cup {None}]
    BY <1>1, TargetFacts DEF KIInv, KTypeOK
  <2>2. Fits(t, "ds_sel", mtx[t], "run")
    BY <1>1, NeedsFacts DEF Fits, CallLabels
  <2>3. /\ "run" \in {"run"} \cup CallLabels /\ "run" \notin Guarding
        /\ "ds_sel" \in Labels /\ "run" \in Labels /\ mtx[t] \in MUTEXES \cup {None}
    BY <1>1, NeedsFacts DEF CallLabels, Guarding, Labels, KIInv, IInv, TypeOK
  <2>4. Now("ds_sel", "run") = "ds_sel"
    BY LabelFacts DEF Now, CallLabels
  <2>5. Takes(c, t, "ds_sel")
    BY <1>1 DEF Takes
  <2> QED
    BY <1>1, <2>1, <2>2, <2>3, <2>4, <2>5, TakeStep
<1>3. KTypeOK'
  BY <1>1, <1>2 DEF KIInv, KTypeOK
<1>4. ~Dead(t)
  BY <1>1, Running DEF CallLabels
<1>5. ArgInv'
  BY <1>1, <1>2, <1>4, ArgSame DEF Waking, Killing, Forking
<1>6. TreeInv'
  BY <1>1, <1>2, TreeSame DEF Exiting
<1>7. WakeInv'
  <2>1. ASSUME NEW u \in THREADS, Asleep(u)'
        PROVE  Asleep(u) \/ u = t
    BY <1>2, <2>1, ConstantFacts DEF Asleep, SameGone, Moves
  <2> QED
    BY <1>1, <1>2, <2>1, WakeMove DEF ForFlag, ForExit
<1> QED
  BY <1>2, <1>3, <1>5, <1>6, <1>7 DEF KIInv

\* vanish, or an exit that was pending, starts.
LEMMA EnterKillInv ==
  ASSUME KIInv, NEW c \in CPUS, NEW t \in THREADS, EnterKill(c, t)
  PROVE  KIInv'
<1>1. /\ At(c, t, "run") /\ t \in AllThreads /\ ret[t] = "run"
      /\ held[t] = {} /\ arg' = arg /\ spl' = spl
      /\ pc' = [pc EXCEPT ![t] = "vn_enter"] /\ mtx' = [mtx EXCEPT ![t] = mtx[t]]
      /\ ret' = [ret EXCEPT ![t] = "run"]
      /\ UNCHANGED <<cpuVars, runVars, syncVars, wait, timeVars>>
      /\ UNCHANGED <<tree, members, pending, reject, todo, freed>>
  <2>1. /\ At(c, t, "run") /\ t \in AllThreads /\ ret[t] = "run"
        /\ mtx \in [AllThreads -> MUTEXES \cup {None}] /\ ret \in [AllThreads -> Labels]
    BY Running DEF EnterKill, Enters, Goto, callVars, CallLabels, KIInv, IInv, TypeOK
  <2> QED
    BY <2>1 DEF EnterKill, Enters, Goto, callVars
<1>2. /\ IInv' /\ LabelInv' /\ StatusLockInv' /\ RestInv'
      /\ SameGone /\ TypeOK' /\ Moves(t, "user", "vn_enter")
      /\ OnlyArg(t) /\ arg'[t] = arg[t] /\ arg' \in [THREADS -> THREADS \cup {None}]
  <2>1. /\ OnlyArg(t) /\ arg'[t] = arg[t] /\ arg' \in [THREADS -> THREADS \cup {None}]
    BY <1>1, TargetFacts DEF KIInv, KTypeOK
  <2>2. Fits(t, "vn_enter", mtx[t], "run")
    BY <1>1, NeedsFacts DEF Fits, CallLabels
  <2>3. /\ "run" \in {"run"} \cup CallLabels /\ "run" \notin Guarding
        /\ "vn_enter" \in Labels /\ "run" \in Labels /\ mtx[t] \in MUTEXES \cup {None}
    BY <1>1, NeedsFacts DEF CallLabels, Guarding, Labels, KIInv, IInv, TypeOK
  <2>4. Now("vn_enter", "run") = "vn_enter"
    BY LabelFacts DEF Now, CallLabels
  <2>5. Takes(c, t, "vn_enter")
    BY <1>1 DEF Takes, Guarding
  <2> QED
    BY <1>1, <2>1, <2>2, <2>3, <2>4, <2>5, TakeStep
<1>3. KTypeOK'
  BY <1>1, <1>2 DEF KIInv, KTypeOK
<1>4. ~Dead(t)
  BY <1>1, Running DEF CallLabels
<1>5. ArgInv'
  BY <1>1, <1>2, <1>4, ArgSame DEF Waking, Killing, Forking
<1>6. TreeInv'
  BY <1>1, <1>2, TreeSame DEF Exiting
<1>7. WakeInv'
  BY <1>1, <1>2, WakeSame DEF ForFlag, ForExit
<1> QED
  BY <1>2, <1>3, <1>5, <1>6, <1>7 DEF KIInv

\* make_runnable finds its target asleep and keeps the status_lock.
LEMMA MakeRunnableFoundInv ==
  ASSUME KIInv, NEW c \in CPUS, NEW t \in THREADS, MakeRunnableFound(c, t)
  PROVE  KIInv'
<1>1. /\ At(c, t, "mr_find") /\ t \in AllThreads /\ ret[t] = "run"
      /\ arg[t] \in THREADS /\ Free(arg[t]) /\ Off(arg[t]) /\ arg' = arg
      /\ spl' = [spl EXCEPT ![arg[t]] = c]
      /\ pc' = [pc EXCEPT ![t] = "ul"] /\ mtx' = [mtx EXCEPT ![t] = ThreadsLock]
      /\ ret' = [ret EXCEPT ![t] = "mr_go"]
      /\ UNCHANGED <<cpuVars, runVars, syncVars, wait, timeVars>>
      /\ UNCHANGED <<tree, members, pending, reject, todo, freed>>
  <2>1. /\ At(c, t, "mr_find") /\ t \in AllThreads /\ ret[t] = "run"
        /\ mtx \in [AllThreads -> MUTEXES \cup {None}] /\ ret \in [AllThreads -> Labels]
    BY Running DEF MakeRunnableFound, Call, callVars, KTypeOK, Off, CallLabels, KIInv, IInv, TypeOK
  <2> QED
    BY <2>1 DEF KIInv, MakeRunnableFound, Call, callVars, KTypeOK, Off
<1>2. /\ IInv' /\ LabelInv' /\ StatusLockInv' /\ RestInv'
      /\ SameGone /\ TypeOK' /\ Moves(t, "mr_find", "mr_go")
      /\ OnlyArg(t) /\ arg'[t] = arg[t] /\ arg' \in [THREADS -> THREADS \cup {None}]
  <2>1. /\ OnlyArg(t) /\ arg'[t] = arg[t] /\ arg' \in [THREADS -> THREADS \cup {None}]
    BY <1>1, TargetFacts DEF KIInv, KTypeOK
  <2>2. Fits(t, "ul", ThreadsLock, "mr_go")
    <3>1. "mr_find" # "run" => held[t] = Needs("mr_find")
      BY <1>1, Running DEF CallLabels
    <3> QED
      BY <1>1, <3>1, NeedsFacts DEF Fits, CallLabels
  <2>3. /\ "mr_find" \in {"run"} \cup CallLabels /\ "mr_find" \notin Guarding
        /\ "ul" \in Labels /\ "mr_go" \in Labels /\ ThreadsLock \in MUTEXES \cup {None}
    BY <1>1, NeedsFacts DEF CallLabels, Guarding, Labels, KIInv, IInv, TypeOK
  <2>4. Now("ul", "mr_go") = "mr_go"
    BY LabelFacts DEF Now, CallLabels
  <2>5. Takes(c, t, "mr_go")
    BY <1>1 DEF Takes, Waking
  <2> QED
    BY <1>1, <2>1, <2>2, <2>3, <2>4, <2>5, TakeStep
<1>3. KTypeOK'
  BY <1>1, <1>2 DEF KIInv, KTypeOK
<1>4. ~Dead(t)
  BY <1>1, Running DEF CallLabels
<1>5. ArgInv'
  <2>1. ArgOK(t)'
    BY <1>1, <1>2 DEF ArgOK, Moves, Waking, Killing, Forking, SameGone, Off
  <2> QED
    BY <1>1, <1>2, <1>4, <2>1, ArgStep DEF Forking
<1>6. TreeInv'
  BY <1>1, <1>2, TreeSame DEF Exiting
<1>7. WakeInv'
  BY <1>1, <1>2, WakeSame DEF ForFlag, ForExit
<1> QED
  BY <1>2, <1>3, <1>5, <1>6, <1>7 DEF KIInv

\* task_vanish makes the exit of one thread pending, and is its waker.
LEMMA TaskVanishMarkInv ==
  ASSUME KIInv, NEW c \in CPUS, NEW t \in THREADS, TaskVanishMark(c, t)
  PROVE  KIInv'
<1>1. /\ At(c, t, "tv_list") /\ t \in AllThreads /\ ret[t] = "run"
      /\ spl' = spl
      /\ pc' = [pc EXCEPT ![t] = "tv_lock"] /\ mtx' = [mtx EXCEPT ![t] = mtx[t]]
      /\ ret' = [ret EXCEPT ![t] = "run"]
      /\ UNCHANGED <<cpuVars, runVars, syncVars, wait, timeVars>>
      /\ UNCHANGED <<tree, members, reject, freed>>
  <2>1. /\ At(c, t, "tv_list") /\ t \in AllThreads /\ ret[t] = "run"
        /\ mtx \in [AllThreads -> MUTEXES \cup {None}] /\ ret \in [AllThreads -> Labels]
    BY Running DEF TaskVanishMark, Goto, CallLabels, KIInv, IInv, TypeOK
  <2> QED
    BY <2>1 DEF TaskVanishMark, Goto
<1>0. PICK u \in THREADS :
        /\ u \in members /\ pending' = [pending EXCEPT ![u] = TRUE] /\ Target(t, u)
        /\ todo' = [todo EXCEPT ![t] = @ \ {u}]
  BY DEF TaskVanishMark, KIInv, KTypeOK
<1>2. /\ IInv' /\ LabelInv' /\ StatusLockInv' /\ RestInv'
      /\ SameGone /\ TypeOK' /\ Moves(t, "tv_list", "tv_lock")
      /\ OnlyArg(t) /\ arg'[t] = u /\ arg' \in [THREADS -> THREADS \cup {None}]
  <2>1. /\ OnlyArg(t) /\ arg'[t] = u /\ arg' \in [THREADS -> THREADS \cup {None}]
    BY <1>1, <1>0, TargetFacts DEF KIInv, KTypeOK
  <2>2. Fits(t, "tv_lock", mtx[t], "run")
    <3>1. "tv_list" # "run" => held[t] = Needs("tv_list")
      BY <1>1, Running DEF CallLabels
    <3> QED
      BY <1>1, <3>1, NeedsFacts DEF Fits, CallLabels
  <2>3. /\ "tv_list" \in {"run"} \cup CallLabels /\ "tv_list" \notin Guarding
        /\ "tv_lock" \in Labels /\ "run" \in Labels /\ mtx[t] \in MUTEXES \cup {None}
    BY <1>1, NeedsFacts DEF CallLabels, Guarding, Labels, KIInv, IInv, TypeOK
  <2>4. Now("tv_lock", "run") = "tv_lock"
    BY LabelFacts DEF Now, CallLabels
  <2>5. Takes(c, t, "tv_lock")
    BY <1>1 DEF Takes, Guarding
  <2> QED
    BY <1>1, <2>1, <2>2, <2>3, <2>4, <2>5, TakeStep
<1>3. KTypeOK'
  BY <1>0, <1>1, <1>2 DEF KIInv, KTypeOK
<1>4. ~Dead(t)
  BY <1>1, Running DEF CallLabels
<1>5. ArgInv'
  <2>1. ArgOK(t)'
    BY <1>0, <1>1, <1>2 DEF ArgOK, Moves, Waking, Killing, Forking
  <2> QED
    BY <1>0, <1>1, <1>2, <1>4, <2>1, ArgStep DEF Forking
<1>6. TreeInv'
  BY <1>1, <1>2, TreeSame DEF Exiting
<1>7. WakeInv'
  <2>1. ASSUME NEW v \in THREADS, Asleep(v)'
        PROVE  Asleep(v) /\ (v # u => pending'[v] = pending[v])
    <3>1. Asleep(v)
      BY <1>2, <2>1, ConstantFacts DEF Asleep, SameGone, Moves
    <3>2. pending \in [THREADS -> BOOLEAN]
      BY DEF KIInv, KTypeOK
    <3> QED
      BY <1>0, <3>1, <3>2
  <2> QED
    BY <1>1, <1>2, <2>1, WakeMove DEF ForFlag, ForExit
<1> QED
  BY <1>2, <1>3, <1>5, <1>6, <1>7 DEF KIInv

\* task_vanish finds that the thread it marked does not sleep.
LEMMA TaskVanishSkipInv ==
  ASSUME KIInv, NEW c \in CPUS, NEW t \in THREADS, TaskVanishSkip(c, t)
  PROVE  KIInv'
<1>1. /\ At(c, t, "tv_lock") /\ t \in AllThreads /\ ret[t] = "run"
      /\ spl' = spl /\ Target(t, None) /\ Free(arg[t]) /\ status[arg[t]] # "DESCHEDULED"
      /\ pc' = [pc EXCEPT ![t] = "tv_list"] /\ mtx' = [mtx EXCEPT ![t] = mtx[t]]
      /\ ret' = [ret EXCEPT ![t] = "run"]
      /\ UNCHANGED <<cpuVars, runVars, syncVars, wait, timeVars>>
      /\ UNCHANGED <<tree, members, pending, reject, todo, freed>>
  <2>1. /\ At(c, t, "tv_lock") /\ t \in AllThreads /\ ret[t] = "run"
        /\ mtx \in [AllThreads -> MUTEXES \cup {None}] /\ ret \in [AllThreads -> Labels]
    BY Running DEF TaskVanishSkip, Goto, CallLabels, KIInv, IInv, TypeOK
  <2> QED
    BY <2>1 DEF TaskVanishSkip, Goto
<1>2. /\ IInv' /\ LabelInv' /\ StatusLockInv' /\ RestInv'
      /\ SameGone /\ TypeOK' /\ Moves(t, "tv_lock", "tv_list")
      /\ OnlyArg(t) /\ arg'[t] = None /\ arg' \in [THREADS -> THREADS \cup {None}]
  <2>1. /\ OnlyArg(t) /\ arg'[t] = None /\ arg' \in [THREADS -> THREADS \cup {None}]
    BY <1>1, TargetFacts DEF KIInv, KTypeOK
  <2>2. Fits(t, "tv_list", mtx[t], "run")
    <3>1. "tv_lock" # "run" => held[t] = Needs("tv_lock")
      BY <1>1, Running DEF CallLabels
    <3> QED
      BY <1>1, <3>1, NeedsFacts DEF Fits, CallLabels
  <2>3. /\ "tv_lock" \in {"run"} \cup CallLabels /\ "tv_lock" \notin Guarding
        /\ "tv_list" \in Labels /\ "run" \in Labels /\ mtx[t] \in MUTEXES \cup {None}
    BY <1>1, NeedsFacts DEF CallLabels, Guarding, Labels, KIInv, IInv, TypeOK
  <2>4. Now("tv_list", "run") = "tv_list"
    BY LabelFacts DEF Now, CallLabels
  <2>5. Takes(c, t, "tv_list")
    BY <1>1 DEF Takes, Guarding
  <2>6. /\ IInv' /\ LabelInv' /\ StatusLockInv' /\ RestInv'
        /\ SameGone /\ TypeOK'
        /\ Moves(t, IF "tv_lock" = "run" THEN "user" ELSE "tv_lock", Now("tv_list", "run"))
    BY <1>1, <2>1, <2>2, <2>3, <2>4, <2>5, TakeStep
  <2> QED
    BY <2>1, <2>4, <2>6
<1>3. KTypeOK'
  BY <1>1, <1>2 DEF KIInv, KTypeOK
<1>4. ~Dead(t)
  BY <1>1, Running DEF CallLabels
<1>5. ArgInv'
  BY <1>1, <1>2, <1>4, ArgSame DEF Waking, Killing, Forking
<1>6. TreeInv'
  BY <1>1, <1>2, TreeSame DEF Exiting
<1>7. WakeInv'
  <2>1. ASSUME NEW u \in THREADS, u = arg[t]
        PROVE  ~Off(u) /\ Doing(u) # "ds_sel"
    BY <1>1, <2>1, FreeStatus DEF Off
  <2>2. ASSUME NEW u \in THREADS, Asleep(u)'
        PROVE  Asleep(u) /\ arg[t] # u
    <3>1. Asleep(u)
      BY <1>2, <2>2, ConstantFacts DEF Asleep, SameGone, Moves
    <3> QED
      BY <2>1, <3>1 DEF Asleep
  <2> QED
    BY <1>1, <1>2, <2>2, WakeMove
<1> QED
  BY <1>2, <1>3, <1>5, <1>6, <1>7 DEF KIInv

\* task_vanish takes the status_lock of a thread asleep.
LEMMA TaskVanishLockInv ==
  ASSUME KIInv, NEW c \in CPUS, NEW t \in THREADS, TaskVanishLock(c, t)
  PROVE  KIInv'
<1>1. /\ At(c, t, "tv_lock") /\ t \in AllThreads /\ ret[t] = "run"
      /\ arg[t] \in members /\ arg[t] \in THREADS /\ Free(arg[t]) /\ Off(arg[t]) /\ arg' = arg
      /\ spl' = [spl EXCEPT ![arg[t]] = c]
      /\ pc' = [pc EXCEPT ![t] = "tv_wake"] /\ mtx' = [mtx EXCEPT ![t] = mtx[t]]
      /\ ret' = [ret EXCEPT ![t] = "run"]
      /\ UNCHANGED <<cpuVars, runVars, syncVars, wait, timeVars>>
      /\ UNCHANGED <<tree, members, pending, reject, todo, freed>>
  <2>1. /\ At(c, t, "tv_lock") /\ t \in AllThreads /\ ret[t] = "run"
        /\ mtx \in [AllThreads -> MUTEXES \cup {None}] /\ ret \in [AllThreads -> Labels]
        /\ Doing(t) = "tv_lock"
    BY Running DEF TaskVanishLock, CallLabels, KIInv, IInv, TypeOK
  <2>2. arg[t] \in members /\ members \subseteq THREADS
    BY <2>1 DEF KIInv, KTypeOK, ArgInv, ArgOK, Killing
  <2> QED
    BY <2>1, <2>2 DEF TaskVanishLock, Goto, callVars, Off
<1>2. /\ IInv' /\ LabelInv' /\ StatusLockInv' /\ RestInv'
      /\ SameGone /\ TypeOK' /\ Moves(t, "tv_lock", "tv_wake")
      /\ OnlyArg(t) /\ arg'[t] = arg[t] /\ arg' \in [THREADS -> THREADS \cup {None}]
  <2>1. /\ OnlyArg(t) /\ arg'[t] = arg[t] /\ arg' \in [THREADS -> THREADS \cup {None}]
    BY <1>1, TargetFacts DEF KIInv, KTypeOK
  <2>2. Fits(t, "tv_wake", mtx[t], "run")
    <3>1. "tv_lock" # "run" => held[t] = Needs("tv_lock")
      BY <1>1, Running DEF CallLabels
    <3> QED
      BY <1>1, <3>1, NeedsFacts DEF Fits, CallLabels
  <2>3. /\ "tv_lock" \in {"run"} \cup CallLabels /\ "tv_lock" \notin Guarding
        /\ "tv_wake" \in Labels /\ "run" \in Labels /\ mtx[t] \in MUTEXES \cup {None}
    BY <1>1, NeedsFacts DEF CallLabels, Guarding, Labels, KIInv, IInv, TypeOK
  <2>4. Now("tv_wake", "run") = "tv_wake"
    BY LabelFacts DEF Now, CallLabels
  <2>5. Takes(c, t, "tv_wake")
    BY <1>1 DEF Takes, Waking
  <2> QED
    BY <1>1, <2>1, <2>2, <2>3, <2>4, <2>5, TakeStep
<1>3. KTypeOK'
  BY <1>1, <1>2 DEF KIInv, KTypeOK
<1>4. ~Dead(t)
  BY <1>1, Running DEF CallLabels
<1>5. ArgInv'
  <2>1. ArgOK(t)'
    BY <1>1, <1>2 DEF ArgOK, Moves, Waking, Killing, Forking, SameGone, Off
  <2> QED
    BY <1>1, <1>2, <1>4, <2>1, ArgStep DEF Forking
<1>6. TreeInv'
  BY <1>1, <1>2, TreeSame DEF Exiting
<1>7. WakeInv'
  BY <1>1, <1>2, WakeSame DEF ForFlag, ForExit
<1> QED
  BY <1>2, <1>3, <1>5, <1>6, <1>7 DEF KIInv

-----------------------------------------------------------------------------
(* The steps that make a thread ready, put one to sleep or end one *)

\* Thread t appends a dead or descheduled thread u, which no CPU runs, to the ready
\* queue.
Readies(t, u, p) ==
  /\ Dead(u) \/ Off(u)
  /\ u \notin freed /\ \A d \in CPUS : current[d] # u
  /\ ready' = Append(ready, u) /\ status' = [status EXCEPT ![u] = "READY"]
  /\ pc' = [pc EXCEPT ![t] = p]
  /\ p = "tv_list" => held[t] = Needs(p)
  /\ spl' \in [SPLS -> CPUS \cup {None}] /\ \A k \in GUARDS : spl'[k] = spl[k]
  /\ UNCHANGED <<cpuVars, saved, syncVars, mtx, wait, ret, timeVars, freed>>

LEMMA InsertStep ==
  ASSUME KIInv, NEW c \in CPUS, NEW t \in THREADS, NEW l \in CallLabels, At(c, t, l),
         NEW u \in THREADS, NEW p \in {"run", "tv_list"}, Readies(t, u, p)
  PROVE  /\ IInv' /\ LabelInv' /\ RestInv'
         /\ Moves(t, l, IF p = "run" THEN "user" ELSE p)
         /\ u # t /\ ~Dead(u)' /\ ~Off(u)'
         /\ \A v \in THREADS : v # u => (Dead(v)' <=> Dead(v)) /\ (Off(v)' <=> Off(v))
<1>1. /\ t \in AllThreads /\ current[c] = t /\ phase[c] = "run" /\ pc[t] = l
      /\ ret[t] = "run" /\ ~Busy(t) /\ ~InCvWait(t) /\ Doing(t) = l
      /\ l # "run" /\ \A q \in QUEUES : t \notin Waiting(q)
  <2>1. l \in {"run"} \cup CallLabels /\ l # "run"
    BY LabelFacts
  <2> QED
    BY <2>1, Running
<1> USE DEF KIInv, Readies
<1>2. /\ UNCHANGED <<current, phase, next, rel, locked, waiters, held, timers, due>>
      /\ THREADS \subseteq AllThreads
      /\ mtx \in [AllThreads -> MUTEXES \cup {None}] /\ ret \in [AllThreads -> Labels]
      /\ pc \in [AllThreads -> Labels] /\ status \in [AllThreads -> Status]
      /\ ready \in Seq(THREADS) /\ IsInjective(ready)
  BY ConstantFacts DEF cpuVars, syncVars, timeVars, IInv, TypeOK, QueueInv
<1>3. /\ u \notin Range(ready) \cup timers
      /\ \A q \in QUEUES : u \notin Waiting(q)
      /\ \A d \in CPUS : phase[d] = "switch" => next[d] # u
  BY DEF IInv, GoneInv
<1>4. /\ ready' \in Seq(THREADS) /\ IsInjective(ready')
      /\ Range(ready') = Range(ready) \cup {u}
  BY <1>2, <1>3, AppendFacts
<1>5. /\ ~Dead(u)' /\ ~Off(u)'
      /\ \A v \in THREADS : v # u => (Dead(v)' <=> Dead(v)) /\ (Off(v)' <=> Off(v))
  BY <1>2 DEF Dead, Off
<1>6. saved[u]
  <2>1. Dead(u) => saved[u]
    BY DEF RestInv
  <2>2. ~Dead(u) => saved[u]
    BY <1>2 DEF IInv, SavedInv
  <2> QED
    BY <2>1, <2>2
<1>7. /\ p \in Labels /\ mtx[t] \in MUTEXES \cup {None} /\ mtx' = [mtx EXCEPT ![t] = mtx[t]]
      /\ "run" \in Labels /\ ret' = [ret EXCEPT ![t] = "run"]
      /\ Fits(t, p, mtx[t], "run") /\ Now(p, "run") = (IF p = "run" THEN "user" ELSE p)
  BY <1>1, <1>2, LabelFacts DEF Fits, Now, Labels, CallLabels
<1>8. LabelInv' /\ Moves(t, l, IF p = "run" THEN "user" ELSE p)
  <2>0. GoesOn(t, p, mtx[t], "run")
    BY <1>1, <1>2, <1>7 DEF GoesOn
  <2>1. /\ LabelInv'
        /\ \A v \in AllThreads : v # t => Doing(v)' = Doing(v)
        /\ Doing(t)' = Now(p, "run")
    <3> HIDE DEF KIInv, Readies
    <3> QED
      BY <1>7, <2>0, LabelStep
  <2> QED
    BY <1>1, <1>7, <2>1 DEF Moves
<1>9. TypeOK'
  BY <1>2, <1>4, <1>7 DEF IInv, TypeOK, Status, cpuVars, syncVars, timeVars
<1>10. /\ pc'[t] = p /\ \A v \in AllThreads : v # t => pc'[v] = pc[v]
       /\ \A v \in AllThreads : mtx'[v] = mtx[v] /\ ret'[v] = ret[v] /\ wait'[v] = wait[v]
       /\ l \notin {"lk", "lk_sel", "lk_own", "ul", "ul_wake", "sg_wake", "sl_sel", "cw_sel"}
  BY <1>2, LabelFacts
<1>11. ASSUME NEW v \in AllThreads
       PROVE  /\ Busy(v)' <=> Busy(v)
              /\ \A k \in GUARDS : ThreadHolds(v, k)' <=> ThreadHolds(v, k)
              /\ InCvWait(v)' <=> InCvWait(v)
              /\ pc'[v] \in {"sl_sel", "lk_sel"} \/ pc[v] \in {"sl_sel", "lk_sel"}
                   => pc'[v] = pc[v]
  <2>1. CASE v = t
    BY <1>1, <1>10, <2>1 DEF Busy, InCvWait, ThreadHolds
  <2>2. CASE v # t
    BY <1>10, <2>2 DEF Busy, InCvWait, ThreadHolds
  <2> QED
    BY <2>1, <2>2
<1>12. SpinInv'
  <2>1. ASSUME NEW d \in CPUS, NEW k \in GUARDS
        PROVE  Holds(d, k)' <=> Holds(d, k)
    BY <1>2, <1>11 DEF Holds, IInv, TypeOK
  <2> QED
    BY <2>1 DEF SpinInv, IInv
<1>13. BusyInv' /\ CpuInv'
  BY <1>2, <1>11 DEF IInv, BusyInv, CpuInv
<1>14. \A q : Waiting(q)' = Waiting(q)
  BY <1>2 DEF Waiting
<1>15. QueueInv'
  BY <1>2, <1>3, <1>4, <1>14 DEF IInv, QueueInv
<1>16. CurrentInv'
  <2>1. ASSUME NEW d \in CPUS
        PROVE  /\ \A q \in QUEUES : LeavingVia(d, q)' <=> LeavingVia(d, q)
               /\ pc'[current[d]] = "sl_sel" <=> pc[current[d]] = "sl_sel"
               /\ current[d] # u
    BY <1>2, <1>10, <1>11 DEF LeavingVia, IInv, TypeOK
  <2> QED
    BY <1>2, <1>4, <1>14, <2>1 DEF IInv, CurrentInv
<1>17. GoneInv'
  BY <1>2, <1>3, <1>4, <1>5, <1>14 DEF IInv, GoneInv
<1>18. LinkedInv'
  BY <1>2, <1>4, <1>5, <1>14 DEF IInv, LinkedInv
<1>19. SavedInv'
  BY <1>2, <1>5, <1>6 DEF IInv, SavedInv
<1>20. PcInv'
  <2>1. t \notin IdleThreads \cup KThreads /\ IdleThreads \subseteq AllThreads
        /\ KThreads \subseteq AllThreads
    BY ConstantFacts
  <2> QED
    BY <1>1, <1>2, <1>10, <1>11, <2>1 DEF IInv, PcInv
<1>21. WaiterInv'
  <2>1. \A n \in MUTEXES : t \notin Waiting(n)
    BY <1>1, ConstantFacts
  <2> QED
    BY <1>1, <1>2, <1>10, <2>1, WaiterFrame DEF IInv
<1>22. OwnInv'
  BY <1>1, <1>2, <1>10, OwnFrame DEF syncVars
<1>23. RestInv'
  <2>1. ~Dead(t) /\ ~Off(t)
    BY Running
  <2>2. \A v \in THREADS : v # t =>
          pc'[v] = pc[v] /\ ret'[v] = ret[v] /\ held'[v] = held[v]
    BY <1>2, <1>10
  <2>3. \A v \in THREADS : (Dead(v)' => Dead(v)) /\ (Off(v)' => Off(v))
    BY <1>5
  <2> QED
    BY <2>1, <2>2, <2>3, RestSame
<1>24. u # t
  BY <1>1
<1> QED
  BY <1>5, <1>8, <1>9, <1>12, <1>13, <1>15, <1>16, <1>17, <1>18, <1>19, <1>20, <1>21,
     <1>22, <1>23, <1>24 DEF IInv

\* A thread that is in the tree, dead or descheduled and that thread t works on is
\* made ready: make_runnable, task_vanish and thread_fork end that way.
LEMMA GoStep ==
  ASSUME KIInv, NEW c \in CPUS, NEW t \in THREADS,
         NEW l \in {"mr_go", "tv_wake", "fk_go"}, At(c, t, l),
         ready' = InsertTail(ready, arg[t]),
         status' = [status EXCEPT ![arg[t]] = "READY"],
         NEW p \in {"run", "tv_list"}, pc' = [pc EXCEPT ![t] = p],
         p = "tv_list" => l = "tv_wake",
         spl' = IF l = "fk_go" THEN spl ELSE [spl EXCEPT ![arg[t]] = None],
         Target(t, None),
         UNCHANGED <<cpuVars, saved, syncVars, mtx, wait, ret, timeVars>>,
         UNCHANGED <<tree, members, pending, reject, todo, freed>>
  PROVE  KIInv'
<1> DEFINE y == IF p = "run" THEN "user" ELSE p
<1>1. /\ current[c] = t /\ phase[c] = "run" /\ t \in AllThreads /\ Doing(t) = l
      /\ held[t] = Needs(l) /\ l \in CallLabels /\ ~Dead(t)
  BY Running DEF CallLabels
<1>2. ArgOK(t)
  BY DEF KIInv, ArgInv
<1>3. PICK u \in THREADS : u = arg[t]
  BY <1>1, <1>2 DEF ArgOK, Waking, Forking
<1>4. /\ l = "fk_go" => Dead(u) /\ u \in tree
      /\ l # "fk_go" => Off(u) /\ u \in tree
      /\ u \notin freed
  <2>1. l = "fk_go" => Dead(u) /\ u \in tree /\ u \notin freed
    BY <1>1, <1>2, <1>3 DEF ArgOK, Forking
  <2>2. l # "fk_go" => Off(u)
    BY <1>1, <1>2, <1>3 DEF ArgOK, Waking
  <2>3. Off(u) => ~Dead(u) /\ Doing(u) \notin Exiting
    BY GoneIdle DEF Off, Dead, Exiting
  <2>4. TreeOK(u)
    BY DEF KIInv, TreeInv
  <2> QED
    BY <2>1, <2>2, <2>3, <2>4 DEF TreeOK
<1>5. l # "fk_go" => spl[u] = c
  BY <1>1, <1>3 DEF KIInv, StatusLockInv, HoldsStatus
<1>6. ASSUME NEW d \in CPUS, current[d] = u
      PROVE  FALSE
  <2>1. /\ ~Dead(u)
        /\ Off(u) => phase[d] = "switch" /\ rel[d] = u
    BY <1>6 DEF KIInv, IInv, GoneInv
  <2>2. Off(u) => spl[u] = d
    BY <2>1 DEF KIInv, StatusLockInv, HoldsStatus
  <2> QED
    BY <1>1, <1>4, <1>5, <2>1, <2>2
<1>7. OnlyArg(t) /\ arg'[t] = None /\ arg' \in [THREADS -> THREADS \cup {None}]
  BY TargetFacts
<1>8. /\ spl' \in [SPLS -> CPUS \cup {None}]
      /\ \A k \in SPLS : spl'[k] = (IF l # "fk_go" /\ k = u THEN None ELSE spl[k])
      /\ u \in SPLS /\ u \notin GUARDS /\ GUARDS \subseteq SPLS /\ THREADS \subseteq SPLS
  <2>1. /\ spl \in [SPLS -> CPUS \cup {None}]
        /\ u \in SPLS /\ u \notin GUARDS /\ GUARDS \subseteq SPLS /\ THREADS \subseteq SPLS
    BY ConstantFacts DEF KIInv, IInv, TypeOK
  <2>2. CASE l = "fk_go"
    BY <2>1, <2>2
  <2>3. CASE l # "fk_go"
    <3>1. spl' = [spl EXCEPT ![u] = None]
      BY <1>3, <2>3
    <3> QED
      BY <2>1, <2>3, <3>1
  <2> QED
    BY <2>2, <2>3
<1>9. /\ IInv' /\ LabelInv' /\ RestInv' /\ Moves(t, l, y)
      /\ u # t /\ ~Dead(u)' /\ ~Off(u)'
      /\ \A v \in THREADS : v # u => (Dead(v)' <=> Dead(v)) /\ (Off(v)' <=> Off(v))
  <2>1. Dead(u) \/ Off(u)
    BY <1>4
  <2>2. p = "tv_list" => held[t] = Needs(p)
    BY <1>1, NeedsFacts
  <2>3. \A k \in GUARDS : spl'[k] = spl[k]
    BY <1>8
  <2>4. ready' = Append(ready, u) /\ status' = [status EXCEPT ![u] = "READY"]
    <3>1. u \notin Range(ready)
      BY <1>4, <2>1 DEF KIInv, IInv, GoneInv
    <3> QED
      BY <1>3, <3>1 DEF InsertTail
  <2>5. Readies(t, u, p)
    BY <1>4, <1>6, <1>8, <2>1, <2>2, <2>3, <2>4 DEF Readies
  <2> QED
    BY <1>1, <2>5, InsertStep
<1>10. KTypeOK'
  BY <1>7, <1>9 DEF KIInv, KTypeOK, IInv
<1>11. StatusLockInv'
  <2>1. \A v \in THREADS : spl[v] = c <=> l # "fk_go" /\ v = u
    BY <1>1, <1>3 DEF KIInv, StatusLockInv, HoldsStatus
  <2>2. \A v \in THREADS : spl'[v] # c
    BY <1>8, <2>1, ConstantFacts
  <2>3. \A v \in THREADS, d \in CPUS : d # c => (spl'[v] = d <=> spl[v] = d)
    BY <1>5, <1>8, ConstantFacts
  <2>4. Locks(c, t, y)
    BY <2>2, <2>3 DEF Locks
  <2>5. UNCHANGED <<current, phase, rel>>
    BY DEF cpuVars
  <2> QED
    BY <1>1, <1>7, <1>9, <2>4, <2>5, StatusKeep
<1>12. \A v \in THREADS : v # t => Doing(v)' = Doing(v) /\ arg'[v] = arg[v]
  BY <1>7, <1>9, ConstantFacts DEF Moves, OnlyArg
<1>13. ASSUME NEW v \in THREADS, v # t, Doing(v) \in Waking \cup Forking
       PROVE  arg[v] # u
  <2> SUFFICES ASSUME arg[v] = u
               PROVE  FALSE
    OBVIOUS
  <2>1. CASE Doing(v) \in Waking
    <3>1. PICK d \in CPUS : current[d] = v /\ phase[d] = "run"
      BY <2>1 DEF KIInv, StatusLockInv, Guarding, Waking
    <3>2. spl[u] = d
      BY <2>1, <3>1 DEF KIInv, StatusLockInv, HoldsStatus, Waking
    <3>3. Off(u)
      BY <2>1 DEF KIInv, ArgInv, ArgOK
    <3> QED
      BY <1>1, <1>4, <1>5, <1>13, <3>1, <3>2, <3>3 DEF Off, Dead
  <2>2. CASE Doing(v) \in Forking
    <3>1. Dead(u)
      BY <2>2 DEF KIInv, ArgInv, ArgOK
    <3>2. l = "fk_go"
      BY <1>4, <3>1 DEF Off, Dead
    <3> QED
      BY <1>1, <1>3, <1>13, <2>2, <3>2 DEF KIInv, ArgInv, Forking
  <2> QED
    BY <1>13, <2>1, <2>2
<1>14. y \notin {"yt_find", "fk_go", "ds_sel"} \cup Waking \cup Killing \cup Forking
       /\ Doing(t)' = y
  BY <1>9 DEF Waking, Killing, Forking, Moves
<1>15. ArgInv'
  <2>1. ASSUME NEW v \in THREADS
        PROVE  ArgOK(v)'
    <3>1. CASE v = t
      BY <1>14, <3>1 DEF ArgOK
    <3>2. CASE v # t
      <4>1. ArgOK(v) /\ Doing(v)' = Doing(v) /\ arg'[v] = arg[v]
        BY <1>12, <3>2 DEF KIInv, ArgInv
      <4>2. Doing(v) \in Waking \cup Forking =>
              /\ status'[arg[v]] = "DEAD" <=> status[arg[v]] = "DEAD"
              /\ status'[arg[v]] = "DESCHEDULED" <=> status[arg[v]] = "DESCHEDULED"
        BY <1>9, <1>13, <3>2, <4>1 DEF ArgOK, Dead, Off
      <4> QED
        BY <4>1, <4>2 DEF ArgOK, Dead, Off
    <3> QED
      BY <3>1, <3>2
  <2>2. ASSUME NEW v \in THREADS, NEW w \in THREADS, Doing(v)' \in Forking,
               Doing(w)' \in Forking, arg'[v] = arg'[w]
        PROVE  v = w
    BY <1>12, <1>14, <2>2 DEF KIInv, ArgInv
  <2> QED
    BY <2>1, <2>2 DEF ArgInv
<1>16. TreeInv'
  <2>1. ASSUME NEW v \in THREADS
        PROVE  TreeOK(v)'
    <3>1. TreeOK(v)
      BY DEF KIInv, TreeInv
    <3>2. CASE v = t
      <4>1. v # u /\ (Dead(v)' <=> Dead(v)) /\ Doing(v) = l /\ Doing(v)' = y
        BY <1>1, <1>9, <1>14, <3>2
      <4>2. l \notin Exiting /\ y \notin Exiting /\ y \notin {"vn_left", "vn_die"}
        BY DEF Exiting
      <4> QED
        BY <3>1, <4>1, <4>2 DEF TreeOK
    <3>3. CASE v = u
      BY <1>4, <1>9, <1>12, <3>1, <3>3 DEF TreeOK
    <3>4. CASE v # t /\ v # u
      BY <1>9, <1>12, <3>1, <3>4 DEF TreeOK
    <3> QED
      BY <3>2, <3>3, <3>4
  <2> QED
    BY <2>1 DEF TreeInv
<1>17. WakeInv'
  <2>1. ASSUME NEW v \in THREADS, Asleep(v)'
        PROVE  Asleep(v) /\ arg[t] # v
    <3>1. CASE v = u
      <4>1. Doing(u)' = "user"
        BY <1>4, <1>9, <1>12, GoneIdle
      <4> QED
        BY <1>9, <2>1, <3>1, <4>1 DEF Asleep
    <3>2. CASE v # u
      BY <1>3, <1>9, <1>12, <1>14, <2>1, <3>2 DEF Asleep
    <3> QED
      BY <3>1, <3>2
  <2> QED
    BY <1>7, <1>9, <2>1, WakeMove
<1> QED
  BY <1>9, <1>10, <1>11, <1>15, <1>16, <1>17 DEF KIInv

\* make_runnable, task_vanish and thread_fork insert the thread.
LEMMA InsertInv ==
  ASSUME KIInv, NEW c \in CPUS, NEW t \in THREADS,
         MakeRunnableGo(c, t) \/ TaskVanishWake(c, t) \/ ForkGo(c, t)
  PROVE  KIInv'
<1>1. CASE MakeRunnableGo(c, t)
  BY <1>1, GoStep DEF MakeRunnableGo, InsertAndRelease, Goto
<1>2. CASE TaskVanishWake(c, t)
  BY <1>2, GoStep DEF TaskVanishWake, InsertAndRelease, Goto
<1>3. CASE ForkGo(c, t)
  BY <1>3, GoStep DEF ForkGo, Goto
<1> QED
  BY <1>1, <1>2, <1>3

\* Nothing changes but flags that are cleared.
LEMMA StutterInv ==
  ASSUME KIInv, UNCHANGED <<vars, tree, members, pending, arg, todo, freed>>,
         reject' \in [THREADS -> BOOLEAN], \A u \in THREADS : reject'[u] => reject[u]
  PROVE  KIInv'
<1>1. IInv'
  BY NextInv DEF KIInv
<1>2. /\ UNCHANGED <<spl, current, phase, next, rel, ready, status, saved>>
      /\ UNCHANGED <<locked, waiters, held, pc, mtx, wait, ret, timers, due>>
      /\ UNCHANGED <<tree, members, pending, arg, todo, freed>>
  BY DEF vars, cpuVars, runVars, syncVars, pcVars, timeVars
<1>3. /\ \A u : Doing(u)' = Doing(u) /\ (Dead(u)' <=> Dead(u)) /\ (Off(u)' <=> Off(u))
      /\ \A c, u : HoldsStatus(c, u)' <=> HoldsStatus(c, u)
  BY <1>2 DEF Doing, HoldsStatus, Dead, Off
<1>4. KTypeOK'
  BY <1>1, <1>2 DEF KIInv, KTypeOK, IInv
<1>5. LabelInv'
  BY <1>2, <1>3 DEF KIInv, LabelInv, LabelOK, KthreadOK
<1>6. StatusLockInv'
  BY <1>2, <1>3 DEF KIInv, StatusLockInv
<1>7. ArgInv' /\ TreeInv'
  BY <1>2, <1>3 DEF KIInv, ArgInv, ArgOK, TreeInv, TreeOK
<1>8. RestInv'
  BY <1>2, <1>3 DEF KIInv, RestInv
<1>9. WakeInv'
  BY <1>2, <1>3 DEF KIInv, WakeInv, Asleep
<1> QED
  BY <1>1, <1>4, <1>5, <1>6, <1>7, <1>8, <1>9 DEF KIInv

\* deschedule returns at once and the user code clears the flag.
LEMMA DescheduleRejectedInv ==
  ASSUME KIInv, NEW c \in CPUS, NEW t \in THREADS, DescheduleRejected(c, t)
  PROVE  KIInv'
<1>1. /\ reject' = [reject EXCEPT ![t] = FALSE]
      /\ UNCHANGED <<vars, tree, members, pending, arg, todo, freed>>
  BY DEF DescheduleRejected
<1>2. reject' \in [THREADS -> BOOLEAN] /\ \A u \in THREADS : reject'[u] => reject[u]
  BY <1>1 DEF KIInv, KTypeOK
<1> QED
  BY <1>1, <1>2, StutterInv

\* deschedule marks its thread as descheduled and leaves the CPU, whose next
\* thread releases the status_lock.
LEMMA DescheduleBlockInv ==
  ASSUME KIInv, NEW c \in CPUS, NEW t \in THREADS, DescheduleBlock(c, t)
  PROVE  KIInv'
<1>1. /\ At(c, t, "ds_sel") /\ current[c] = t /\ phase[c] = "run" /\ pc[t] = "ds_sel"
      /\ ret[t] = "run" /\ held[t] = {} /\ Doing(t) = "ds_sel" /\ ~Dead(t) /\ t \in AllThreads
      /\ Free(ReadyLock) /\ SelectNext(c, ready) /\ YieldTo(c, t)
      /\ status' = [status EXCEPT ![t] = "DESCHEDULED"]
      /\ pc' = [pc EXCEPT ![t] = "run"] /\ t \in SPLS /\ t \notin GUARDS
      /\ UNCHANGED <<spl, saved, syncVars, mtx, wait, ret, timeVars>>
      /\ UNCHANGED <<tree, members, pending, reject, arg, todo, freed>>
  <2>1. At(c, t, "ds_sel") /\ "ds_sel" \in CallLabels /\ "ds_sel" # "run"
    BY DEF DescheduleBlock, CallLabels
  <2> QED
    BY <2>1, Running, NeedsFacts, ConstantFacts DEF DescheduleBlock, Goto, callVars
<1>2. /\ \A u \in AllThreads :
           /\ u # t => pc'[u] = pc[u]
           /\ mtx'[u] = mtx[u] /\ wait'[u] = wait[u] /\ ret'[u] = ret[u]
           /\ held'[u] = held[u]
      /\ pc'[t] = "run" /\ ret'[t] = "run" /\ held'[t] = {}
  BY <1>1 DEF KIInv, IInv, TypeOK, syncVars
<1>3. /\ Off(t)' /\ ~Dead(t)'
      /\ \A u \in THREADS : u # t => (Dead(u)' <=> Dead(u)) /\ (Off(u)' <=> Off(u))
  BY <1>1, ConstantFacts DEF KIInv, IInv, TypeOK, Off, Dead
<1>4. Moves(t, "ds_sel", "user")
  BY <1>1, <1>2, LabelFacts DEF Moves, Doing
<1>5. current' = current /\ phase'[c] = "switch" /\ rel'[c] = t
      /\ \A d \in CPUS : d # c => phase'[d] = phase[d] /\ rel'[d] = rel[d]
  BY <1>1 DEF YieldTo, KIInv, IInv, TypeOK
<1>6. IInv'
  <2> USE DEF KIInv, IInv
  <2>1. TypeOK'
    BY <1>1, BlockFacts DEF TypeOK, Labels, Status, syncVars, timeVars
  <2>2. ~InCvWait(t) /\ ~InCvWait(t)' /\ ~Busy(t)'
    BY <1>1, <1>2 DEF Busy, InCvWait
  <2>3. MachineInv'
    <3>1. \A k \in GUARDS : ThreadHolds(t, k) <=> k = t
      BY <1>1, <2>2 DEF ThreadHolds
    <3>2. \A r \in QUEUES : LeavingVia(c, r) <=> r = t
      BY <1>1, <2>2, ConstantFacts DEF LeavingVia
    <3>3. pc[t] = "sl_sel" <=> t = TimerLock
      BY <1>1, ConstantFacts
    <3>4. \A u \in THREADS : /\ Dead(u)' <=> Dead(u)
                             /\ Off(u)' <=> Off(u) \/ u = t
      BY <1>1, <1>3
    <3> QED
      BY <1>1, <1>2, <2>2, <3>1, <3>2, <3>3, <3>4, LeaveStep DEF syncVars, timeVars
  <2>4. PcInv'
    <3>1. t \notin IdleThreads \cup KThreads
      BY ConstantFacts
    <3> QED
      BY <1>1, <1>2, <2>2, <3>1 DEF PcInv, InCvWait, syncVars
  <2>5. WaiterInv'
    BY <1>1, <1>2, WaiterFrame DEF syncVars
  <2>6. OwnInv'
    BY <1>1, <1>2, OwnFrame DEF syncVars
  <2> QED
    BY <2>1, <2>3, <2>4, <2>5, <2>6 DEF MachineInv
<1>7. KTypeOK'
  BY <1>1, <1>6 DEF KIInv, KTypeOK, IInv
<1>8. LabelInv'
  <2>1. \A u \in THREADS : LabelOK(u)'
    <3>1. LabelOK(t)'
      BY <1>2, <1>4, LabelFacts DEF LabelOK, Moves
    <3>2. ASSUME NEW u \in THREADS, u # t
          PROVE  LabelOK(u)'
      <4>1. /\ u \in AllThreads /\ Doing(u)' = Doing(u)
            /\ pc'[u] = pc[u] /\ mtx'[u] = mtx[u] /\ ret'[u] = ret[u] /\ held'[u] = held[u]
        BY <1>2, <1>4, <3>2, ConstantFacts DEF Moves
      <4> QED
        BY <4>1 DEF KIInv, LabelInv, LabelOK
    <3> QED
      BY <3>1, <3>2
  <2>2. ASSUME NEW d \in CPUS
        PROVE  KthreadOK(d)'
    <3>1. kthread[d] \in AllThreads /\ kthread[d] # t
      BY ConstantFacts
    <3> QED
      BY <1>1, <1>2, <1>5, <3>1 DEF KIInv, LabelInv, KthreadOK
  <2> QED
    BY <2>1, <2>2 DEF LabelInv
<1>9. StatusLockInv'
  <2>1. \A u \in THREADS : spl[u] = c <=> u = t
    BY <1>1 DEF KIInv, StatusLockInv, HoldsStatus
  <2>2. ASSUME NEW u \in THREADS
        PROVE  HoldsStatus(c, u)' <=> u = t
    BY <1>5 DEF HoldsStatus
  <2>3. ASSUME NEW d \in CPUS, d # c, NEW u \in THREADS
        PROVE  HoldsStatus(d, u)' <=> HoldsStatus(d, u)
    BY <1>1, <1>4, <1>5, <2>3, OtherLocks DEF Moves
  <2>4. ASSUME NEW v \in THREADS, Doing(v)' \in Guarding
        PROVE  \E d \in CPUS : current'[d] = v /\ phase'[d] = "run"
    <3>1. v # t /\ Doing(v) \in Guarding
      BY <1>4, <2>4, ConstantFacts DEF Moves, Guarding
    <3>2. PICK d \in CPUS : current[d] = v /\ phase[d] = "run"
      BY <3>1 DEF KIInv, StatusLockInv
    <3> QED
      BY <1>1, <1>5, <3>1, <3>2
  <2> QED
    BY <1>1, <2>1, <2>2, <2>3, <2>4 DEF KIInv, StatusLockInv
<1>10. \A u \in THREADS : u # t => Doing(u)' = Doing(u)
  BY <1>4, ConstantFacts DEF Moves
<1>11. Doing(t)' = "user" /\ arg' = arg /\ freed' = freed
  BY <1>1, <1>4 DEF Moves
<1>12. ArgInv'
  <2>1. ASSUME NEW v \in THREADS
        PROVE  ArgOK(v)'
    <3>1. CASE v = t
      BY <1>11, <3>1 DEF ArgOK, Waking, Killing, Forking
    <3>2. CASE v # t
      <4>1. ArgOK(v) /\ Doing(v)' = Doing(v)
        BY <1>10, <3>2 DEF KIInv, ArgInv
      <4>2. Doing(v) \in Forking => arg[v] \in THREADS /\ arg[v] # t
        BY <1>1, <4>1 DEF ArgOK
      <4>3. Doing(v) \in Waking => arg[v] \in THREADS /\ Off(arg[v])
        BY <4>1 DEF ArgOK
      <4>4. Doing(v) \in Waking => status'[arg[v]] = "DESCHEDULED"
        BY <1>3, <4>3 DEF Off
      <4>5. Doing(v) \in Forking => status'[arg[v]] = "DEAD"
        BY <1>3, <4>1, <4>2 DEF Dead, ArgOK
      <4> QED
        BY <1>1, <1>11, <4>1, <4>2, <4>4, <4>5 DEF ArgOK, Dead, Off
    <3> QED
      BY <3>1, <3>2
  <2>2. ASSUME NEW v \in THREADS, NEW w \in THREADS, Doing(v)' \in Forking,
               Doing(w)' \in Forking, arg'[v] = arg'[w]
        PROVE  v = w
    <3>1. v # t /\ w # t
      BY <1>11, <2>2 DEF Forking
    <3> QED
      BY <1>10, <1>11, <2>2, <3>1 DEF KIInv, ArgInv
  <2> QED
    BY <2>1, <2>2 DEF ArgInv
<1>13. RestInv'
  <2>1. ASSUME NEW u \in THREADS, Dead(u)' \/ Off(u)'
        PROVE  /\ pc'[u] = "run" /\ ret'[u] = "run" /\ held'[u] = {}
               /\ u \in freed' \/ ~Dead(u)' \/ saved'[u]
    <3>1. CASE u = t
      BY <1>2, <1>3, <3>1
    <3>2. CASE u # t
      BY <1>1, <1>2, <1>3, <2>1, <3>2, ConstantFacts DEF KIInv, RestInv
    <3> QED
      BY <3>1, <3>2
  <2> QED
    BY <2>1 DEF RestInv
<1>14. TreeInv'
  <2>1. ASSUME NEW u \in THREADS
        PROVE  TreeOK(u)'
    <3>1. TreeOK(u)
      BY DEF KIInv, TreeInv
    <3>2. CASE u = t
      BY <1>1, <1>11, <3>1, <3>2 DEF TreeOK, Exiting
    <3>3. CASE u # t
      BY <1>1, <1>3, <1>10, <3>1, <3>3 DEF TreeOK
    <3> QED
      BY <3>2, <3>3
  <2> QED
    BY <2>1 DEF TreeInv
<1>15. WakeInv'
  <2>1. ASSUME NEW u \in THREADS, Asleep(u)'
        PROVE  Asleep(u)
    BY <1>1, <1>3, <1>10, <2>1 DEF Asleep
  <2>2. OnlyArg(t)
    BY <1>11 DEF OnlyArg
  <2>3. \A u \in THREADS : Asleep(u)' =>
           /\ reject'[u] => Asleep(u) /\ reject[u] /\ ~("ds_sel" \in ForFlag /\ arg[t] = u)
           /\ pending'[u] => Asleep(u) /\ pending[u] /\ ~("ds_sel" \in ForExit /\ arg[t] = u)
    BY <1>1, <2>1 DEF ForFlag, ForExit
  <2> QED
    BY <1>4, <2>2, <2>3, WakeMove
<1> QED
  BY <1>6, <1>7, <1>8, <1>9, <1>12, <1>13, <1>14, <1>15 DEF KIInv

\* The kthread of a CPU that runs another thread waits in its loop.
LEMMA KthreadIdle ==
  ASSUME KIInv, NEW c \in CPUS, current[c] # kthread[c]
  PROVE  /\ pc[kthread[c]] = "kloop" /\ ret[kthread[c]] = "run" /\ held[kthread[c]] = {}
         /\ kthread[c] \in AllThreads /\ kthread[c] \notin THREADS
         /\ \A d \in CPUS : current[d] # kthread[c]
<1>1. kthread[c] \in AllThreads /\ kthread[c] \notin THREADS /\ kthread[c] \in KThreads
  BY ConstantFacts
<1>2. pc[kthread[c]] = "kloop" /\ held[kthread[c]] = {}
  BY DEF KIInv, LabelInv, KthreadOK
<1>3. ret[kthread[c]] = "run"
  BY <1>1, <1>2 DEF KIInv, IInv, PcInv
<1>4. \A d \in CPUS : current[d] # kthread[c]
  BY <1>1, ConstantFacts DEF KIInv, IInv, CpuInv
<1> QED
  BY <1>1, <1>2, <1>3, <1>4

\* Thread t of CPU c dies: the CPU goes on with its kthread, which unlocks
\* malloc_lock for t.
LEMMA VanishDieInv ==
  ASSUME KIInv, NEW c \in CPUS, NEW t \in THREADS, VanishDie(c, t)
  PROVE  KIInv'
<1> DEFINE k == kthread[c]
<1>1. /\ current[c] = t /\ phase[c] = "run" /\ pc[t] = "vn_die" /\ t \in AllThreads
      /\ ret[t] = "run" /\ ~Busy(t) /\ ~InCvWait(t) /\ Doing(t) = "vn_die"
      /\ held[t] = {MallocLock} /\ ~Dead(t) /\ ~Off(t)
      /\ \A q \in QUEUES : t \notin Waiting(q)
      /\ t \notin Range(ready) \cup timers
  <2>1. At(c, t, "vn_die") /\ "vn_die" \in CallLabels /\ "vn_die" # "run"
    BY DEF VanishDie, CallLabels
  <2> QED
    BY <2>1, Running, NeedsFacts DEF At
<1>2. /\ pc[k] = "kloop" /\ ret[k] = "run" /\ held[k] = {} /\ k \in AllThreads
      /\ k \notin THREADS /\ k # t /\ k \in KThreads /\ \A d \in CPUS : current[d] # k
      /\ MallocLock \in MUTEXES
  BY <1>1, KthreadIdle, ConstantFacts, NeedsFacts
<1>3. /\ current' = [current EXCEPT ![c] = k]
      /\ status' = [status EXCEPT ![t] = "DEAD"]
      /\ saved' = [saved EXCEPT ![k] = FALSE]
      /\ freed' = freed \cup {t}
      /\ held' = [held EXCEPT ![t] = {}, ![k] = {MallocLock}]
      /\ pc' = [pc EXCEPT ![k] = "ul", ![t] = "run"]
      /\ mtx' = [mtx EXCEPT ![k] = MallocLock]
      /\ ret' = [ret EXCEPT ![k] = "kloop"]
      /\ UNCHANGED <<spl, phase, next, rel, ready, locked, waiters, wait, timers, due>>
      /\ UNCHANGED <<tree, members, pending, reject, arg, todo>>
  BY DEF VanishDie, timeVars
<1>4. TypeOK
  BY DEF KIInv, IInv
<1>5. TypeOK'
  BY <1>2, <1>3, <1>4 DEF TypeOK, Labels, Status
<1>6. /\ \A u \in AllThreads : u # t /\ u # k =>
           pc'[u] = pc[u] /\ mtx'[u] = mtx[u] /\ ret'[u] = ret[u] /\ held'[u] = held[u]
      /\ \A u \in AllThreads : u # k => saved'[u] = saved[u] /\ ret'[u] = ret[u]
      /\ wait' = wait
      /\ pc'[t] = "run" /\ ret'[t] = "run" /\ held'[t] = {}
      /\ pc'[k] = "ul" /\ mtx'[k] = MallocLock /\ ret'[k] = "kloop"
      /\ held'[k] = {MallocLock} /\ ~saved'[k]
  BY <1>1, <1>2, <1>3, <1>4 DEF TypeOK
<1>7. /\ current'[c] = k
      /\ \A d \in CPUS : d # c => current'[d] = current[d] /\ current[d] # t
      /\ \A d \in CPUS : current'[d] # t
  BY <1>1, <1>2, <1>3, <1>4 DEF KIInv, IInv, CpuInv, TypeOK
<1>8. /\ Dead(t)' /\ ~Off(t)'
      /\ \A u \in THREADS : u # t => (Dead(u)' <=> Dead(u)) /\ (Off(u)' <=> Off(u))
  BY <1>1, <1>3, <1>4, ConstantFacts DEF TypeOK, Off, Dead
<1>9. ASSUME NEW u \in AllThreads
      PROVE  /\ InCvWait(u)' <=> InCvWait(u)
             /\ Busy(u)' <=> Busy(u)
             /\ \A l \in GUARDS : ThreadHolds(u, l)' <=> ThreadHolds(u, l)
             /\ u = t \/ u = k => ~Busy(u) /\ (\A l \in GUARDS : ~ThreadHolds(u, l))
  <2>1. CASE u = t \/ u = k
    BY <1>1, <1>2, <1>6, <2>1 DEF InCvWait, Busy, ThreadHolds
  <2>2. CASE u # t /\ u # k
    BY <1>6, <2>2 DEF InCvWait, Busy, ThreadHolds
  <2> QED
    BY <2>1, <2>2
<1>10. \A q : Waiting(q)' = Waiting(q)
  BY <1>3 DEF Waiting
<1>11. IInv'
  <2> USE DEF KIInv
  <2>1. SpinInv'
    <3>1. ASSUME NEW d \in CPUS, NEW l \in GUARDS
          PROVE  Holds(d, l)' <=> Holds(d, l)
      <4>1. CASE d = c
        BY <1>1, <1>2, <1>3, <1>7, <1>9, <4>1 DEF Holds
      <4>2. CASE d # c
        <5>1. current'[d] = current[d] /\ current[d] \in AllThreads
          BY <1>4, <1>7, <4>2 DEF TypeOK
        <5> QED
          BY <1>3, <1>9, <5>1 DEF Holds
      <4> QED
        BY <4>1, <4>2
    <3> QED
      BY <1>3, <3>1 DEF IInv, SpinInv
  <2>2. BusyInv'
    <3>1. ASSUME NEW u \in AllThreads, Busy(u)'
          PROVE  \E d \in CPUS : current'[d] = u /\ phase'[d] = "run"
      <4>1. Busy(u) /\ u # t
        BY <1>9, <3>1
      <4>2. PICK d \in CPUS : current[d] = u /\ phase[d] = "run"
        BY <4>1 DEF IInv, BusyInv
      <4>3. d # c
        BY <1>1, <4>1, <4>2
      <4> QED
        BY <1>3, <1>7, <4>2, <4>3
    <3> QED
      BY <3>1 DEF BusyInv
  <2>3. CpuInv'
    <3>1. \A d, e \in CPUS : current'[d] = current'[e] => d = e
      BY <1>2, <1>7 DEF IInv, CpuInv
    <3>2. ASSUME NEW d \in CPUS
          PROVE  /\ current'[d] \in THREADS \cup {idle[d], kthread[d]}
                 /\ phase[d] \in {"tick", "timers", "preempt"} => current'[d] \notin KThreads
                 /\ phase[d] = "switch" => \A e \in CPUS : current'[e] = next[d] => d = e
                 /\ phase[d] = "switch" /\ next[d] = current'[d] => rel[d] = ReadyLock
      <4>1. phase[d] = "switch" => next[d] # k
        BY <1>2, ConstantFacts DEF IInv, CpuInv
      <4> QED
        BY <1>1, <1>7, <4>1 DEF IInv, CpuInv
    <3> QED
      BY <1>3, <3>1, <3>2 DEF IInv, CpuInv
  <2>4. QueueInv'
    BY <1>3, <1>10 DEF IInv, QueueInv
  <2>5. k \notin Range(ready) \cup timers /\ \A q \in QUEUES : k \notin Waiting(q)
    <3>1. ready \in Seq(THREADS) /\ timers \subseteq THREADS /\ waiters \in [QUEUES -> Seq(THREADS)]
      BY <1>4 DEF TypeOK
    <3>2. Range(ready) \subseteq THREADS /\ \A q \in QUEUES : Range(waiters[q]) \subseteq THREADS
      BY <3>1 DEF Range
    <3> QED
      BY <1>2, <3>1, <3>2 DEF Waiting
  <2>6. CurrentInv'
    <3>1. ASSUME NEW d \in CPUS
          PROVE  /\ current'[d] \in Range(ready) => phase[d] = "switch" /\ rel[d] = ReadyLock
                 /\ phase[d] = "switch" /\ rel[d] = ReadyLock /\ current'[d] \in THREADS
                      => current'[d] \in Range(ready) \cup {next[d]}
                 /\ \A q \in QUEUES : current'[d] \in Waiting(q) <=> LeavingVia(d, q)'
                 /\ current'[d] \in timers <=>
                     \/ phase[d] = "switch" /\ rel[d] = TimerLock
                     \/ phase[d] = "run" /\ pc'[current'[d]] = "sl_sel"
      <4>1. CASE d = c
        <5>1. \A q \in QUEUES : ~LeavingVia(d, q)'
          BY <1>1, <1>2, <1>3, <1>6, <1>7, <4>1 DEF LeavingVia, InCvWait
        <5> QED
          BY <1>1, <1>6, <1>7, <2>5, <4>1, <5>1
      <4>2. CASE d # c
        <5>1. PICK u \in AllThreads : u = current[d] /\ u # t /\ u # k
          BY <1>2, <1>4, <1>7, <4>2 DEF TypeOK
        <5>2. /\ current'[d] = u /\ pc'[u] = pc[u] /\ mtx'[u] = mtx[u] /\ wait'[u] = wait[u]
              /\ InCvWait(u)' <=> InCvWait(u)
          BY <1>6, <1>7, <1>9, <4>2, <5>1
        <5>3. \A q : LeavingVia(d, q)' <=> LeavingVia(d, q)
          BY <1>3, <5>1, <5>2 DEF LeavingVia
        <5> QED
          BY <5>1, <5>2, <5>3 DEF IInv, CurrentInv
      <4> QED
        BY <4>1, <4>2
    <3> QED
      BY <1>3, <1>10, <3>1 DEF CurrentInv
  <2>7. \A d \in CPUS : phase[d] = "switch" => next[d] # t
    BY <1>1, Unlinked DEF IInv
  <2>8. GoneInv'
    <3>1. \A u \in THREADS : Dead(u)' \/ Off(u)' =>
            /\ u \notin Range(ready) \cup timers
            /\ \A q \in QUEUES : u \notin Waiting(q)
            /\ \A d \in CPUS : phase[d] = "switch" => next[d] # u
      BY <1>1, <1>8, <2>7 DEF IInv, GoneInv
    <3>2. \A d \in CPUS : current'[d] \in THREADS =>
            /\ ~Dead(current[d])' \/ d = c
            /\ d # c /\ current'[d] = current[d] /\ current[d] # t
      BY <1>2, <1>7, <1>8 DEF IInv, GoneInv
    <3>3. ASSUME NEW d \in CPUS, current'[d] \in THREADS
          PROVE  /\ status'[current'[d]] # "DEAD"
                 /\ status'[current'[d]] = "DESCHEDULED" =>
                      phase[d] = "switch" /\ rel[d] = current'[d]
      BY <1>8, <3>2, <3>3 DEF IInv, GoneInv, Dead, Off
    <3>4. ASSUME NEW d \in CPUS, phase[d] = "switch", rel[d] \in THREADS
          PROVE  /\ rel[d] = current'[d] /\ status'[current'[d]] = "DESCHEDULED"
      BY <1>1, <1>7, <1>8, <3>4 DEF IInv, GoneInv, Off
    <3> QED
      BY <1>3, <1>10, <3>1, <3>3, <3>4 DEF GoneInv, Dead, Off
  <2>9. LinkedInv'
    BY <1>1, <1>3, <1>7, <1>8, <1>10 DEF IInv, LinkedInv
  <2>10. SavedInv'
    <3>1. ASSUME NEW u \in AllThreads
          PROVE  /\ saved'[u] => \A d \in CPUS : current'[d] # u
                 /\ \/ saved'[u] \/ (u \in THREADS /\ status'[u] = "DEAD")
                    \/ \E d \in CPUS : current'[d] = u
      <4>1. CASE u = t
        BY <1>7, <1>8, <4>1 DEF Dead
      <4>2. CASE u = k
        BY <1>6, <1>7, <4>2
      <4>3. CASE u # t /\ u # k
        BY <1>1, <1>6, <1>7, <1>8, <4>3 DEF IInv, SavedInv, Dead
      <4> QED
        BY <4>1, <4>2, <4>3
    <3> QED
      BY <3>1 DEF SavedInv, Dead
  <2>11. PcInv'
    <3>1. \A u \in AllThreads : u # t /\ u # k =>
            pc'[u] = pc[u] /\ mtx'[u] = mtx[u] /\ ret'[u] = ret[u] /\ held'[u] = held[u]
      BY <1>6
    <3>2. "kloop" \in Resumes /\ "run" \in Resumes /\ "kloop" # "run" /\ "kloop" # "cw_sel"
      BY DEF Resumes, Labels
    <3>3. \A u \in AllThreads : InCvWait(u)' => InCvWait(u)
      BY <1>9
    <3>4. ~InCvWait(t)' /\ ~InCvWait(k)'
      BY <1>1, <1>6, <1>9 DEF InCvWait
    <3>5. t \notin IdleThreads \cup KThreads /\ k \notin IdleThreads
      BY <1>2, ConstantFacts
    <3>6. \A u \in AllThreads :
       /\ ret'[u] \in Resumes
       /\ ret'[u] # "run" => pc'[u] \in {"lk", "lk_sel", "lk_own", "ul", "ul_wake"}
       /\ ret'[u] = "cw_sel" => pc'[u] \in {"ul", "ul_wake"}
       /\ pc'[u] \in {"lk", "lk_sel", "lk_own"} => mtx'[u] \in MUTEXES
       /\ pc'[u] \in {"ul", "ul_wake"} => mtx'[u] \in MUTEXES /\ mtx'[u] \in held'[u]
       /\ pc'[u] = "sg_wake" => wait'[u] \in {<<q>> : q \in CVS}
      BY <1>2, <1>6, <3>1, <3>2 DEF IInv, PcInv
    <3>7. \A u \in AllThreads : InCvWait(u)' => wait'[u] \in CVS \X MUTEXES
      BY <1>6, <3>3 DEF IInv, PcInv
    <3>8. /\ \A u \in IdleThreads : pc'[u] = "run"
          /\ \A u \in KThreads :
                pc'[u] = "kloop" \/ (pc'[u] \in {"ul", "ul_wake"} /\ ret'[u] = "kloop")
          /\ \A u \in THREADS : pc'[u] # "kloop" /\ ret'[u] # "kloop"
      BY <1>2, <1>6, <3>1, <3>5, ConstantFacts DEF IInv, PcInv
    <3> QED
      BY <3>6, <3>7, <3>8 DEF PcInv
  <2>12. WaiterInv'
    <3>1. \A m \in MUTEXES : t \notin Waiting(m) /\ k \notin Waiting(m) /\ Waiting(m) \subseteq AllThreads
      <4>1. \A m \in MUTEXES : m \in QUEUES /\ waiters[m] \in Seq(THREADS)
        BY <1>4, ConstantFacts DEF TypeOK
      <4>2. \A m \in MUTEXES : Waiting(m) \subseteq THREADS
        BY <4>1 DEF Waiting, Range
      <4> QED
        BY <1>1, <1>2, <4>1, <4>2, ConstantFacts
    <3>2. \A u \in AllThreads : pc'[u] \in {"ul_wake", "sg_wake", "lk_sel", "lk_own"} =>
             pc'[u] = pc[u] /\ mtx'[u] = mtx[u] /\ wait'[u] = wait[u]
      BY <1>6
    <3>3. \A u \in AllThreads :
             /\ pc'[u] = "ul_wake" => waiters'[mtx'[u]] # <<>>
             /\ pc'[u] = "sg_wake" => waiters'[wait'[u][1]] # <<>>
      <4>1. ASSUME NEW u \in AllThreads, pc'[u] = "ul_wake"
            PROVE  waiters'[mtx'[u]] # <<>>
        BY <1>3, <3>2, <4>1 DEF IInv, WaiterInv
      <4>2. ASSUME NEW u \in AllThreads, pc'[u] = "sg_wake"
            PROVE  waiters'[wait'[u][1]] # <<>>
        BY <1>3, <3>2, <4>2 DEF IInv, WaiterInv
      <4> QED
        BY <4>1, <4>2
    <3>4. \A m \in MUTEXES : \A u \in Waiting(m) : pc'[u] \in {"lk_sel", "lk_own"} /\ mtx'[u] = m
      BY <1>6, <3>1 DEF IInv, WaiterInv
    <3> QED
      BY <1>10, <3>3, <3>4 DEF WaiterInv
  <2>13. OwnInv'
    <3>1. ASSUME NEW m \in MUTEXES, NEW u \in AllThreads
          PROVE  Owns(u, m)' <=> (Owns(u, m) /\ u # t) \/ (u = k /\ m = MallocLock)
      <4>1. CASE u = t
        BY <1>2, <1>6, <4>1 DEF Owns
      <4>2. CASE u = k
        BY <1>2, <1>6, <4>2 DEF Owns
      <4>3. CASE u # t /\ u # k
        BY <1>6, <1>10, <4>3 DEF Owns
      <4> QED
        BY <4>1, <4>2, <4>3
    <3>2. \A m \in MUTEXES : Owns(t, m) <=> m = MallocLock
      BY <1>1 DEF Owns
    <3>3. locked'[MallocLock] = locked[MallocLock] /\ locked[MallocLock]
      BY <1>1, <1>2, <1>3, <3>2 DEF IInv, OwnInv
    <3>4. ASSUME NEW m \in MUTEXES
          PROVE  /\ ~locked'[m] => waiters'[m] = <<>> /\ \A u \in AllThreads : ~Owns(u, m)'
                 /\ locked'[m] => \E u \in AllThreads : Owns(u, m)'
                 /\ \A u, v \in AllThreads : Owns(u, m)' /\ Owns(v, m)' => u = v
      <4>1. CASE m = MallocLock
        BY <1>1, <1>2, <1>3, <3>1, <3>2, <3>3, <4>1 DEF IInv, OwnInv
      <4>2. CASE m # MallocLock
        BY <1>1, <1>2, <1>3, <3>1, <3>2, <3>3, <4>2 DEF IInv, OwnInv
      <4> QED
        BY <4>1, <4>2
    <3> QED
      BY <3>4 DEF OwnInv
  <2> QED
    BY <1>5, <2>1, <2>2, <2>3, <2>4, <2>6, <2>8, <2>9, <2>10, <2>11, <2>12, <2>13 DEF IInv
<1>12. KTypeOK'
  BY <1>3, <1>5 DEF KIInv, KTypeOK
<1>13. /\ Doing(t)' = "user" /\ Doing(k) = "user" /\ Doing(k)' = "user"
       /\ \A u \in AllThreads : u # t => Doing(u)' = Doing(u)
  BY <1>2, <1>6, LabelFacts DEF Doing
<1>14. \A u \in THREADS : u # t => u \in AllThreads /\ u # k /\ Doing(u)' = Doing(u)
  BY <1>2, <1>13, ConstantFacts
<1>15. LabelInv'
  <2>1. ASSUME NEW u \in THREADS
        PROVE  LabelOK(u)'
    <3>1. CASE u = t
      BY <1>6, <1>13, <3>1, LabelFacts DEF LabelOK, CallLabels
    <3>2. CASE u # t
      BY <1>6, <1>14, <3>2 DEF KIInv, LabelInv, LabelOK
    <3> QED
      BY <3>1, <3>2
  <2>2. ASSUME NEW d \in CPUS
        PROVE  KthreadOK(d)'
    <3>1. CASE d = c
      <4>1. held'[k] = (IF pc'[k] = "kloop" THEN {} ELSE {mtx'[k]})
        BY <1>6
      <4>2. current'[c] = k /\ phase'[c] = "run"
        BY <1>1, <1>3, <1>7
      <4> QED
        BY <3>1, <4>1, <4>2 DEF KthreadOK
    <3>2. CASE d # c
      <4>1. kthread[d] \in AllThreads /\ kthread[d] # t /\ kthread[d] # k
        BY <3>2, ConstantFacts
      <4> QED
        <5>1. /\ pc'[kthread[d]] = pc[kthread[d]] /\ mtx'[kthread[d]] = mtx[kthread[d]]
              /\ held'[kthread[d]] = held[kthread[d]]
              /\ current'[d] = current[d] /\ phase' = phase
          BY <1>3, <1>6, <1>7, <3>2, <4>1
        <5>2. KthreadOK(d)
          BY DEF KIInv, LabelInv
        <5> QED
          BY <5>1, <5>2 DEF KthreadOK
    <3> QED
      BY <3>1, <3>2
  <2> QED
    BY <2>1, <2>2 DEF LabelInv
<1>16. StatusLockInv'
  <2>1. ASSUME NEW u \in THREADS
        PROVE  ~HoldsStatus(c, u) /\ ~HoldsStatus(c, u)'
    BY <1>1, <1>3, <1>7, <1>13 DEF HoldsStatus
  <2>2. ASSUME NEW d \in CPUS, d # c, NEW u \in THREADS
        PROVE  HoldsStatus(d, u)' <=> HoldsStatus(d, u)
    BY <1>1, <1>3, <1>7, <1>13, <2>2, OtherLocks
  <2>3. ASSUME NEW v \in THREADS, Doing(v)' \in Guarding
        PROVE  \E d \in CPUS : current'[d] = v /\ phase'[d] = "run"
    <3>1. v # t /\ Doing(v) \in Guarding
      BY <1>13, <1>14, <2>3 DEF Guarding
    <3>2. PICK d \in CPUS : current[d] = v /\ phase[d] = "run"
      BY <3>1 DEF KIInv, StatusLockInv
    <3> QED
      BY <1>1, <1>3, <1>7, <3>1, <3>2
  <2> QED
    BY <1>3, <2>1, <2>2, <2>3 DEF KIInv, StatusLockInv
<1>17. ArgInv'
  <2>1. ASSUME NEW v \in THREADS
        PROVE  ArgOK(v)'
    <3>1. CASE v = t
      BY <1>13, <3>1 DEF ArgOK, Waking, Killing, Forking
    <3>2. CASE v # t
      <4>1. ArgOK(v) /\ Doing(v)' = Doing(v) /\ arg'[v] = arg[v]
        BY <1>3, <1>14, <3>2 DEF KIInv, ArgInv
      <4>2. Doing(v) \in Waking \cup Forking => arg[v] \in THREADS /\ arg[v] # t
        BY <1>1, <4>1 DEF ArgOK
      <4>3. Doing(v) \in Waking \cup Forking =>
              /\ status'[arg[v]] = "DEAD" <=> status[arg[v]] = "DEAD"
              /\ status'[arg[v]] = "DESCHEDULED" <=> status[arg[v]] = "DESCHEDULED"
        BY <1>8, <4>2 DEF Dead, Off
      <4>4. Doing(v) \in Forking => arg[v] \notin freed'
        BY <1>3, <4>1, <4>2 DEF ArgOK
      <4> QED
        BY <1>3, <4>1, <4>3, <4>4 DEF ArgOK, Dead, Off
    <3> QED
      BY <3>1, <3>2
  <2>2. ASSUME NEW v \in THREADS, NEW w \in THREADS, Doing(v)' \in Forking,
               Doing(w)' \in Forking, arg'[v] = arg'[w]
        PROVE  v = w
    <3>1. v # t /\ w # t
      BY <1>13, <2>2 DEF Forking
    <3> QED
      BY <1>3, <1>14, <2>2, <3>1 DEF KIInv, ArgInv
  <2> QED
    BY <2>1, <2>2 DEF ArgInv
<1>18. RestInv'
  <2>1. ASSUME NEW u \in THREADS, Dead(u)' \/ Off(u)'
        PROVE  /\ pc'[u] = "run" /\ ret'[u] = "run" /\ held'[u] = {}
               /\ u \in freed' \/ ~Dead(u)' \/ saved'[u]
    <3>1. CASE u = t
      BY <1>3, <1>6, <3>1
    <3>2. CASE u # t
      <4>1. Dead(u) \/ Off(u)
        BY <1>8, <2>1, <3>2
      <4>2. /\ pc'[u] = pc[u] /\ ret'[u] = ret[u] /\ held'[u] = held[u]
            /\ saved'[u] = saved[u] /\ (Dead(u)' <=> Dead(u))
        BY <1>6, <1>8, <1>14, <3>2
      <4>3. u \in freed => u \in freed'
        BY <1>3
      <4> QED
        BY <4>1, <4>2, <4>3 DEF KIInv, RestInv
    <3> QED
      BY <3>1, <3>2
  <2> QED
    BY <2>1 DEF RestInv
<1>19. TreeInv'
  <2>1. ASSUME NEW u \in THREADS
        PROVE  TreeOK(u)'
    <3>1. TreeOK(u)
      BY DEF KIInv, TreeInv
    <3>2. CASE u = t
      BY <1>1, <1>3, <1>8, <1>13, <3>1, <3>2 DEF TreeOK, Exiting
    <3>3. CASE u # t
      BY <1>3, <1>8, <1>14, <3>1, <3>3 DEF TreeOK
    <3> QED
      BY <3>2, <3>3
  <2> QED
    BY <2>1 DEF TreeInv
<1>20. WakeInv'
  <2>1. ASSUME NEW u \in THREADS, Asleep(u)'
        PROVE  Asleep(u)
    BY <1>8, <1>13, <1>14, <2>1 DEF Asleep
  <2>2. OnlyArg(t) /\ Moves(t, "vn_die", "user")
    BY <1>1, <1>3, <1>13 DEF OnlyArg, Moves
  <2>3. \A u \in THREADS : Asleep(u)' =>
           /\ reject'[u] => Asleep(u) /\ reject[u] /\ ~("vn_die" \in ForFlag /\ arg[t] = u)
           /\ pending'[u] => Asleep(u) /\ pending[u] /\ ~("vn_die" \in ForExit /\ arg[t] = u)
    BY <1>3, <2>1 DEF ForFlag, ForExit
  <2> QED
    BY <2>2, <2>3, WakeMove
<1> QED
  BY <1>11, <1>12, <1>15, <1>16, <1>17, <1>18, <1>19, <1>20 DEF KIInv

\* yield(tid) finds no thread.
LEMMA NoTarget ==
  ASSUME KIInv, NEW c \in CPUS, NEW t \in THREADS, YieldToPick(c, t) \/ YieldToGo(c, t)
  PROVE  FALSE
<1>1. CASE YieldToPick(c, t)
  <2>1. At(c, t, "yt_find") /\ arg[t] \in tree /\ "yt_find" \in CallLabels /\ "yt_find" # "run"
    BY <1>1 DEF YieldToPick, CallLabels
  <2>2. Doing(t) = "yt_find"
    BY <2>1, Running
  <2>3. arg[t] = None
    BY <2>2 DEF KIInv, ArgInv, ArgOK
  <2> QED
    BY <2>1, <2>3, ConstantFacts DEF KIInv, KTypeOK
<1>2. CASE YieldToGo(c, t)
  <2>1. At(c, t, "yt_go") /\ "yt_go" \in CallLabels /\ "yt_go" # "run"
    BY <1>2 DEF YieldToGo, CallLabels
  <2>2. Doing(t) = "yt_go"
    BY <2>1, Running
  <2> QED
    BY <2>2 DEF KIInv, LabelInv, LabelOK
<1> QED
  BY <1>1, <1>2

-----------------------------------------------------------------------------
(* The steps of the scheduler *)

LEMMA SchedSame ==
  ASSUME KIInv, SameGone, UNCHANGED callVars,
         \A u \in AllThreads : Doing(u)' = Doing(u)
  PROVE  ArgInv' /\ TreeInv' /\ WakeInv'
<1>1. /\ \A u \in THREADS : Doing(u)' = Doing(u)
      /\ \A u \in THREADS : /\ status'[u] = "DEAD" <=> status[u] = "DEAD"
                            /\ status'[u] = "DESCHEDULED" <=> status[u] = "DESCHEDULED"
      /\ UNCHANGED <<tree, members, pending, reject, arg, todo, freed>>
  BY ConstantFacts DEF SameGone, Dead, Off, callVars
<1>2. \A u \in THREADS : ArgOK(u)'
  BY <1>1 DEF KIInv, ArgInv, ArgOK, Dead, Off
<1>3. ArgInv'
  BY <1>1, <1>2 DEF KIInv, ArgInv
<1>4. TreeInv'
  BY <1>1 DEF KIInv, TreeInv, TreeOK, Dead
<1>5. WakeInv'
  BY <1>1 DEF KIInv, WakeInv, Asleep, Off
<1> QED
  BY <1>3, <1>4, <1>5

\* A step of thread t, on CPU c, that touches no status_lock and leaves the CPU, if it
\* does, under another spinlock.
ThreadMove(c, t) ==
  /\ current[c] = t /\ phase[c] = "run" /\ UNCHANGED <<current, saved>>
  /\ \A u \in THREADS : spl'[u] = spl[u]
  /\ \A u \in AllThreads : u # t =>
       pc'[u] = pc[u] /\ mtx'[u] = mtx[u] /\ ret'[u] = ret[u] /\ held'[u] = held[u]
  /\ \A d \in CPUS : d # c => phase'[d] = phase[d] /\ rel'[d] = rel[d]
  /\ \/ phase'[c] = "run"
     \/ phase'[c] = "switch" /\ rel'[c] \in GUARDS /\ Doing(t) \notin Guarding

\* A mutex operation returns to its caller or goes on, or a thread outside the system
\* calls stays there.
Primitive(t) ==
  \/ /\ pc'[t] = ret[t] /\ ret'[t] = "run"
     /\ \/ pc[t] \in {"lk", "lk_own"} /\ held'[t] = held[t] \cup {mtx[t]}
        \/ pc[t] \in {"ul", "ul_wake"} /\ held'[t] = held[t] \ {mtx[t]}
  \/ /\ \/ pc[t] \in {"lk", "lk_sel"} /\ pc'[t] \in {"lk_sel", "lk_own"}
        \/ pc[t] = "ul" /\ pc'[t] = "ul_wake"
     /\ mtx'[t] = mtx[t] /\ ret'[t] = ret[t] /\ held'[t] = held[t]
  \/ {pc[t], ret[t], pc'[t], ret'[t]} \cap CallLabels = {}

LEMMA PrimitiveStep ==
  ASSUME KIInv, NEW t \in AllThreads, Primitive(t)
  PROVE  Doing(t)' = Doing(t) /\ (t \in THREADS => LabelOK(t)')
<1>1. CASE {pc[t], ret[t], pc'[t], ret'[t]} \cap CallLabels = {}
  <2>1. Doing(t) = "user" /\ Doing(t)' = "user"
    BY <1>1 DEF Doing
  <2>2. {"yt_go", "ds_sel", "tv_lock", "tv_wake"} \subseteq CallLabels
    BY DEF CallLabels
  <2> QED
    BY <1>1, <2>1, <2>2 DEF LabelOK
<1>2. CASE /\ pc'[t] = ret[t] /\ ret'[t] = "run"
           /\ \/ pc[t] \in {"lk", "lk_own"} /\ held'[t] = held[t] \cup {mtx[t]}
              \/ pc[t] \in {"ul", "ul_wake"} /\ held'[t] = held[t] \ {mtx[t]}
  <2>1. Doing(t)' = Doing(t)
    BY <1>2, LabelFacts DEF Doing
  <2>2. t \in THREADS => LabelOK(t)
    BY DEF KIInv, LabelInv
  <2>3. t \in THREADS /\ ret[t] \in CallLabels => held'[t] = Needs(ret[t])
    BY <1>2, <2>2 DEF LabelOK
  <2> QED
    BY <1>2, <2>1, <2>2, <2>3, LabelFacts DEF LabelOK
<1>3. CASE /\ \/ pc[t] \in {"lk", "lk_sel"} /\ pc'[t] \in {"lk_sel", "lk_own"}
              \/ pc[t] = "ul" /\ pc'[t] = "ul_wake"
           /\ mtx'[t] = mtx[t] /\ ret'[t] = ret[t] /\ held'[t] = held[t]
  <2>1. Doing(t)' = Doing(t) /\ pc'[t] \notin CallLabels
    BY <1>3, LabelFacts DEF Doing
  <2>2. t \in THREADS => LabelOK(t)
    BY DEF KIInv, LabelInv
  <2> QED
    BY <1>3, <2>1, <2>2, LabelFacts DEF LabelOK
<1> QED
  BY <1>1, <1>2, <1>3 DEF Primitive

\* Such a step keeps the invariant.
LEMMA ThreadStep ==
  ASSUME KIInv, IInv', SameGone, UNCHANGED callVars, NEW c \in CPUS, NEW t \in AllThreads,
         ThreadMove(c, t), Primitive(t), t = kthread[c] => KthreadOK(c)'
  PROVE  KIInv'
<1>1. /\ \A u \in AllThreads : Doing(u)' = Doing(u)
      /\ t \in THREADS => LabelOK(t)'
  <2>1. \A u \in AllThreads : u # t => Doing(u)' = Doing(u)
    BY DEF ThreadMove, Doing
  <2> QED
    BY <2>1, PrimitiveStep
<1>2. ArgInv' /\ TreeInv' /\ WakeInv'
  BY <1>1, SchedSame
<1>3. KTypeOK'
  BY DEF KIInv, KTypeOK, IInv, callVars
<1>4. LabelInv'
  <2>1. ASSUME NEW u \in THREADS
        PROVE  LabelOK(u)'
    <3>1. CASE u = t
      BY <1>1, <3>1
    <3>2. CASE u # t
      <4>1. /\ pc'[u] = pc[u] /\ mtx'[u] = mtx[u] /\ ret'[u] = ret[u] /\ held'[u] = held[u]
            /\ Doing(u)' = Doing(u)
        BY <1>1, <3>2, ConstantFacts DEF ThreadMove
      <4> QED
        BY <4>1 DEF KIInv, LabelInv, LabelOK
    <3> QED
      BY <3>1, <3>2
  <2>2. ASSUME NEW d \in CPUS
        PROVE  KthreadOK(d)'
    <3>1. KthreadOK(d) /\ kthread[d] \in AllThreads
      BY ConstantFacts DEF KIInv, LabelInv
    <3>2. CASE kthread[d] = t
      <4>1. d = c
        BY <3>2, ConstantFacts DEF ThreadMove, KIInv, IInv, CpuInv
      <4> QED
        BY <3>2, <4>1
    <3>3. CASE kthread[d] # t
      <4>1. /\ pc'[kthread[d]] = pc[kthread[d]] /\ mtx'[kthread[d]] = mtx[kthread[d]]
            /\ held'[kthread[d]] = held[kthread[d]] /\ current' = current
            /\ d # c => phase'[d] = phase[d]
        BY <3>1, <3>3 DEF ThreadMove
      <4>2. d = c => pc[kthread[d]] = "kloop"
        BY <3>1, <3>3 DEF KthreadOK, ThreadMove
      <4> QED
        BY <3>1, <4>1, <4>2 DEF KthreadOK
    <3> QED
      BY <3>2, <3>3
  <2> QED
    BY <2>1, <2>2 DEF LabelInv
<1>5. StatusLockInv'
  <2>1. ASSUME NEW d \in CPUS, NEW u \in THREADS
        PROVE  HoldsStatus(d, u)' <=> HoldsStatus(d, u)
    <3>1. CASE d = c
      <4>1. Doing(t)' = Doing(t) /\ current'[d] = t /\ current[d] = t /\ phase[d] = "run" /\ arg' = arg
        BY <1>1, <3>1 DEF ThreadMove, callVars
      <4>2. CASE phase'[c] = "run"
        BY <3>1, <4>1, <4>2 DEF HoldsStatus
      <4>3. CASE phase'[c] = "switch" /\ rel'[c] \in GUARDS /\ Doing(t) \notin Guarding
        BY <3>1, <4>1, <4>3, ConstantFacts DEF HoldsStatus, Guarding
      <4> QED
        BY <4>2, <4>3 DEF ThreadMove
    <3>2. CASE d # c
      BY <1>1, <3>2, OtherLocks DEF ThreadMove, callVars
    <3> QED
      BY <3>1, <3>2
  <2>2. ASSUME NEW v \in THREADS, Doing(v)' \in Guarding
        PROVE  \E d \in CPUS : current'[d] = v /\ phase'[d] = "run"
    <3>1. Doing(v) \in Guarding
      BY <1>1, <2>2, ConstantFacts
    <3>2. PICK d \in CPUS : current[d] = v /\ phase[d] = "run"
      BY <3>1 DEF KIInv, StatusLockInv
    <3>3. phase'[d] = "run" /\ current' = current
      BY <3>1, <3>2 DEF ThreadMove
    <3> QED
      BY <3>2, <3>3
  <2> QED
    BY <2>1, <2>2 DEF KIInv, StatusLockInv, ThreadMove
<1>6. RestInv'
  <2>1. ASSUME NEW u \in THREADS, Dead(u)' \/ Off(u)'
        PROVE  /\ pc'[u] = "run" /\ ret'[u] = "run" /\ held'[u] = {}
               /\ u \in freed' \/ ~Dead(u)' \/ saved'[u]
    <3>1. (Dead(u) \/ Off(u)) /\ (Dead(u)' <=> Dead(u))
      BY <2>1 DEF SameGone
    <3>2. u # t
      BY <3>1 DEF ThreadMove, KIInv, IInv, GoneInv
    <3> QED
      BY <3>1, <3>2, ConstantFacts DEF KIInv, RestInv, ThreadMove, callVars
  <2> QED
    BY <2>1 DEF RestInv
<1> QED
  BY <1>2, <1>3, <1>4, <1>5, <1>6 DEF KIInv

\* A step of CPU c's handlers: no thread goes on in its code, and the status_locks that
\* the CPU holds are still those its control point names.
HandlerMove(c) ==
  /\ UNCHANGED <<held, pc, mtx, ret>>
  /\ \A d \in CPUS : d # c =>
       current'[d] = current[d] /\ phase'[d] = phase[d] /\ rel'[d] = rel[d]
  /\ pc[kthread[c]] = "kloop"
  /\ phase[c] = "run" => Doing(current[c]) \notin Guarding
  /\ \A u \in THREADS, d \in CPUS : d # c => (spl'[u] = d <=> spl[u] = d)
  /\ \A u \in THREADS : spl'[u] = c <=> HoldsStatus(c, u)'
  /\ \A u \in THREADS : Dead(u) /\ saved[u] => saved'[u]

LEMMA HandlerKeeps ==
  ASSUME KIInv, IInv', SameGone, UNCHANGED callVars, NEW c \in CPUS, HandlerMove(c)
  PROVE  KIInv'
<1>1. \A u : Doing(u)' = Doing(u)
  BY DEF HandlerMove, Doing
<1>2. ArgInv' /\ TreeInv' /\ WakeInv'
  BY <1>1, SchedSame
<1>3. KTypeOK'
  BY DEF KIInv, KTypeOK, IInv, callVars
<1>4. LabelInv'
  <2>1. ASSUME NEW u \in THREADS
        PROVE  LabelOK(u)'
    BY <1>1 DEF KIInv, LabelInv, LabelOK, HandlerMove
  <2>2. ASSUME NEW d \in CPUS
        PROVE  KthreadOK(d)'
    BY DEF KIInv, LabelInv, KthreadOK, HandlerMove
  <2> QED
    BY <2>1, <2>2 DEF LabelInv
<1>5. StatusLockInv'
  <2>1. ASSUME NEW d \in CPUS, NEW u \in THREADS, d # c
        PROVE  spl'[u] = d <=> HoldsStatus(d, u)'
    <3>1. HoldsStatus(d, u)' <=> HoldsStatus(d, u)
      BY <1>1, <2>1, OtherLocks DEF HandlerMove, callVars
    <3> QED
      BY <2>1, <3>1 DEF HandlerMove, KIInv, StatusLockInv
  <2>2. ASSUME NEW v \in THREADS, Doing(v)' \in Guarding
        PROVE  \E d \in CPUS : current'[d] = v /\ phase'[d] = "run"
    <3>1. Doing(v) \in Guarding
      BY <1>1, <2>2
    <3>2. PICK d \in CPUS : current[d] = v /\ phase[d] = "run"
      BY <3>1 DEF KIInv, StatusLockInv
    <3>3. d # c
      BY <3>1, <3>2 DEF HandlerMove
    <3> QED
      BY <3>2, <3>3 DEF HandlerMove
  <2> QED
    BY <2>1, <2>2 DEF StatusLockInv, HandlerMove
<1>6. RestInv'
  BY DEF KIInv, RestInv, HandlerMove, SameGone, callVars
<1> QED
  BY <1>2, <1>3, <1>4, <1>5, <1>6 DEF KIInv

\* What a CPU that is in no section under a status_lock says of its status_locks.
LEMMA NoStatusLock ==
  ASSUME KIInv, NEW c \in CPUS,
         phase[c] \in {"tick", "timers", "preempt"} \/
           (phase[c] = "run" /\ Doing(current[c]) \notin Guarding)
  PROVE  \A u \in THREADS : spl[u] # c
<1>1. \A u \in THREADS : ~HoldsStatus(c, u)
  BY DEF HoldsStatus, Guarding
<1> QED
  BY <1>1 DEF KIInv, StatusLockInv

\* The timer handler and the kthread loop hold no status_lock before and after a step.
LEMMA HandlerFrame ==
  ASSUME KIInv, NEW c \in CPUS,
         phase[c] \in {"tick", "timers", "preempt"} \/
           (phase[c] = "run" /\ Doing(current[c]) \notin Guarding),
         pc[kthread[c]] = "kloop",
         UNCHANGED <<current, saved, held, pc, mtx, ret>>,
         \A d \in CPUS : d # c => phase'[d] = phase[d] /\ rel'[d] = rel[d],
         phase'[c] \in {"tick", "timers", "preempt"} \/
           (phase'[c] = "switch" /\ rel'[c] \in GUARDS),
         \A u \in THREADS : spl'[u] = spl[u]
  PROVE  HandlerMove(c)
<1>1. \A u \in THREADS : ~HoldsStatus(c, u)'
  BY ConstantFacts DEF HoldsStatus
<1>2. \A u \in THREADS : spl'[u] # c
  BY NoStatusLock
<1>3. phase[c] = "run" => Doing(current[c]) \notin Guarding
  OBVIOUS
<1> QED
  BY <1>1, <1>2, <1>3 DEF HandlerMove

\* A CPU that is not in a thread's code left its kthread in its loop.
LEMMA KthreadLoops ==
  ASSUME KIInv, NEW c \in CPUS, phase[c] # "run" \/ current[c] # kthread[c]
  PROVE  pc[kthread[c]] = "kloop"
BY DEF KIInv, LabelInv, KthreadOK

LEMMA YieldAnyFrame ==
  ASSUME KIInv, NEW c \in CPUS, NEW t, YieldAny(c, t)
  PROVE  /\ current' = current
         /\ \A d \in CPUS : d # c => phase'[d] = phase[d] /\ rel'[d] = rel[d]
         /\ phase'[c] = "switch" /\ rel'[c] \in GUARDS
         /\ \A u \in THREADS : spl'[u] = spl[u]
<1>1. /\ spl' = [spl EXCEPT ![ReadyLock] = c] /\ current' = current
      /\ phase' = [phase EXCEPT ![c] = "switch"] /\ rel' = [rel EXCEPT ![c] = ReadyLock]
  BY DEF YieldAny, YieldTo
<1> QED
  BY <1>1, ConstantFacts DEF KIInv, IInv, TypeOK

LEMMA KernelLoopMove ==
  ASSUME KIInv, NEW c \in CPUS, KernelLoop(c)
  PROVE  HandlerMove(c)
<1>1. /\ phase[c] = "run" /\ current[c] = kthread[c] /\ pc[kthread[c]] = "kloop"
      /\ YieldAny(c, kthread[c]) /\ UNCHANGED <<saved, held, pc, mtx, ret>>
  BY DEF KernelLoop, At, syncVars, pcVars
<1>2. Doing(current[c]) \notin Guarding
  BY <1>1, ConstantFacts, DoingFacts DEF KIInv, Guarding
<1> QED
  BY <1>1, <1>2, YieldAnyFrame, HandlerFrame

LEMMA PreemptMove ==
  ASSUME KIInv, NEW c \in CPUS, Preempt(c)
  PROVE  HandlerMove(c)
<1>1. /\ phase[c] = "preempt" /\ pc[kthread[c]] = "kloop"
      /\ YieldAny(c, current[c]) /\ UNCHANGED <<saved, held, pc, mtx, ret>>
  BY KthreadLoops DEF Preempt, syncVars, pcVars
<1> QED
  BY <1>1, YieldAnyFrame, HandlerFrame

\* The timer interrupt is taken only where no status_lock is held.
LEMMA TickMove ==
  ASSUME KIInv, NEW c \in CPUS, Tick(c)
  PROVE  HandlerMove(c)
<1>1. /\ phase[c] = "run" /\ current[c] \notin KThreads /\ \A l \in SPLS : spl[l] # c
      /\ phase' = [phase EXCEPT ![c] = "tick"]
      /\ UNCHANGED <<spl, current, next, rel, saved, held, pc, mtx, ret>>
  BY DEF Tick, IntrOn, runVars, syncVars, pcVars
<1>2. pc[kthread[c]] = "kloop"
  BY <1>1, ConstantFacts, KthreadLoops
<1>3. Doing(current[c]) \notin Guarding
  <2> SUFFICES ASSUME Doing(current[c]) \in Guarding
               PROVE  FALSE
    OBVIOUS
  <2>1. PICK t \in AllThreads : t = current[c]
    BY DEF KIInv, IInv, TypeOK
  <2>2. t \in THREADS
    BY <2>1, DoingFacts DEF KIInv, Guarding
  <2>3. Doing(t) = "ds_sel" => spl[t] = c
    BY <1>1, <2>1, <2>2 DEF KIInv, StatusLockInv, HoldsStatus
  <2>4. Doing(t) \in Waking => arg[t] \in THREADS
    BY <2>2 DEF KIInv, ArgInv, ArgOK
  <2>5. Doing(t) \in Waking => spl[arg[t]] = c
    BY <1>1, <2>1, <2>4 DEF KIInv, StatusLockInv, HoldsStatus, Waking
  <2> QED
    BY <1>1, <2>1, <2>2, <2>3, <2>4, <2>5, ConstantFacts DEF Guarding, Waking
<1>4. phase'[c] = "tick" /\ \A d \in CPUS : d # c => phase'[d] = phase[d]
  BY <1>1 DEF KIInv, IInv, TypeOK
<1> QED
  BY <1>1, <1>2, <1>3, <1>4, HandlerFrame

LEMMA TimerMove ==
  ASSUME KIInv, NEW c \in CPUS,
         CheckTimers(c) \/ TimersDone(c) \/ \E t \in THREADS : TimerExpire(c, t)
  PROVE  HandlerMove(c)
<1>1. /\ phase[c] \in {"tick", "timers"}
      /\ phase'[c] \in {"tick", "timers", "preempt"}
      /\ \A d \in CPUS : d # c => phase'[d] = phase[d]
      /\ UNCHANGED <<current, rel, saved, held, pc, mtx, ret>>
      /\ \A u \in THREADS : spl'[u] = spl[u]
  <2>1. CASE CheckTimers(c)
    BY <2>1, ConstantFacts DEF CheckTimers, KIInv, IInv, TypeOK, runVars, syncVars, pcVars
  <2>2. CASE TimersDone(c)
    BY <2>2, ConstantFacts DEF TimersDone, KIInv, IInv, TypeOK, runVars, syncVars, pcVars
  <2>3. CASE \E t \in THREADS : TimerExpire(c, t)
    BY <2>3 DEF TimerExpire, cpuVars, syncVars, pcVars
  <2> QED
    BY <2>1, <2>2, <2>3
<1>2. pc[kthread[c]] = "kloop"
  BY <1>1, KthreadLoops
<1> QED
  BY <1>1, <1>2, HandlerFrame

\* The context switch leaves the status_lock it was asked to release held.
LEMMA SwitchToMove ==
  ASSUME KIInv, NEW c \in CPUS, SwitchTo(c)
  PROVE  HandlerMove(c)
<1>1. /\ phase[c] = "switch" /\ phase' = [phase EXCEPT ![c] = "release"]
      /\ UNCHANGED <<spl, rel, held, pc, mtx, ret>>
      /\ \/ UNCHANGED <<current, saved>>
         \/ /\ current' = [current EXCEPT ![c] = next[c]]
            /\ saved' = [saved EXCEPT ![current[c]] = TRUE, ![next[c]] = FALSE]
  BY DEF SwitchTo, syncVars, pcVars
<1>2. pc[kthread[c]] = "kloop"
  BY <1>1, KthreadLoops
<1>3. /\ phase'[c] = "release"
      /\ \A d \in CPUS : d # c => phase'[d] = phase[d] /\ current'[d] = current[d]
  BY <1>1 DEF KIInv, IInv, TypeOK
<1>4. \A u \in THREADS : HoldsStatus(c, u)' <=> HoldsStatus(c, u)
  BY <1>1, <1>3 DEF HoldsStatus
<1>5. \A u \in THREADS : Dead(u) => u # next[c]
  BY <1>1 DEF KIInv, IInv, GoneInv
<1>6. saved \in [AllThreads -> BOOLEAN] /\ THREADS \subseteq AllThreads
  BY ConstantFacts DEF KIInv, IInv, TypeOK
<1>7. ASSUME NEW u \in THREADS, Dead(u), saved[u]
      PROVE  saved'[u]
  BY <1>1, <1>5, <1>6, <1>7
<1> QED
  BY <1>1, <1>2, <1>3, <1>4, <1>7 DEF HandlerMove, KIInv, StatusLockInv

\* The thread switched to releases it.
LEMMA SwitchDoneMove ==
  ASSUME KIInv, NEW c \in CPUS, SwitchDone(c)
  PROVE  HandlerMove(c)
<1>1. /\ phase[c] = "release" /\ phase' = [phase EXCEPT ![c] = "run"]
      /\ rel' = [rel EXCEPT ![c] = None] /\ spl' = [spl EXCEPT ![rel[c]] = None]
      /\ UNCHANGED <<current, saved, held, pc, mtx, ret>>
  BY DEF SwitchDone, runVars, syncVars, pcVars
<1>2. pc[kthread[c]] = "kloop"
  BY <1>1, KthreadLoops
<1>3. /\ phase'[c] = "run" /\ rel[c] \in SPLS
      /\ \A d \in CPUS : d # c => phase'[d] = phase[d] /\ rel'[d] = rel[d]
      /\ \A u \in THREADS : spl'[u] = IF u = rel[c] THEN None ELSE spl[u]
  BY <1>1, ConstantFacts DEF KIInv, IInv, TypeOK, CpuInv
<1>4. \A u \in THREADS : spl[u] = c <=> u = rel[c]
  BY <1>1 DEF KIInv, StatusLockInv, HoldsStatus
<1>5. /\ \A u \in THREADS, d \in CPUS : d # c => (spl'[u] = d <=> spl[u] = d)
      /\ \A u \in THREADS : spl'[u] # c
  BY <1>3, <1>4, ConstantFacts
<1>6. ASSUME NEW u \in THREADS, HoldsStatus(c, u)'
      PROVE  FALSE
  <2>1. PICK t \in AllThreads : t = current[c]
    BY DEF KIInv, IInv, TypeOK
  <2>2. Doing(t)' = Doing(t) /\ current'[c] = t
    BY <1>1, <2>1 DEF Doing
  <2>3. Doing(t) \in Guarding
    BY <1>3, <1>6, <2>2 DEF HoldsStatus, Guarding
  <2>4. t \in THREADS
    BY <2>3, DoingFacts DEF KIInv, Guarding
  <2>5. PICK d \in CPUS : current[d] = t /\ phase[d] = "run"
    BY <2>3, <2>4 DEF KIInv, StatusLockInv
  <2> QED
    BY <1>1, <2>1, <2>5 DEF KIInv, IInv, CpuInv
<1> QED
  BY <1>1, <1>2, <1>3, <1>5, <1>6 DEF HandlerMove

LEMMA HandlersKeep ==
  ASSUME KIInv, UNCHANGED callVars, NEW c \in CPUS, HandlerStep(c) \/ Tick(c)
  PROVE  KIInv'
<1>1. IInv' /\ SameGone
  BY HandlerInv, StepGone DEF KIInv
<1>2. HandlerMove(c)
  BY KernelLoopMove, PreemptMove, TickMove, TimerMove, SwitchToMove, SwitchDoneMove
     DEF HandlerStep
<1> QED
  BY <1>1, <1>2, HandlerKeeps

\* What a spinlock other than a status_lock, taken or released, leaves alone.
LEMMA GuardFrame ==
  ASSUME KIInv, NEW l \in GUARDS, NEW x,
         spl' = spl \/ spl' = [spl EXCEPT ![l] = x]
  PROVE  \A u \in THREADS : spl'[u] = spl[u]
BY ConstantFacts DEF KIInv, IInv, TypeOK

\* A thread that runs one of the primitives.
LEMMA AtFacts ==
  ASSUME KIInv, NEW c \in CPUS, NEW t \in AllThreads, NEW l, At(c, t, l)
  PROVE  /\ current[c] = t /\ phase[c] = "run" /\ pc[t] = l
         /\ l \in {"lk", "lk_sel", "lk_own", "ul", "ul_wake"} =>
              mtx[t] \in MUTEXES /\ mtx[t] \in GUARDS
         /\ l \in {"lk", "lk_sel", "lk_own"} => Doing(t) \notin Guarding
         /\ l \in {"run", "cw_sel", "sg_wake", "sl_sel"} =>
              ret[t] = "run" /\ {pc[t], ret[t]} \cap CallLabels = {} /\ Doing(t) = "user"
         /\ l \in {"cw_sel", "sg_wake"} => wait[t][1] \in GUARDS
<1>1. current[c] = t /\ phase[c] = "run" /\ pc[t] = l
  BY DEF At
<1>2. l \in {"lk", "lk_sel", "lk_own", "ul", "ul_wake"} =>
        mtx[t] \in MUTEXES /\ mtx[t] \in GUARDS
  BY <1>1, ConstantFacts DEF KIInv, IInv, PcInv
<1>3. ASSUME l \in {"lk", "lk_sel", "lk_own"}, Doing(t) \in Guarding
      PROVE  FALSE
  <2>1. t \in THREADS
    BY <1>3, DoingFacts DEF KIInv, Guarding
  <2>2. Doing(t) = ret[t] /\ ret[t] \in CallLabels
    BY <1>1, <1>3, LabelFacts DEF Doing, Guarding
  <2>3. Needs(ret[t]) = {mtx[t]} /\ ret[t] \notin {"ds_sel", "tv_wake"}
    BY <1>1, <1>3, <2>1, <2>2 DEF KIInv, LabelInv, LabelOK
  <2> QED
    BY <1>3, <2>2, <2>3, NeedsFacts DEF Guarding
<1>4. l \in {"run", "cw_sel", "sg_wake", "sl_sel"} =>
        ret[t] = "run" /\ {pc[t], ret[t]} \cap CallLabels = {} /\ Doing(t) = "user"
  BY <1>1, LabelFacts DEF KIInv, IInv, PcInv, Doing
<1>5. l \in {"cw_sel", "sg_wake"} => wait[t][1] \in GUARDS
  <2>1. l = "cw_sel" => wait[t] \in CVS \X MUTEXES
    BY <1>1 DEF KIInv, IInv, PcInv, InCvWait
  <2>2. l = "sg_wake" => wait[t] \in {<<q>> : q \in CVS}
    BY <1>1 DEF KIInv, IInv, PcInv
  <2> QED
    BY <2>1, <2>2, ConstantFacts
<1> QED
  BY <1>1, <1>2, <1>3, <1>4, <1>5

\* A step that leaves CPUs and spinlocks but its own guard alone.
LEMMA StayFrame ==
  ASSUME KIInv, NEW c \in CPUS, NEW t \in AllThreads, current[c] = t, phase[c] = "run",
         UNCHANGED <<current, phase, rel, saved>>,
         NEW l \in GUARDS, NEW x, spl' = spl \/ spl' = [spl EXCEPT ![l] = x],
         \A u \in AllThreads : u # t =>
           pc'[u] = pc[u] /\ mtx'[u] = mtx[u] /\ ret'[u] = ret[u] /\ held'[u] = held[u]
  PROVE  ThreadMove(c, t)
BY GuardFrame DEF ThreadMove

\* A step that leaves the CPU under a spinlock of the primitives.
LEMMA LeaveFrame ==
  ASSUME KIInv, NEW c \in CPUS, NEW t \in AllThreads, current[c] = t, phase[c] = "run",
         NEW l \in GUARDS, YieldTo(c, l), saved' = saved, spl' = spl,
         Doing(t) \notin Guarding,
         \A u \in AllThreads : u # t =>
           pc'[u] = pc[u] /\ mtx'[u] = mtx[u] /\ ret'[u] = ret[u] /\ held'[u] = held[u]
  PROVE  ThreadMove(c, t)
<1>1. /\ current' = current /\ phase'[c] = "switch" /\ rel'[c] = l
      /\ \A d \in CPUS : d # c => phase'[d] = phase[d] /\ rel'[d] = rel[d]
  BY DEF YieldTo, KIInv, IInv, TypeOK
<1> QED
  BY <1>1 DEF ThreadMove

LEMMA ReturnMove ==
  ASSUME KIInv, NEW c \in CPUS, NEW t \in AllThreads,
         \/ MutexLockFree(c, t) \/ MutexLockOwn(c, t)
         \/ MutexUnlockFree(c, t) \/ MutexUnlockWake(c, t)
  PROVE  ThreadMove(c, t) /\ Primitive(t)
<1>1. PICK l \in {"lk", "lk_own", "ul", "ul_wake"} :
        /\ At(c, t, l) /\ Return(t)
        /\ \/ l \in {"lk", "lk_own"} /\ held' = [held EXCEPT ![t] = held[t] \cup {mtx[t]}]
           \/ l \in {"ul", "ul_wake"} /\ held' = [held EXCEPT ![t] = held[t] \ {mtx[t]}]
        /\ UNCHANGED <<cpuVars, saved>>
        /\ spl' = spl \/ spl' = [spl EXCEPT ![mtx[t]] = None]
  BY DEF MutexLockFree, MutexLockOwn, MutexUnlockFree, MutexUnlockWake, WakeHead, runVars
<1>2. current[c] = t /\ phase[c] = "run" /\ pc[t] = l /\ mtx[t] \in GUARDS
  BY <1>1, AtFacts
<1>3. /\ pc'[t] = ret[t] /\ ret'[t] = "run"
      /\ l \in {"lk", "lk_own"} => held'[t] = held[t] \cup {mtx[t]}
      /\ l \in {"ul", "ul_wake"} => held'[t] = held[t] \ {mtx[t]}
      /\ \A u \in AllThreads : u # t =>
           pc'[u] = pc[u] /\ mtx'[u] = mtx[u] /\ ret'[u] = ret[u] /\ held'[u] = held[u]
  BY <1>1 DEF Return, KIInv, IInv, TypeOK
<1>4. UNCHANGED <<current, phase, rel, saved>>
  BY <1>1 DEF cpuVars
<1>5. ThreadMove(c, t)
  BY <1>1, <1>2, <1>3, <1>4, StayFrame
<1> QED
  BY <1>1, <1>2, <1>3, <1>5 DEF Primitive

\* The other steps of a mutex operation.
LEMMA InsideMove ==
  ASSUME KIInv, NEW c \in CPUS, NEW t \in AllThreads,
         MutexLockQueue(c, t) \/ MutexLockBlock(c, t) \/ MutexUnlockPass(c, t)
  PROVE  ThreadMove(c, t) /\ Primitive(t)
<1>1. PICK l \in {"lk", "lk_sel", "ul"}, p \in {"lk_sel", "lk_own", "ul_wake"} :
        /\ At(c, t, l) /\ Goto(t, p) /\ UNCHANGED <<saved, held, mtx, ret>>
        /\ l = "lk" => p = "lk_sel"
        /\ l = "lk_sel" => p = "lk_own"
        /\ l = "ul" => p = "ul_wake"
        /\ l = "lk_sel" => YieldTo(c, mtx[t]) /\ spl' = spl
        /\ l # "lk_sel" => UNCHANGED cpuVars /\ spl' = [spl EXCEPT ![mtx[t]] = c]
  <2>1. CASE MutexLockQueue(c, t)
    BY <2>1 DEF MutexLockQueue
  <2>2. CASE MutexLockBlock(c, t)
    BY <2>2 DEF MutexLockBlock, syncVars
  <2>3. CASE MutexUnlockPass(c, t)
    BY <2>3 DEF MutexUnlockPass, runVars, syncVars
  <2> QED
    BY <2>1, <2>2, <2>3
<1>2. /\ current[c] = t /\ phase[c] = "run" /\ pc[t] = l /\ mtx[t] \in GUARDS
      /\ l = "lk_sel" => Doing(t) \notin Guarding
  BY <1>1, AtFacts
<1>3. /\ pc'[t] = p
      /\ \A u \in AllThreads : u # t =>
           pc'[u] = pc[u] /\ mtx'[u] = mtx[u] /\ ret'[u] = ret[u] /\ held'[u] = held[u]
  BY <1>1 DEF Goto, KIInv, IInv, TypeOK
<1>4. ThreadMove(c, t)
  <2>1. CASE l = "lk_sel"
    BY <1>1, <1>2, <1>3, <2>1, LeaveFrame
  <2>2. CASE l # "lk_sel"
    <3>1. UNCHANGED <<current, phase, rel, saved>> /\ spl' = [spl EXCEPT ![mtx[t]] = c]
      BY <1>1, <2>2 DEF cpuVars
    <3> QED
      BY <1>2, <1>3, <3>1, StayFrame
  <2> QED
    BY <2>1, <2>2
<1> QED
  BY <1>1, <1>2, <1>3, <1>4 DEF Primitive

LEMMA MutexMove ==
  ASSUME KIInv, NEW c \in CPUS, NEW t \in AllThreads, MutexStep(c, t)
  PROVE  ThreadMove(c, t) /\ Primitive(t)
BY ReturnMove, InsideMove DEF MutexStep

\* The kthread goes on with the unlock that a dead thread left to it.
LEMMA KthreadMove ==
  ASSUME KIInv, NEW c \in CPUS, MutexStep(c, kthread[c])
  PROVE  IInv' /\ KthreadOK(c)'
<1> DEFINE k == kthread[c]
<1>1. /\ k \in AllThreads /\ k \in KThreads
      /\ \/ MutexUnlockFree(c, k) \/ MutexUnlockPass(c, k) \/ MutexUnlockWake(c, k)
  BY ConstantFacts DEF MutexStep, MutexLockFree, MutexLockQueue, MutexLockBlock,
     MutexLockOwn, At, KIInv, IInv, PcInv
<1>2. IInv'
  BY <1>1, MutexUnlockFreeInv, MutexUnlockPassInv, MutexUnlockWakeInv DEF KIInv
<1>3. /\ current[c] = k /\ phase[c] = "run" /\ pc[k] \in {"ul", "ul_wake"}
      /\ ret[k] = "kloop" /\ held[k] = {mtx[k]}
      /\ UNCHANGED <<current, phase>>
  <2>1. /\ current[c] = k /\ phase[c] = "run" /\ pc[k] \in {"ul", "ul_wake"}
        /\ UNCHANGED <<current, phase>>
    BY <1>1 DEF MutexUnlockFree, MutexUnlockPass, MutexUnlockWake, At, cpuVars
  <2>2. ret[k] = "kloop"
    BY <1>1, <2>1 DEF KIInv, IInv, PcInv
  <2>3. held[k] = {mtx[k]}
    BY <2>1 DEF KIInv, LabelInv, KthreadOK
  <2> QED
    BY <2>1, <2>2, <2>3
<1>4. held'[k] = IF pc'[k] = "kloop" THEN {} ELSE {mtx'[k]}
  <2>1. CASE MutexUnlockPass(c, k)
    <3>1. pc' = [pc EXCEPT ![k] = "ul_wake"] /\ UNCHANGED <<held, mtx>>
      BY <2>1 DEF MutexUnlockPass, Goto, syncVars
    <3>2. pc'[k] = "ul_wake"
      BY <1>1, <3>1 DEF KIInv, IInv, TypeOK
    <3> QED
      BY <1>3, <3>1, <3>2
  <2>2. CASE MutexUnlockFree(c, k) \/ MutexUnlockWake(c, k)
    <3>1. pc' = [pc EXCEPT ![k] = ret[k]] /\ held' = [held EXCEPT ![k] = held[k] \ {mtx[k]}]
      BY <2>2 DEF MutexUnlockFree, MutexUnlockWake, Return
    <3>2. pc'[k] = "kloop" /\ held'[k] = {}
      BY <1>1, <1>3, <3>1 DEF KIInv, IInv, TypeOK
    <3> QED
      BY <3>2
  <2> QED
    BY <1>1, <2>1, <2>2
<1>5. KthreadOK(c)'
  BY <1>3, <1>4 DEF KthreadOK
<1> QED
  BY <1>2, <1>5

\* The labels of the primitives are outside the system calls.
LEMMA OutsideFacts ==
  {"run", "lk", "ul", "cw_sel", "sg_wake", "sl_sel"} \cap CallLabels = {}
BY DEF CallLabels

LEMMA UserLockMove ==
  ASSUME KIInv, NEW c \in CPUS, NEW t \in THREADS, Lock(c, t) \/ Unlock(c, t)
  PROVE  ThreadMove(c, t) /\ Primitive(t)
<1>1. PICK op \in {"lk", "ul"}, m \in MUTEXES :
        /\ At(c, t, "run") /\ Call(t, op, m, "run")
        /\ UNCHANGED <<spl, cpuVars, runVars, syncVars, wait, timeVars>>
  BY ConstantFacts DEF Lock, Unlock, KIInv, IInv, TypeOK
<1>2. /\ t \in AllThreads /\ current[c] = t /\ phase[c] = "run"
      /\ {pc[t], ret[t]} \cap CallLabels = {} /\ ReadyLock \in GUARDS
      /\ UNCHANGED <<spl, current, phase, rel, saved, held>>
  BY <1>1, AtFacts, ConstantFacts DEF cpuVars, runVars, syncVars
<1>3. /\ pc'[t] = op /\ ret'[t] = "run"
      /\ \A u \in AllThreads : u # t =>
           pc'[u] = pc[u] /\ mtx'[u] = mtx[u] /\ ret'[u] = ret[u] /\ held'[u] = held[u]
  BY <1>1, <1>2 DEF Call, KIInv, IInv, TypeOK, Labels
<1>4. ThreadMove(c, t)
  BY <1>2, <1>3, StayFrame
<1> QED
  BY <1>2, <1>3, <1>4, OutsideFacts DEF Primitive

LEMMA CvMove ==
  ASSUME KIInv, NEW c \in CPUS, NEW t \in THREADS,
         CvWait(c, t) \/ CvSignal(c, t) \/ CvSignalWake(c, t) \/ Sleep(c, t)
  PROVE  ThreadMove(c, t) /\ Primitive(t)
<1>1. /\ At(c, t, "run") \/ At(c, t, "sg_wake")
      /\ t \in AllThreads
      /\ \E p \in {"ul", "sg_wake", "run", "sl_sel"} : pc' = [pc EXCEPT ![t] = p]
      /\ \/ UNCHANGED <<mtx, ret>>
         \/ /\ \E m \in MUTEXES : mtx' = [mtx EXCEPT ![t] = m]
            /\ ret' = [ret EXCEPT ![t] = "cw_sel"]
      /\ UNCHANGED <<current, phase, rel, saved, held>>
      /\ \E l \in GUARDS, x \in {c, None} : spl' = [spl EXCEPT ![l] = x]
  <2>1. CASE CvWait(c, t)
    <3>1. \A q \in CVS : q \in GUARDS
      BY ConstantFacts
    <3>2. PICK q \in CVS, m \in held[t] :
            spl' = [spl EXCEPT ![q] = c] /\ Call(t, "ul", m, "cw_sel")
      BY <2>1 DEF CvWait
    <3>3. m \in MUTEXES /\ t \in AllThreads
      BY <3>2, ConstantFacts DEF KIInv, IInv, TypeOK
    <3> QED
      BY <2>1, <3>1, <3>2, <3>3 DEF CvWait, Call, cpuVars
  <2>2. CASE CvSignal(c, t)
    <3>1. \A q \in CVS : q \in GUARDS
      BY ConstantFacts
    <3> QED
      BY <2>2, <3>1, ConstantFacts DEF CvSignal, Goto, cpuVars, runVars, syncVars
  <2>3. CASE CvSignalWake(c, t)
    <3>1. t \in AllThreads /\ At(c, t, "sg_wake")
      BY <2>3, ConstantFacts DEF CvSignalWake
    <3>2. wait[t][1] \in GUARDS
      BY <3>1, AtFacts
    <3> QED
      BY <2>3, <3>1, <3>2 DEF CvSignalWake, WakeHead, Goto, cpuVars
  <2>4. CASE Sleep(c, t)
    BY <2>4, ConstantFacts DEF Sleep, Goto, cpuVars, runVars, syncVars
  <2> QED
    BY <2>1, <2>2, <2>3, <2>4
<1>2. /\ current[c] = t /\ phase[c] = "run" /\ {pc[t], ret[t]} \cap CallLabels = {}
  BY <1>1, AtFacts
<1>3. PICK p \in {"ul", "sg_wake", "run", "sl_sel"} : pc' = [pc EXCEPT ![t] = p]
  BY <1>1
<1>4. PICK l \in GUARDS, x \in {c, None} : spl' = [spl EXCEPT ![l] = x]
  BY <1>1
<1>5. pc'[t] = p /\ \A u \in AllThreads : u # t => pc'[u] = pc[u]
  BY <1>1, <1>3 DEF KIInv, IInv, TypeOK
<1>6. ret'[t] \in {ret[t], "cw_sel"} /\ \A u \in AllThreads : u # t => ret'[u] = ret[u]
  BY <1>1 DEF KIInv, IInv, TypeOK
<1>7. \A u \in AllThreads : u # t => mtx'[u] = mtx[u] /\ held'[u] = held[u]
  BY <1>1 DEF KIInv, IInv, TypeOK
<1>8. ThreadMove(c, t)
  <2>1. \A u \in AllThreads : u # t =>
           pc'[u] = pc[u] /\ mtx'[u] = mtx[u] /\ ret'[u] = ret[u] /\ held'[u] = held[u]
    BY <1>5, <1>6, <1>7
  <2>2. UNCHANGED <<current, phase, rel, saved>>
    BY <1>1
  <2> QED
    BY <1>1, <1>2, <1>4, <2>1, <2>2, StayFrame
<1> QED
  BY <1>2, <1>5, <1>6, <1>8, OutsideFacts DEF Primitive

LEMMA LeaveMove ==
  ASSUME KIInv, NEW c \in CPUS, NEW t \in THREADS, CvWaitBlock(c, t) \/ SleepBlock(c, t)
  PROVE  ThreadMove(c, t) /\ Primitive(t)
<1>1. PICK l \in {"cw_sel", "sl_sel"}, p \in {"lk", "run"} :
        /\ At(c, t, l) /\ pc' = [pc EXCEPT ![t] = p]
        /\ \/ UNCHANGED <<mtx, ret>>
           \/ /\ mtx' = [mtx EXCEPT ![t] = wait[t][2]]
              /\ ret' = [ret EXCEPT ![t] = "run"]
        /\ YieldTo(c, IF l = "cw_sel" THEN wait[t][1] ELSE TimerLock)
        /\ UNCHANGED <<spl, saved, held>>
  <2>1. CASE CvWaitBlock(c, t)
    BY <2>1 DEF CvWaitBlock, Call, syncVars
  <2>2. CASE SleepBlock(c, t)
    BY <2>2 DEF SleepBlock, Goto, syncVars
  <2> QED
    BY <2>1, <2>2
<1>2. /\ t \in AllThreads /\ current[c] = t /\ phase[c] = "run"
      /\ ret[t] = "run" /\ {pc[t], ret[t]} \cap CallLabels = {} /\ Doing(t) \notin Guarding
      /\ (IF l = "cw_sel" THEN wait[t][1] ELSE TimerLock) \in GUARDS
  <2>1. t \in AllThreads
    BY ConstantFacts
  <2>2. /\ current[c] = t /\ phase[c] = "run" /\ ret[t] = "run" /\ Doing(t) = "user"
        /\ {pc[t], ret[t]} \cap CallLabels = {}
        /\ l = "cw_sel" => wait[t][1] \in GUARDS
    BY <1>1, <2>1, AtFacts
  <2> QED
    BY <2>1, <2>2, ConstantFacts DEF Guarding
<1>3. pc'[t] = p /\ \A u \in AllThreads : u # t => pc'[u] = pc[u]
  BY <1>1, <1>2 DEF KIInv, IInv, TypeOK
<1>4. ret'[t] = "run" /\ \A u \in AllThreads : u # t => ret'[u] = ret[u]
  BY <1>1, <1>2 DEF KIInv, IInv, TypeOK
<1>5. \A u \in AllThreads : u # t => mtx'[u] = mtx[u] /\ held'[u] = held[u]
  BY <1>1 DEF KIInv, IInv, TypeOK
<1>6. ThreadMove(c, t)
  BY <1>1, <1>2, <1>3, <1>4, <1>5, LeaveFrame
<1> QED
  BY <1>2, <1>3, <1>4, <1>6, OutsideFacts DEF Primitive

LEMMA YieldMove ==
  ASSUME KIInv, NEW c \in CPUS, NEW t \in THREADS, Yield(c, t)
  PROVE  ThreadMove(c, t) /\ Primitive(t)
<1>1. /\ At(c, t, "run") /\ YieldAny(c, t) /\ t \in AllThreads
      /\ UNCHANGED <<saved, held, pc, mtx, ret>>
  BY ConstantFacts DEF Yield, syncVars, pcVars
<1>2. /\ current[c] = t /\ phase[c] = "run" /\ {pc[t], ret[t]} \cap CallLabels = {}
      /\ Doing(t) = "user"
  BY <1>1, AtFacts
<1>3. Doing(t) \notin Guarding
  BY <1>2 DEF Guarding
<1>4. ThreadMove(c, t)
  BY <1>1, <1>2, <1>3, YieldAnyFrame DEF ThreadMove
<1> QED
  BY <1>1, <1>2, <1>4 DEF Primitive

\* Every step of module KSched keeps the invariant.
LEMMA SchedInv ==
  ASSUME KIInv, NEW c \in CPUS, SchedStep(c)
  PROVE  KIInv'
<1>1. UNCHANGED callVars
  BY DEF SchedStep
<1>2. CASE HandlerStep(c) \/ Tick(c)
  BY <1>1, <1>2, HandlersKeep
<1>3. ASSUME NEW t \in THREADS, BlockStep(c, t) \/ CallStep(c, t)
      PROVE  KIInv'
  <2>1. IInv'
    <3>1. [Next]_vars
      BY <1>3 DEF Next
    <3> QED
      BY <3>1, NextInv DEF KIInv
  <2>2. SameGone
    BY <1>3, StepGone DEF KIInv
  <2>3. t \in AllThreads /\ t # kthread[c]
    BY ConstantFacts
  <2>4. ThreadMove(c, t) /\ Primitive(t)
    BY <1>3, <2>3, MutexMove, UserLockMove, CvMove, LeaveMove, YieldMove
       DEF BlockStep, CallStep
  <2> QED
    BY <1>1, <2>1, <2>2, <2>3, <2>4, ThreadStep
<1>4. CASE MutexStep(c, kthread[c])
  <2>1. SameGone
    BY <1>4, StepGone DEF KIInv
  <2>2. kthread[c] \in AllThreads
    BY ConstantFacts
  <2>3. IInv' /\ KthreadOK(c)' /\ ThreadMove(c, kthread[c]) /\ Primitive(kthread[c])
    BY <1>4, <2>2, KthreadMove, MutexMove
  <2> QED
    BY <1>1, <2>1, <2>2, <2>3, ThreadStep
<1> QED
  BY <1>2, <1>3, <1>4 DEF SchedStep

-----------------------------------------------------------------------------
(* The invariant holds in every reachable state *)

LEMMA KInitInv ==
  ASSUME KInit
  PROVE  KIInv
<1>1. IInv
  BY InitInv DEF KInit
<1>2. /\ spl = [l \in SPLS |-> None] /\ current = kthread
      /\ phase = [c \in CPUS |-> "run"] /\ rel = [c \in CPUS |-> None]
      /\ status = [t \in AllThreads |->
                     IF t \in KThreads THEN "RUNNING"
                     ELSE IF t \in Range(InitReady) THEN "READY" ELSE "DEAD"]
      /\ saved = [t \in AllThreads |-> t \notin KThreads]
      /\ held = [t \in AllThreads |-> {}]
      /\ pc = [t \in AllThreads |-> IF t \in KThreads THEN "kloop" ELSE "run"]
      /\ ret = [t \in AllThreads |-> "run"]
  BY DEF KInit, Init
<1>3. /\ tree = Range(InitReady) /\ members = Range(InitReady)
      /\ pending = [t \in THREADS |-> FALSE] /\ reject = [t \in THREADS |-> FALSE]
      /\ arg = [t \in THREADS |-> None] /\ todo = [t \in THREADS |-> {}] /\ freed = {}
      /\ Range(InitReady) \subseteq THREADS
  BY ThreadAssumption DEF KInit, Range
<1>4. KTypeOK
  BY <1>1, <1>3 DEF KTypeOK, IInv
<1>5. ASSUME NEW t \in AllThreads
      PROVE  Doing(t) = "user" /\ held[t] = {} /\ ret[t] = "run"
  BY <1>2, LabelFacts DEF Doing
<1>6. ASSUME NEW t \in THREADS
      PROVE  /\ pc[t] = "run" /\ saved[t] /\ ~Off(t)
             /\ Doing(t) = "user" /\ held[t] = {} /\ ret[t] = "run"
             /\ t \notin Range(InitReady) => Dead(t)
  BY <1>2, <1>5, ConstantFacts DEF Off, Dead
<1>7. LabelInv
  <2>1. ASSUME NEW t \in THREADS
        PROVE  LabelOK(t)
    BY <1>6, LabelFacts DEF LabelOK
  <2>2. ASSUME NEW c \in CPUS
        PROVE  KthreadOK(c)
    BY <1>2, ConstantFacts DEF KthreadOK
  <2> QED
    BY <2>1, <2>2 DEF LabelInv
<1>8. StatusLockInv
  <2>1. ASSUME NEW c \in CPUS, NEW u \in THREADS
        PROVE  spl[u] # c /\ ~HoldsStatus(c, u)
    <3>1. current[c] \in AllThreads /\ phase[c] = "run" /\ spl[u] = None /\ None # c
      BY <1>2, ConstantFacts
    <3>2. Doing(current[c]) = "user"
      BY <1>5, <3>1
    <3> QED
      BY <3>1, <3>2 DEF HoldsStatus
  <2> QED
    BY <1>6, <2>1 DEF StatusLockInv, Guarding
<1>9. ArgInv
  BY <1>6 DEF ArgInv, ArgOK, Waking, Killing, Forking
<1>10. RestInv
  BY <1>6 DEF RestInv
<1>11. TreeInv
  BY <1>3, <1>6 DEF TreeInv, TreeOK, Exiting
<1>12. WakeInv
  BY <1>3 DEF WakeInv
<1> QED
  BY <1>1, <1>4, <1>7, <1>8, <1>9, <1>10, <1>11, <1>12 DEF KIInv

LEMMA KNextInv ==
  ASSUME NoYieldTo, KIInv, [KNext]_allVars
  PROVE  KIInv'
<1>1. CASE UNCHANGED allVars
  <2>1. UNCHANGED <<vars, tree, members, pending, reject, arg, todo, freed>>
    BY <1>1 DEF allVars, callVars
  <2> QED
    BY <2>1, StutterInv DEF KIInv, KTypeOK
<1>2. ASSUME NEW c \in CPUS, SchedStep(c)
      PROVE  KIInv'
  BY <1>2, SchedInv
<1>3. ASSUME NEW c \in CPUS, NEW t \in THREADS, KCall(c, t)
      PROVE  KIInv'
  BY <1>3, YieldToEnterInv, MakeRunnableEnterInv, ForkEnterInv, DescheduleInv,
     DescheduleRejectedInv, TaskVanishEnterInv, EnterKillInv DEF KCall, Vanish
<1>4. ASSUME NEW c \in CPUS, NEW t \in THREADS, KStep(c, t)
      PROVE  KIInv'
  <2>1. CASE YieldToFail(c, t) \/ YieldToPick(c, t) \/ YieldToGo(c, t)
    BY <2>1, YieldToFailInv, NoTarget
  <2>2. CASE DescheduleBlock(c, t) \/ MakeRunnableFail(c, t)
               \/ MakeRunnableFound(c, t) \/ MakeRunnableGo(c, t)
    BY <2>2, DescheduleBlockInv, MakeRunnableFailInv, MakeRunnableFoundInv, InsertInv
  <2>3. CASE ForkJoin(c, t) \/ ForkJoined(c, t) \/ ForkAdd(c, t) \/ ForkGo(c, t)
    BY <2>3, ForkJoinInv, ForkJoinedInv, ForkAddInv, InsertInv
  <2>4. CASE PendingExit(c, t) \/ VanishLockTree(c, t) \/ VanishRemove(c, t)
               \/ VanishLockMembers(c, t) \/ VanishLeave(c, t) \/ VanishLockHeap(c, t)
               \/ VanishDie(c, t)
    BY <2>4, EnterKillInv, VanishLockTreeInv, VanishRemoveInv, VanishLockMembersInv,
       VanishLeaveInv, VanishLockHeapInv, VanishDieInv DEF PendingExit
  <2>5. CASE TaskVanishMark(c, t) \/ TaskVanishSkip(c, t) \/ TaskVanishLock(c, t)
               \/ TaskVanishWake(c, t) \/ TaskVanishDone(c, t)
    BY <2>5, TaskVanishMarkInv, TaskVanishSkipInv, TaskVanishLockInv, InsertInv,
       TaskVanishDoneInv
  <2> QED
    BY <1>4, <2>1, <2>2, <2>3, <2>4, <2>5 DEF KStep
<1> QED
  BY <1>1, <1>2, <1>3, <1>4 DEF KNext

\* Whatever threads fork, deschedule, wake, kill and end each other, the invariant
\* holds.
THEOREM KInvariance == NoYieldTo => (KSpec => []KIInv)
<1> SUFFICES ASSUME NoYieldTo
             PROVE  KSpec => []KIInv
  OBVIOUS
<1>1. KInit => KIInv
  BY KInitInv
<1>2. KIInv /\ [KNext]_allVars => KIInv'
  BY KNextInv
<1> QED
  BY <1>1, <1>2, PTL DEF KSpec

-----------------------------------------------------------------------------
(* What KThread states of the thread system calls *)

\* The variables keep their types.
THEOREM KTypeCorrect == NoYieldTo => (KSpec => []KTypeOK)
<1> SUFFICES ASSUME NoYieldTo
             PROVE  KSpec => []KTypeOK
  OBVIOUS
<1>1. KIInv => KTypeOK
  BY DEF KIInv
<1> QED
  BY <1>1, KInvariance, PTL

\* A thread that is at some label of a system call, or on its way there.
LEMMA WithinFacts ==
  ASSUME IInv, NEW t \in AllThreads, NEW L, L \subseteq CallLabels
  PROVE  Within(t, L) <=> Doing(t) \in L
<1>1. "user" \notin CallLabels
  BY LabelFacts
<1> QED
  BY <1>1, DoingFacts DEF Within

LEMMA NotDirected ==
  ASSUME KIInv, NEW c \in CPUS
  PROVE  ~Directed(c)
<1>1. PICK t \in AllThreads : t = current[c]
  BY DEF KIInv, IInv, TypeOK
<1>2. Doing(t) # "yt_go"
  BY <1>1, DoingFacts DEF KIInv, LabelInv, LabelOK
<1>3. {"yt_go"} \subseteq CallLabels
  BY DEF CallLabels
<1> QED
  BY <1>1, <1>2, <1>3, WithinFacts DEF Directed, KIInv

\* A thread that exists is in exactly one place, the descheduled ones included.
THEOREM KNoThreadLost == NoYieldTo => (KSpec => []KOnePlace)
<1> SUFFICES ASSUME NoYieldTo
             PROVE  KSpec => []KOnePlace
  OBVIOUS
<1>1. ASSUME KIInv, NEW t \in THREADS
      PROVE  Cardinality(KPlaces(t)) = IF t \in freed \/ status[t] = "DEAD" THEN 0 ELSE 1
  <2>1. IInv /\ (t \in freed => Dead(t))
    BY <1>1 DEF KIInv, TreeInv, TreeOK
  <2>2. {d \in CPUS : Directed(d) /\ next[d] = t} = {}
    BY <1>1, NotDirected
  <2>3. KPlaces(t) = Places(t) \cup (IF Off(t) THEN {<<"off", 0>>} ELSE {})
    BY <2>2 DEF KPlaces, Off
  <2>4. CASE Off(t)
    <3>1. ~Dead(t) /\ KPlaces(t) = {<<"off", 0>>}
      BY <2>1, <2>3, <2>4, NoPlace DEF Off, Dead
    <3> QED
      BY <2>1, <3>1, FS_Singleton DEF Dead
  <2>5. CASE ~Off(t)
    <3>1. KPlaces(t) = Places(t)
      BY <2>3, <2>5
    <3>2. Cardinality(Places(t)) = IF Dead(t) THEN 0 ELSE 1
      BY <2>1, <2>5, OnePlaceEach
    <3> QED
      BY <2>1, <3>1, <3>2 DEF Dead
  <2> QED
    BY <2>4, <2>5
<1>2. KIInv => KOnePlace
  BY <1>1 DEF KOnePlace
<1> QED
  BY <1>2, KInvariance, PTL

\* A control block that has been freed is in no queue, tree or list, and no system call
\* that looked it up earlier goes on to use it.
THEOREM KNoUseAfterFree == NoYieldTo => (KSpec => []NoUseAfterFree)
<1> SUFFICES ASSUME NoYieldTo
             PROVE  KSpec => []NoUseAfterFree
  OBVIOUS
<1>1. ASSUME KIInv, NEW t \in Referenced, t \in freed
      PROVE  FALSE
  <2>1. t \in THREADS /\ Dead(t) /\ t \notin tree \cup members
    BY <1>1 DEF KIInv, KTypeOK, TreeInv, TreeOK
  <2>2. /\ t \notin Range(ready) \cup timers
        /\ \A q \in QUEUES : t \notin Range(waiters[q])
        /\ \A c \in CPUS : phase[c] = "switch" => next[c] # t
        /\ \A c \in CPUS : current[c] # t
    BY <1>1, <2>1 DEF KIInv, IInv, GoneInv, Waiting
  <2>3. \A c \in CPUS : ~Directed(c)
    BY <1>1, NotDirected
  <2>4. PICK v \in THREADS :
          /\ Within(v, {"mr_go", "tv_lock", "tv_wake", "fk_join", "fk_joined",
                        "fk_add", "fk_go"})
          /\ arg[v] = t
    BY <1>1, <2>1, <2>2, <2>3 DEF Referenced
  <2>5. Doing(v) \in {"mr_go", "tv_lock", "tv_wake", "fk_join", "fk_joined",
                      "fk_add", "fk_go"}
    <3>1. {"mr_go", "tv_lock", "tv_wake", "fk_join", "fk_joined", "fk_add", "fk_go"}
             \subseteq CallLabels
      BY DEF CallLabels
    <3> QED
      BY <1>1, <2>4, <3>1, WithinFacts, ConstantFacts DEF KIInv
  <2>6. ArgOK(v)
    BY <1>1 DEF KIInv, ArgInv
  <2>7. CASE Doing(v) \in Waking
    BY <2>1, <2>4, <2>6, <2>7 DEF ArgOK, Off, Dead
  <2>8. CASE Doing(v) \in Killing
    BY <2>1, <2>4, <2>6, <2>8 DEF ArgOK
  <2>9. CASE Doing(v) \in Forking
    BY <1>1, <2>4, <2>6, <2>9 DEF ArgOK
  <2> QED
    BY <2>5, <2>7, <2>8, <2>9 DEF Waking, Killing, Forking
<1>2. KIInv => NoUseAfterFree
  BY <1>1 DEF NoUseAfterFree
<1> QED
  BY <1>2, KInvariance, PTL

\* A thread that sleeps with its flag set is being woken: no make_runnable is lost.
THEOREM WakeupsKept == NoYieldTo => (KSpec => []NoLostWakeup)
<1> SUFFICES ASSUME NoYieldTo
             PROVE  KSpec => []NoLostWakeup
  OBVIOUS
<1>1. ASSUME KIInv, NEW u \in THREADS, reject[u], status[u] = "DESCHEDULED"
      PROVE  \E t \in THREADS :
               arg[t] = u /\ Within(t, {"mr_find", "mr_go", "tv_lock", "tv_wake"})
  <2>1. PICK t \in THREADS : arg[t] = u /\ Doing(t) \in ForFlag
    BY <1>1 DEF KIInv, WakeInv, Asleep, Off
  <2>2. ForFlag \subseteq CallLabels
    BY DEF ForFlag, CallLabels
  <2> QED
    BY <1>1, <2>1, <2>2, WithinFacts, ConstantFacts DEF KIInv, ForFlag
<1>2. KIInv => NoLostWakeup
  BY <1>1 DEF NoLostWakeup
<1> QED
  BY <1>2, KInvariance, PTL

\* A thread that sleeps with an exit pending is being woken: task_vanish misses none.
THEOREM KilledWoken == NoYieldTo => (KSpec => []KilledNotAsleep)
<1> SUFFICES ASSUME NoYieldTo
             PROVE  KSpec => []KilledNotAsleep
  OBVIOUS
<1>1. ASSUME KIInv, NEW u \in THREADS, pending[u], status[u] = "DESCHEDULED"
      PROVE  \E t \in THREADS :
               arg[t] = u /\ Within(t, {"mr_go", "tv_lock", "tv_wake"})
  <2>1. PICK t \in THREADS : arg[t] = u /\ Doing(t) \in ForExit
    BY <1>1 DEF KIInv, WakeInv, Asleep, Off
  <2>2. ForExit \subseteq CallLabels
    BY DEF ForExit, CallLabels
  <2> QED
    BY <1>1, <2>1, <2>2, WithinFacts, ConstantFacts DEF KIInv, ForExit
<1>2. KIInv => KilledNotAsleep
  BY <1>1 DEF KilledNotAsleep
<1> QED
  BY <1>2, KInvariance, PTL

\* A CPU that spins holds only spinlocks that come before the one it spins for: condition
\* variable or status_lock, mutex, ready_lock; timer_lock, ready_lock.
LEMMA KWantedFacts ==
  ASSUME KIInv, NEW e \in CPUS, KWanted(e) # None
  PROVE  /\ KWanted(e) \in MUTEXES \cup THREADS \cup {TimerLock, ReadyLock}
         /\ spl[ReadyLock] # e
         /\ KWanted(e) \in MUTEXES => \A l \in MUTEXES \cup {TimerLock} : spl[l] # e
         /\ KWanted(e) \in THREADS \cup {TimerLock} =>
              \A l \in GUARDS \cup THREADS : spl[l] # e
<1>1. PICK t \in AllThreads : t = current[e]
  BY DEF KIInv, IInv, TypeOK
<1>2. \A l \in GUARDS : spl[l] = e <=> Holds(e, l)
  BY DEF KIInv, IInv, SpinInv
<1>3. /\ MUTEXES \subseteq GUARDS /\ ReadyLock \in GUARDS /\ TimerLock \in GUARDS
      /\ GUARDS \cap THREADS = {} /\ MUTEXES \cap CVS = {} /\ ReadyLock # TimerLock
      /\ TimerLock \notin MUTEXES \cup CVS /\ None \notin THREADS
  BY ConstantFacts
<1>4. ASSUME phase[e] = "run", pc[t] \in CallLabels
      PROVE  /\ \A l \in GUARDS : spl[l] # e
             /\ t \in THREADS /\ Doing(t) = pc[t]
  <2>1. ret[t] = "run" /\ pc[t] \notin {"lk_sel", "ul_wake", "sg_wake", "sl_sel", "cw_sel"}
        /\ Doing(t) = pc[t] /\ t \in THREADS
    BY <1>4, DoingFacts, LabelFacts DEF KIInv
  <2> QED
    BY <1>1, <1>2, <1>4, <2>1 DEF Holds, ThreadHolds, InCvWait
<1>5. CASE phase[e] = "run" /\ pc[t] \in {"ds_sel", "mr_go", "tv_wake", "fk_go", "yt_find"}
  <2>1. pc[t] \in CallLabels
    BY <1>5 DEF CallLabels
  <2>2. arg[t] \notin tree \/ pc[t] # "yt_find"
    BY <1>4, <1>5, <2>1, <1>3 DEF KIInv, ArgInv, ArgOK, KTypeOK
  <2>3. pc[t] \notin {"lk", "ul", "lk_sel", "ul_wake", "cw_sel", "sg_wake", "sl_sel", "kloop"}
    BY <1>5
  <2>4. KWanted(e) = ReadyLock
    BY <1>1, <1>5, <2>2, <2>3 DEF KWanted, Wanted
  <2> QED
    BY <1>3, <1>4, <1>5, <2>1, <2>4
<1>6. CASE phase[e] = "run" /\ pc[t] \in {"tv_lock", "mr_find"}
  <2>1. pc[t] \in CallLabels
    BY <1>6 DEF CallLabels
  <2>2. pc[t] \notin {"lk", "ul", "lk_sel", "ul_wake", "cw_sel", "sg_wake", "sl_sel", "kloop"}
    BY <1>6
  <2>3. KWanted(e) = arg[t] /\ arg[t] \in THREADS
    BY <1>1, <1>4, <1>6, <2>1, <2>2
       DEF KWanted, Wanted, KIInv, ArgInv, ArgOK, Killing, KTypeOK
  <2>4. \A u \in THREADS : spl[u] # e
    BY <1>1, <1>4, <1>6, <2>1, NoStatusLock DEF Guarding
  <2> QED
    BY <1>3, <1>4, <1>6, <2>1, <2>3, <2>4
<1>7. CASE ~(phase[e] = "run" /\ pc[t] \in {"ds_sel", "mr_go", "tv_wake", "fk_go", "yt_find",
                                            "tv_lock", "mr_find"})
  <2>1. KWanted(e) = Wanted(e)
    BY <1>1, <1>7 DEF KWanted
  <2>2. /\ ~Holds(e, ReadyLock)
        /\ Wanted(e) \in MUTEXES => \A l \in GUARDS : Holds(e, l) => l \in CVS
        /\ Wanted(e) = TimerLock => \A l \in GUARDS : ~Holds(e, l)
        /\ Wanted(e) \in MUTEXES \cup {TimerLock, ReadyLock}
    BY <2>1, WantedFacts DEF KIInv
  <2>3. Wanted(e) = TimerLock => phase[e] = "tick"
    <3>1. ReadyLock # TimerLock /\ None # TimerLock
      BY ConstantFacts
    <3>2. pc[t] \in {"lk", "ul"} => mtx[t] # TimerLock
      BY <1>3 DEF KIInv, IInv, PcInv
    <3> QED
      BY <1>1, <3>1, <3>2 DEF Wanted
  <2>4. Wanted(e) = TimerLock => \A u \in THREADS : spl[u] # e
    BY <2>3, NoStatusLock
  <2> QED
    BY <1>2, <1>3, <2>1, <2>2, <2>4
<1> QED
  BY <1>5, <1>6, <1>7

\* No two CPUs ever spin for each other's spinlock, the status_locks included.
THEOREM KSpinlockOrder == NoYieldTo => (KSpec => []KNoSpinDeadlock)
<1> SUFFICES ASSUME NoYieldTo
             PROVE  KSpec => []KNoSpinDeadlock
  OBVIOUS
<1>1. ASSUME KIInv, NEW c \in CPUS, NEW d \in CPUS, KWanted(c) # None,
             spl[KWanted(c)] = d, KWanted(d) # None, spl[KWanted(d)] = c
      PROVE  FALSE
  <2>1. MUTEXES \subseteq GUARDS /\ ReadyLock \in GUARDS /\ TimerLock \in GUARDS
    BY ConstantFacts
  <2>2. KWanted(c) \notin THREADS \cup {TimerLock, ReadyLock}
    BY <1>1, <2>1, KWantedFacts
  <2>3. KWanted(d) \notin THREADS \cup {TimerLock, ReadyLock}
    BY <1>1, <2>1, KWantedFacts
  <2> QED
    BY <1>1, <2>2, <2>3, KWantedFacts
<1>2. KIInv => KNoSpinDeadlock
  BY <1>1 DEF KNoSpinDeadlock
<1> QED
  BY <1>2, KInvariance, PTL

\* The threads that end and start leave each mutex with one owner, malloc_lock too,
\* which a dying thread leaves to its CPU.
THEOREM KMutualExclusion == NoYieldTo => (KSpec => []Ownership)
<1> SUFFICES ASSUME NoYieldTo
             PROVE  KSpec => []Ownership
  OBVIOUS
<1>1. KIInv => Ownership
  BY OwnershipFacts DEF KIInv
<1> QED
  BY <1>1, KInvariance, PTL

\* A thread that thread_fork has just made, or that has been descheduled, is switched to
\* only when its context is there.
THEOREM KSavedContext == NoYieldTo => (KSpec => []SavedBeforeSwitch)
<1> SUFFICES ASSUME NoYieldTo
             PROVE  KSpec => []SavedBeforeSwitch
  OBVIOUS
<1>1. KIInv => SavedBeforeSwitch
  BY SavedFacts DEF KIInv
<1> QED
  BY <1>1, KInvariance, PTL

\* What sync.h says of mutex_lock fails only through yield(tid).
THEOREM KBlockedIfHeld == NoYieldTo => (KSpec => []BlockedIfHeld)
<1> SUFFICES ASSUME NoYieldTo
             PROVE  KSpec => []BlockedIfHeld
  OBVIOUS
<1>1. ASSUME KIInv, NEW m \in MUTEXES, NEW t \in THREADS, NEW u \in THREADS,
             m \in held[t], m \in held[u]
      PROVE  t = u
  <2>1. Owns(t, m) /\ Owns(u, m) /\ t \in AllThreads /\ u \in AllThreads
    BY <1>1, ConstantFacts DEF Owns
  <2> QED
    BY <1>1, <2>1 DEF KIInv, IInv, OwnInv
<1>2. KIInv => BlockedIfHeld
  BY <1>1 DEF BlockedIfHeld
<1> QED
  BY <1>2, KInvariance, PTL
=============================================================================
