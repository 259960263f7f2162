---------------------------------- MODULE ShellProofs ----------------------------------
(***********************************************************************************)
(* The invariants of module Shell for every set of lines, scripts and programs,    *)
(* every number of pids and every bound on settled records, and those of the        *)
(* executions of python and pip that MCShell has beside them.                      *)
(*                                                                                 *)
(* The argument for NoOrphan: a line's processes are started only in the stretch   *)
(* between two awaits that has just looked at `canceled`, so at every await either *)
(* none of them is running or the runner waits for all that are; and a composite    *)
(* settles only when its runner is at its end or in the callback that cancels the  *)
(* line and kills what it runs.  Neither is inductive without knowing that pids    *)
(* are handed out once: a composite's pid is never a process's, and no process     *)
(* belongs to two lines.                                                           *)
(***********************************************************************************)
EXTENDS MCShell, TLAPS, SequenceTheorems, FiniteSetTheorems

------------------------------------------------------------------------------------
(* What one step of the process table preserves, whatever the number of pids, the bound on settled records and the *)
(* processes that settle in the step.                                                                             *)

\* The processes a step may settle: each once, running or just started by the step.
SettlesOnce(n, ps) ==
    /\ ps \in Seq(Pid)
    /\ \A i, j \in DOMAIN ps : ps[i] = ps[j] => i = j
    /\ \A i \in DOMAIN ps : Running(ps[i]) \/ ps[i] \in Fresh(n)

\* The table's invariant: its types, the agreement of its records, and Retention.
TableInv == TableTypeOK /\ RecordsConsistent /\ Retention

\* The fresh pids are pids no record has used.
LEMMA FreshUnused ==
    ASSUME TableTypeOK, RecordsConsistent, NEW n \in Nat, nextPid + n - 1 \in 0 .. MaxPid
    PROVE  /\ Fresh(n) \subseteq Pid
           /\ \A p \in Fresh(n) : state[p] = "unused"
BY TableAssumption DEF TableTypeOK, RecordsConsistent, Fresh, Pid

\* The initial table satisfies the invariant.
LEMMA TableInitInv == TableInit => TableInv
<1> SUFFICES ASSUME TableInit PROVE TableInv
  OBVIOUS
<1>1. TableTypeOK
  BY TableAssumption DEF TableInit, TableTypeOK, Pid, ProcessState, NoCode
<1>2. RecordsConsistent
  BY TableAssumption DEF TableInit, RecordsConsistent, Pid, NoCode, Settled, Running
<1>3. Retention
  BY TableAssumption DEF TableInit, Retention, Pid, Settled, Running, Elements
<1> QED BY <1>1, <1>2, <1>3 DEF TableInv

\* What reaping drops is of the queue, and what it leaves fits.
LEMMA ExcessBounds ==
    ASSUME NEW q, Len(q) \in Nat
    PROVE  /\ Excess(q) \in 0 .. Len(q) /\ Len(q) - Excess(q) \in Nat /\ Len(q) - Excess(q) <= MAX_SETTLED_RECORDS
<1>1. ASSUME NEW n \in Nat, NEW b \in Nat, NEW x, x = IF n > b THEN n - b ELSE 0
      PROVE  x \in 0 .. n /\ n - x \in Nat /\ n - x <= b
  BY <1>1
<1> QED BY <1>1, TableAssumption DEF Excess

\* The types survive a step.
LEMMA TableStepTypeOK ==
    ASSUME TableTypeOK, RecordsConsistent,
           NEW n \in Nat, NEW live \in BOOLEAN, NEW ps, SettlesOnce(n, ps),
           NEW how \in {"exited", "killed"}, NEW c \in Nat,
           TableStep(n, live, ps, how, c)
    PROVE  TableTypeOK'
<1> DEFINE queue == settledPids \o ps
           drop == Excess(queue)
<1>1. nextPid' \in 1 .. (MaxPid + 1)
  BY TableAssumption DEF TableTypeOK, TableStep
<1>2. state' \in [Pid -> ProcessState]
  <2>1. state \in [Pid -> ProcessState] /\ how \in ProcessState /\ "running" \in ProcessState
    BY DEF TableTypeOK, ProcessState
  <2> QED BY <2>1 DEF TableStep
<1>7. exitCode' \in [Pid -> Nat \cup {NoCode}]
  BY DEF TableTypeOK, TableStep
<1>8. stdoutOpen' \in [Pid -> BOOLEAN]
  <2>1. stdoutOpen \in [Pid -> BOOLEAN]
    BY DEF TableTypeOK
  <2> QED BY <2>1 DEF TableStep
<1>3. queue \in Seq(Pid) /\ Len(queue) \in Nat
  BY DEF TableTypeOK, SettlesOnce
<1>4. drop \in 0 .. Len(queue)
  BY <1>3, ExcessBounds
<1>5. settledPids' \in Seq(Pid)
  <2>1. settledPids' = SubSeq(queue, drop + 1, Len(queue))
    BY DEF TableStep, ReapSettled
  <2> HIDE DEF queue, drop
  <2> QED BY <1>3, <1>4, <2>1
<1>6. procs' \subseteq Pid
  BY FreshUnused DEF TableTypeOK, TableStep, ReapSettled
<1> QED BY <1>1, <1>2, <1>5, <1>6, <1>7, <1>8 DEF TableTypeOK

\* The agreement of pids, exit codes and open streams survives a step.
LEMMA TableStepConsistent ==
    ASSUME TableTypeOK, RecordsConsistent,
           NEW n \in Nat, NEW live \in BOOLEAN, NEW ps, SettlesOnce(n, ps),
           NEW how \in {"exited", "killed"}, NEW c \in Nat,
           TableStep(n, live, ps, how, c)
    PROVE  RecordsConsistent'
<1> SUFFICES ASSUME NEW p \in Pid
             PROVE  /\ (state'[p] = "unused") <=> (p >= nextPid')
                    /\ (exitCode'[p] = NoCode) <=> ~(state'[p] \in {"exited", "killed"})
                    /\ stdoutOpen'[p] => state'[p] = "running"
  BY DEF RecordsConsistent, Settled, Running
<1>1. nextPid \in Nat /\ nextPid' = nextPid + n /\ p \in Int
  BY TableAssumption DEF TableTypeOK, TableStep, Pid
<1>2. CASE p \in Elements(ps)
  <2>1. state'[p] = how /\ exitCode'[p] = c /\ stdoutOpen'[p] = FALSE
    BY <1>2 DEF TableStep
  <2>2. p < nextPid'
    <3>1. PICK i \in DOMAIN ps : p = ps[i]
      BY <1>2 DEF Elements
    <3>2. Running(p) \/ p \in Fresh(n)
      BY <3>1 DEF SettlesOnce
    <3> QED BY <1>1, <3>2 DEF RecordsConsistent, Running, Fresh
  <2> QED BY <1>1, <2>1, <2>2 DEF NoCode
<1>3. CASE p \notin Elements(ps) /\ p \in Fresh(n)
  <2>1. state'[p] = "running" /\ exitCode'[p] = exitCode[p]
    BY <1>3 DEF TableStep
  <2>2. state[p] = "unused" /\ exitCode[p] = NoCode
    BY <1>3, FreshUnused DEF TableStep, RecordsConsistent, Settled
  <2>3. p < nextPid'
    BY <1>1, <1>3 DEF Fresh
  <2> QED BY <1>1, <2>1, <2>2, <2>3
<1>4. CASE p \notin Elements(ps) /\ p \notin Fresh(n)
  <2>1. state'[p] = state[p] /\ exitCode'[p] = exitCode[p] /\ stdoutOpen'[p] = stdoutOpen[p]
    BY <1>4 DEF TableStep
  <2>2. (p >= nextPid') <=> (p >= nextPid)
    BY <1>1, <1>4 DEF Fresh
  <2> QED BY <2>1, <2>2 DEF RecordsConsistent, Settled, Running
<1> QED BY <1>2, <1>3, <1>4

\* The eviction queue with the pids of ps behind it.
Queue(ps) == settledPids \o ps

\* The extended queue holds every pid once, and all of them are settled after the step.
LEMMA QueueDistinct ==
    ASSUME TableInv, NEW n \in Nat, nextPid + n - 1 \in 0 .. MaxPid,
           NEW ps, SettlesOnce(n, ps)
    PROVE  /\ Queue(ps) \in Seq(Pid)
           /\ Len(Queue(ps)) = Len(settledPids) + Len(ps)
           /\ \A i \in 1 .. Len(settledPids) : Queue(ps)[i] = settledPids[i]
           /\ \A i \in 1 .. Len(ps) : Queue(ps)[Len(settledPids) + i] = ps[i]
           /\ \A i, j \in 1 .. Len(Queue(ps)) : Queue(ps)[i] = Queue(ps)[j] => i = j
<1> DEFINE queue == Queue(ps)
           m == Len(settledPids)
           k == Len(ps)
<1>1. settledPids \in Seq(Pid) /\ ps \in Seq(Pid) /\ m \in Nat /\ k \in Nat
  BY DEF TableInv, TableTypeOK, SettlesOnce
<1>2. /\ queue \in Seq(Pid) /\ Len(queue) = m + k
      /\ \A i \in 1 .. m : queue[i] = settledPids[i]
      /\ \A i \in 1 .. k : queue[m + i] = ps[i]
  BY <1>1 DEF Queue
<1>3. \A i \in 1 .. m, j \in 1 .. k : settledPids[i] # ps[j]
  <2> SUFFICES ASSUME NEW i \in 1 .. m, NEW j \in 1 .. k, settledPids[i] = ps[j]
               PROVE  FALSE
    OBVIOUS
  <2>1. i \in DOMAIN settledPids /\ j \in DOMAIN ps
    BY <1>1
  <2>2. Settled(settledPids[i])
    BY <2>1 DEF TableInv, Retention, Elements
  <2>3. Running(ps[j]) \/ ps[j] \in Fresh(n)
    BY <2>1 DEF SettlesOnce
  <2> QED BY <2>2, <2>3, FreshUnused DEF TableInv, Settled, Running
<1>4. \A i, j \in 1 .. m : settledPids[i] = settledPids[j] => i = j
  BY <1>1 DEF TableInv, Retention
<1>5. \A i, j \in 1 .. k : ps[i] = ps[j] => i = j
  BY <1>1 DEF SettlesOnce
<1>6. ASSUME NEW i \in 1 .. Len(queue), NEW j \in 1 .. Len(queue), queue[i] = queue[j]
      PROVE  i = j
  <2> HIDE DEF queue, m, k
  <2>1. CASE i <= m /\ j <= m
    BY <1>1, <1>2, <1>4, <1>6, <2>1
  <2>2. CASE i <= m /\ j > m
    <3>1. i \in 1 .. m /\ j - m \in 1 .. k /\ m + (j - m) = j
      BY <1>1, <1>2, <2>2
    <3>2. queue[i] = settledPids[i] /\ queue[m + (j - m)] = ps[j - m]
      BY <1>2, <3>1
    <3>3. settledPids[i] # ps[j - m]
      BY <1>3, <3>1
    <3> QED BY <1>6, <3>1, <3>2, <3>3
  <2>3. CASE i > m /\ j <= m
    <3>1. j \in 1 .. m /\ i - m \in 1 .. k /\ m + (i - m) = i
      BY <1>1, <1>2, <2>3
    <3>2. queue[j] = settledPids[j] /\ queue[m + (i - m)] = ps[i - m]
      BY <1>2, <3>1
    <3>3. settledPids[j] # ps[i - m]
      BY <1>3, <3>1
    <3> QED BY <1>6, <3>1, <3>2, <3>3
  <2>4. CASE i > m /\ j > m
    <3>1. /\ i - m \in 1 .. k /\ m + (i - m) = i
          /\ j - m \in 1 .. k /\ m + (j - m) = j
      BY <1>1, <1>2, <2>4
    <3>2. queue[m + (i - m)] = ps[i - m] /\ queue[m + (j - m)] = ps[j - m]
      BY <1>2, <3>1
    <3>3. ps[i - m] = ps[j - m]
      BY <1>6, <3>1, <3>2
    <3>4. i - m = j - m
      BY <1>5, <3>1, <3>3
    <3> QED BY <1>1, <1>2, <3>4
  <2> QED BY <1>1, <1>2, <2>1, <2>2, <2>3, <2>4
<1> QED BY <1>2, <1>6

\* Retention survives a step.
LEMMA TableStepRetention ==
    ASSUME TableInv,
           NEW n \in Nat, NEW live \in BOOLEAN, NEW ps, SettlesOnce(n, ps),
           NEW how \in {"exited", "killed"}, NEW c \in Nat,
           TableStep(n, live, ps, how, c)
    PROVE  Retention'
<1> DEFINE queue == Queue(ps)
           m == Len(settledPids)
           k == Len(ps)
           drop == Excess(queue)
<1>0. nextPid + n - 1 \in 0 .. MaxPid
  BY DEF TableStep
<1>1. /\ queue \in Seq(Pid) /\ Len(queue) = m + k /\ m \in Nat /\ k \in Nat
      /\ \A i \in 1 .. m : queue[i] = settledPids[i]
      /\ \A i \in 1 .. k : queue[m + i] = ps[i]
      /\ \A i, j \in 1 .. (m + k) : queue[i] = queue[j] => i = j
  <2>1. settledPids \in Seq(Pid) /\ ps \in Seq(Pid)
    BY DEF TableInv, TableTypeOK, SettlesOnce
  <2>2. m \in Nat /\ k \in Nat
    BY <2>1
  <2>3. /\ queue \in Seq(Pid)
        /\ Len(queue) = Len(settledPids) + Len(ps)
        /\ \A i \in 1 .. Len(settledPids) : queue[i] = settledPids[i]
        /\ \A i \in 1 .. Len(ps) : queue[Len(settledPids) + i] = ps[i]
        /\ \A i, j \in 1 .. Len(queue) : queue[i] = queue[j] => i = j
    BY <1>0, QueueDistinct
  <2> QED BY <2>2, <2>3
<1>2. /\ drop \in 0 .. (m + k) /\ (m + k) - drop <= MAX_SETTLED_RECORDS
  <2> HIDE DEF queue, m, k
  <2>1. Len(queue) = m + k /\ Len(queue) \in Nat
    BY <1>1
  <2> QED BY <2>1, ExcessBounds DEF drop
<1>3. /\ settledPids' = SubSeq(queue, drop + 1, m + k)
      /\ procs' = (procs \cup Fresh(n)) \ {queue[i] : i \in 1 .. drop}
  BY <1>1 DEF TableStep, ReapSettled, Queue
<1>4. /\ Len(settledPids') = (m + k) - drop
      /\ DOMAIN settledPids' = 1 .. ((m + k) - drop)
      /\ \A j \in 1 .. ((m + k) - drop) : settledPids'[j] = queue[j + drop]
  <2> HIDE DEF queue, drop, m, k
  <2>1. drop + 1 \in 1 .. Len(queue) + 1 /\ m + k \in (drop + 1) - 1 .. Len(queue)
    BY <1>1, <1>2
  <2>2. /\ settledPids' \in Seq(Pid)
        /\ Len(settledPids') = (m + k) - (drop + 1) + 1
        /\ \A i \in 1 .. (m + k) - (drop + 1) + 1 : settledPids'[i] = queue[(drop + 1) + i - 1]
    <3> DEFINE first == drop + 1
               last == m + k
    <3>1. queue \in Seq(Pid) /\ first \in 1 .. Len(queue) + 1 /\ last \in first - 1 .. Len(queue)
      BY <1>1, <2>1
    <3>2. settledPids' = SubSeq(queue, first, last)
      BY <1>3
    <3> HIDE DEF first, last
    <3>3. /\ SubSeq(queue, first, last) \in Seq(Pid)
          /\ Len(SubSeq(queue, first, last)) = last - first + 1
          /\ \A i \in 1 .. last - first + 1 : SubSeq(queue, first, last)[i] = queue[first + i - 1]
      BY <3>1, SubSeqProperties
    <3> QED BY <3>2, <3>3 DEF first, last
  <2>3. (m + k) - (drop + 1) + 1 = (m + k) - drop
    BY <1>1, <1>2
  <2>4. \A i \in 1 .. ((m + k) - drop) : (drop + 1) + i - 1 = i + drop
    BY <1>1, <1>2
  <2> QED BY <2>2, <2>3, <2>4
<1>5. \A p \in Elements(ps) : p \in Pid /\ (Running(p) \/ p \in Fresh(n))
                              /\ \E i \in 1 .. k : p = ps[i]
  BY <1>1 DEF SettlesOnce, Elements
<1>6. \A i \in 1 .. k : ps[i] \in Elements(ps)
  BY DEF Elements, SettlesOnce
<1>7. \A i \in 1 .. m : /\ settledPids[i] \in Elements(settledPids)
                        /\ Settled(settledPids[i]) /\ settledPids[i] \in procs
  BY DEF Elements, TableInv, TableTypeOK, Retention
<1>8. \A p \in Elements(settledPids) : \E i \in 1 .. m : p = settledPids[i]
  <2>1. DOMAIN settledPids = 1 .. m
    BY DEF TableInv, TableTypeOK
  <2> QED BY <2>1 DEF Elements
<1>9. \A p \in Pid : /\ p \in Elements(ps) => state'[p] = how
                     /\ p \notin Elements(ps) /\ p \in Fresh(n) => state'[p] = "running"
                     /\ p \notin Elements(ps) /\ p \notin Fresh(n) => state'[p] = state[p]
  BY DEF TableStep
<1>10. \A i \in 1 .. (m + k) : /\ queue[i] \in Pid /\ queue[i] \in procs \cup Fresh(n)
                               /\ state'[queue[i]] \in {"exited", "killed"}
  <2> SUFFICES ASSUME NEW i \in 1 .. (m + k)
               PROVE  /\ queue[i] \in Pid /\ queue[i] \in procs \cup Fresh(n)
                      /\ state'[queue[i]] \in {"exited", "killed"}
    OBVIOUS
  <2>0. queue[i] \in Pid
    BY <1>1
  <2>1. CASE i <= m
    <3>1. i \in 1 .. m /\ queue[i] = settledPids[i]
      BY <1>1, <2>1
    <3>2. Settled(queue[i]) /\ queue[i] \in procs
      BY <1>7, <3>1
    <3>3. queue[i] \notin Fresh(n)
      BY <1>0, <3>2, FreshUnused DEF TableInv, Settled
    <3> QED BY <1>9, <2>0, <3>2, <3>3 DEF Settled
  <2>2. CASE i > m
    <3>1. i - m \in 1 .. k /\ m + (i - m) = i
      BY <1>1, <2>2
    <3>2. queue[i] = ps[i - m] /\ queue[i] \in Elements(ps)
      BY <1>1, <1>6, <3>1
    <3>3. queue[i] \in procs \cup Fresh(n)
      BY <1>5, <2>0, <3>2 DEF TableInv, Retention
    <3> QED BY <1>9, <2>0, <3>2, <3>3
  <2> QED BY <1>1, <2>1, <2>2
<1>11. Elements(settledPids') = {queue[i] : i \in (drop + 1) .. (m + k)}
  <2> HIDE DEF queue, drop, m, k
  <2>1. \A j \in 1 .. ((m + k) - drop) : j + drop \in (drop + 1) .. (m + k)
    BY <1>1, <1>2
  <2>2. \A i \in (drop + 1) .. (m + k) : i - drop \in 1 .. ((m + k) - drop) /\ (i - drop) + drop = i
    BY <1>1, <1>2
  <2>3. \A i \in (drop + 1) .. (m + k) : \E j \in 1 .. ((m + k) - drop) : settledPids'[j] = queue[i]
    BY <1>4, <2>2
  <2>4. Elements(settledPids') = {settledPids'[j] : j \in 1 .. ((m + k) - drop)}
    BY <1>4 DEF Elements
  <2>5. ASSUME NEW p PROVE p \in Elements(settledPids') <=> \E i \in (drop + 1) .. (m + k) : p = queue[i]
    <3>1. ASSUME NEW j \in 1 .. ((m + k) - drop), p = settledPids'[j]
          PROVE  \E i \in (drop + 1) .. (m + k) : p = queue[i]
      BY <1>4, <2>1, <3>1
    <3>2. ASSUME NEW i \in (drop + 1) .. (m + k), p = queue[i]
          PROVE  \E j \in 1 .. ((m + k) - drop) : p = settledPids'[j]
      BY <2>3, <3>2
    <3> QED BY <2>4, <3>1, <3>2
  <2> QED BY <2>5
<1>12. procs' = {p \in Pid : Running(p)}' \cup Elements(settledPids')
  <2>1. ASSUME NEW p \in procs'
        PROVE  (p \in Pid /\ state'[p] = "running") \/ p \in Elements(settledPids')
    <3>1. p \in procs \cup Fresh(n) /\ \A i \in 1 .. drop : p # queue[i]
      BY <1>3, <2>1
    <3>2. p \in Pid
      BY <1>0, <3>1, FreshUnused DEF TableInv, TableTypeOK
    <3>3. ASSUME NEW i \in 1 .. (m + k), p = queue[i]
          PROVE  p \in Elements(settledPids')
      <4> HIDE DEF queue, drop, m, k
      <4>1. i \in (drop + 1) .. (m + k)
        BY <1>1, <1>2, <3>1, <3>3
      <4> QED BY <1>11, <3>3, <4>1
    <3>4. CASE p \in Elements(ps)
      <4>1. PICK i \in 1 .. k : p = ps[i]
        BY <1>5, <3>4
      <4>2. m + i \in 1 .. (m + k) /\ p = queue[m + i]
        BY <1>1, <4>1
      <4> QED BY <3>3, <4>2
    <3>5. CASE p \notin Elements(ps) /\ p \in Fresh(n)
      BY <1>9, <3>2, <3>5
    <3>6. CASE p \notin Elements(ps) /\ p \notin Fresh(n) /\ Running(p)
      BY <1>9, <3>2, <3>6 DEF Running
    <3>7. CASE p \notin Fresh(n) /\ ~Running(p)
      <4>1. p \in Elements(settledPids)
        BY <3>1, <3>7 DEF TableInv, Retention
      <4>2. PICK i \in 1 .. m : p = settledPids[i]
        BY <1>8, <4>1
      <4>3. i \in 1 .. (m + k) /\ p = queue[i]
        BY <1>1, <4>2
      <4> QED BY <3>3, <4>3
    <3> QED BY <3>4, <3>5, <3>6, <3>7
  <2>2. ASSUME NEW p \in Pid, state'[p] = "running"
        PROVE  p \in procs'
    <3>1. p \notin Elements(ps)
      BY <1>9, <2>2
    <3>2. p \in procs \cup Fresh(n)
      <4>1. CASE p \in Fresh(n)
        BY <4>1
      <4>2. CASE p \notin Fresh(n)
        <5>1. Running(p)
          BY <1>9, <2>2, <3>1, <4>2 DEF Running
        <5> QED BY <5>1 DEF TableInv, Retention
      <4> QED BY <4>1, <4>2
    <3>3. \A i \in 1 .. drop : i \in 1 .. (m + k)
      <4> HIDE DEF queue, drop, m, k
      <4> QED BY <1>1, <1>2
    <3>4. \A i \in 1 .. drop : p # queue[i]
      BY <1>10, <2>2, <3>3
    <3> QED BY <1>3, <3>2, <3>4
  <2>3. ASSUME NEW p \in Elements(settledPids')
        PROVE  p \in procs'
    <3>1. PICK i \in (drop + 1) .. (m + k) : p = queue[i]
      BY <1>11, <2>3
    <3> HIDE DEF queue, drop, m, k
    <3>2. i \in 1 .. (m + k) /\ \A j \in 1 .. drop : j \in 1 .. (m + k) /\ j # i
      BY <1>1, <1>2
    <3>3. \A j \in 1 .. drop : p # queue[j]
      BY <1>1, <3>1, <3>2
    <3>4. p \in procs \cup Fresh(n)
      BY <1>10, <3>1, <3>2
    <3> QED BY <1>3, <3>3, <3>4
  <2> QED BY <2>1, <2>2, <2>3 DEF Running
<1>13. \A p \in Elements(settledPids') : state'[p] \in {"exited", "killed"}
  <2>1. \A i \in (drop + 1) .. (m + k) : i \in 1 .. (m + k)
    <3> HIDE DEF queue, drop, m, k
    <3> QED BY <1>1, <1>2
  <2> QED BY <1>10, <1>11, <2>1
<1>14. \A i, j \in DOMAIN settledPids' : settledPids'[i] = settledPids'[j] => i = j
  <2> SUFFICES ASSUME NEW i \in 1 .. ((m + k) - drop), NEW j \in 1 .. ((m + k) - drop),
                      settledPids'[i] = settledPids'[j]
               PROVE  i = j
    BY <1>4
  <2> HIDE DEF queue, drop, m, k
  <2>1. i + drop \in 1 .. (m + k) /\ j + drop \in 1 .. (m + k)
    BY <1>1, <1>2
  <2>2. i + drop = j + drop
    BY <1>1, <1>4, <2>1
  <2> QED BY <1>1, <1>2, <2>2
<1>15. Len(settledPids') <= MAX_SETTLED_RECORDS
  BY <1>2, <1>4
<1> QED BY <1>12, <1>13, <1>14, <1>15 DEF Retention, Settled

\* One step of the table preserves its whole invariant.
LEMMA TableStepInv ==
    ASSUME TableInv,
           NEW n \in Nat, NEW live \in BOOLEAN, NEW ps, SettlesOnce(n, ps),
           NEW how \in {"exited", "killed"}, NEW c \in Nat,
           TableStep(n, live, ps, how, c)
    PROVE  TableInv'
BY TableStepTypeOK, TableStepConsistent, TableStepRetention DEF TableInv

\* A callback that changes nothing in the table keeps its invariant.
LEMMA TableStutter ==
    ASSUME TableInv, UNCHANGED tableVars
    PROVE  TableInv'
BY DEF TableInv, TableTypeOK, RecordsConsistent, Retention, Running, Settled, Elements, tableVars

\* What a step does to the records: those of ps settle, the fresh ones run, and every
\* other record is left as it was.
LEMMA TableStepStates ==
    ASSUME TableInv,
           NEW n \in Nat, NEW live \in BOOLEAN, NEW ps, SettlesOnce(n, ps),
           NEW how \in {"exited", "killed"}, NEW c \in Nat,
           TableStep(n, live, ps, how, c)
    PROVE  /\ Fresh(n) \subseteq Pid
           /\ \A p \in Fresh(n) : state[p] = "unused"
           /\ \A p \in Pid : /\ p \in Elements(ps) => state'[p] = how
                             /\ p \notin Elements(ps) /\ p \in Fresh(n) => state'[p] = "running"
                             /\ p \notin Elements(ps) /\ p \notin Fresh(n) => state'[p] = state[p]
BY FreshUnused DEF TableInv, TableStep

\* The orders a loop over a set of pids may settle it in are sequences of those pids,
\* each of them once.
LEMMA SpawnOrder ==
    ASSUME NEW S \in SUBSET Pid, NEW ps \in InSpawnOrder(S)
    PROVE  /\ ps \in Seq(Pid)
           /\ Elements(ps) = S
           /\ \A i, j \in DOMAIN ps : ps[i] = ps[j] => i = j
<1>1. Cardinality(S) \in Nat
  <2>1. IsFiniteSet(Pid)
    BY FS_Interval, TableAssumption DEF Pid
  <2> QED BY <2>1, FS_Subset, FS_CardinalityType
<1>2. /\ ps \in [1 .. Cardinality(S) -> S]
      /\ S \subseteq Elements(ps)
      /\ \A i, j \in DOMAIN ps : i < j => ps[i] < ps[j]
  BY DEF InSpawnOrder
<1>3. ps \in Seq(Pid)
  <2>1. ps \in Seq(S)
    BY <1>1, <1>2
  <2> QED BY <2>1
<1>4. Elements(ps) \subseteq S
  BY <1>2 DEF Elements
<1>5. \A i, j \in DOMAIN ps : ps[i] = ps[j] => i = j
  <2> SUFFICES ASSUME NEW i \in DOMAIN ps, NEW j \in DOMAIN ps, ps[i] = ps[j], i # j
               PROVE  FALSE
    OBVIOUS
  <2>1. i \in Int /\ j \in Int /\ ps[i] \in Int /\ ps[j] \in Int
    <3>1. DOMAIN ps = 1 .. Cardinality(S)
      BY <1>2
    <3>2. i \in Int /\ j \in Int
      BY <1>1, <3>1
    <3>3. ps[i] \in S /\ ps[j] \in S
      BY <1>2, <3>1
    <3>4. \A p \in S : p \in Pid
      OBVIOUS
    <3>5. \A p \in Pid : p \in Int
      BY DEF Pid
    <3> QED BY <3>2, <3>3, <3>4, <3>5
  <2>2. i < j \/ j < i
    BY <2>1
  <2>3. ps[i] < ps[j] \/ ps[j] < ps[i]
    BY <1>2, <2>2
  <2> QED BY <2>1, <2>3
<1> QED BY <1>2, <1>3, <1>4, <1>5

------------------------------------------------------------------------------------
(* The lines. *)

\* Who a pid belongs to: bodies and line records are spawned processes, a composite is
\* not, and lines share neither.
Allocated ==
    /\ \A p \in Pid : prog[p] # NoProgram => state[p] # "unused"
    /\ \A p \in Pid : body[p] # "none" => prog[p] # NoProgram
    /\ \A l \in Line : owner[l] # 0 => state[owner[l]] # "unused" /\ prog[owner[l]] = NoProgram
    /\ \A l \in Line : \A p \in records[l] : prog[p] # NoProgram
    /\ \A l, m \in Line : l # m => (owner[l] = 0 \/ owner[l] # owner[m])
    /\ \A l, m \in Line : l # m => records[l] \cap records[m] = {}

\* Where a runner can be, given what its line is.
Position(l) ==
    /\ pc[l] \in {"expand", "sub", "launch", "wait"} => item[l] \in DOMAIN script[l]
    /\ pc[l] = "idle" => owner[l] = 0 /\ records[l] = {} /\ ~canceled[l]
    /\ pc[l] # "idle" /\ way[l] # "session" => owner[l] # 0
    /\ pc[l] = "ended" => way[l] = "exec"
    /\ pc[l] = "wait" => stages[l] # <<>>

\* Which processes a line may have running, and when its composite may be settled.
Accounted(l) ==
    /\ canceled[l] => LineProcesses(l) = {}
    /\ pc[l] \notin {"sub", "wait"} => LineProcesses(l) = {}
    /\ LineProcesses(l) \subseteq Elements(stages[l])
    /\ owner[l] # 0 /\ Settled(owner[l]) => canceled[l] \/ pc[l] = "done"

LineInv == Allocated /\ \A l \in Line : Position(l) /\ Accounted(l)

IInv == TableInv /\ RunTypeOK /\ IoTypeOK /\ LineInv

\* The item a runner is at is an item of the line's script.
LEMMA CurrentItemType ==
    ASSUME RunTypeOK, NEW l \in Line, item[l] \in DOMAIN script[l]
    PROVE  /\ script[l] \in Seq(Item)
           /\ CurrentItem(l) \in Item
           /\ CurrentItem(l).stages \in Seq(Stage)
           /\ Len(CurrentItem(l).stages) \in Nat \ {0}
<1>1. script[l] \in Seq(Item)
  <2>1. <<>> \in Seq(Item)
    OBVIOUS
  <2> QED BY <2>1, ShellAssumption DEF RunTypeOK
<1>2. CurrentItem(l) \in Item
  BY <1>1 DEF CurrentItem
<1>3. CurrentItem(l).stages \in Seq(Stage) \ {<<>>}
  BY <1>2 DEF Item
<1> QED BY <1>1, <1>2, <1>3

\* The initial state satisfies the invariant.
LEMMA InitInv == Init => IInv
<1> SUFFICES ASSUME Init PROVE IInv
  OBVIOUS
<1>1. TableInv
  BY TableInitInv DEF Init
<1>2. RunTypeOK
  BY DEF Init, ShellInit, RunTypeOK, Way, Runner
<1>3. IoTypeOK
  BY DEF Init, IoInit, IoTypeOK
<1>4. LineInv
  BY DEF Init, ShellInit, IoInit, LineInv, Allocated, Position, Accounted, LineProcesses
<1> QED BY <1>1, <1>2, <1>3, <1>4 DEF IInv

\* A line that a step does not touch keeps its part of the invariant, when its records
\* stay as they are or settle and its composite stays as it is.
LEMMA LineUntouched ==
    ASSUME NEW m \in Line, Position(m), Accounted(m),
           script'[m] = script[m], way'[m] = way[m], pc'[m] = pc[m], item'[m] = item[m],
           canceled'[m] = canceled[m], owner'[m] = owner[m], records'[m] = records[m],
           stages'[m] = stages[m],
           \A p \in records[m] : state'[p] = state[p] \/ state'[p] \in {"exited", "killed"},
           owner[m] # 0 => state'[owner[m]] = state[owner[m]]
    PROVE  Position(m)' /\ Accounted(m)'
<1>1. Position(m)'
  BY DEF Position
<1>2. LineProcesses(m)' \subseteq LineProcesses(m)
  BY DEF LineProcesses, Running
<1>3. (owner[m] # 0 /\ Settled(owner[m]))' => owner[m] # 0 /\ Settled(owner[m])
  BY DEF Settled
<1>4. Accounted(m)'
  BY <1>2, <1>3 DEF Accounted, Elements
<1> QED BY <1>1, <1>4

\* A process settles: what the processes themselves, `kill` and the registry's bodies do.
LEMMA ProcessStep ==
    ASSUME IInv, UNCHANGED <<runVars, prog>>,
           \A p \in Pid : body'[p] # "none" => body[p] # "none",
           \A p \in Pid : \/ state'[p] = state[p]
                          \/ prog[p] # NoProgram /\ state'[p] \in {"exited", "killed"}
    PROVE  LineInv'
<1>1. Allocated'
  <2>1. \A p \in Pid : state[p] # "unused" => state'[p] # "unused"
    OBVIOUS
  <2> QED BY <2>1 DEF IInv, RunTypeOK, LineInv, Allocated, runVars
<1>2. ASSUME NEW m \in Line PROVE Position(m)' /\ Accounted(m)'
  <2>1. records[m] \subseteq Pid /\ (owner[m] # 0 => owner[m] \in Pid /\ prog[owner[m]] = NoProgram)
    BY DEF IInv, RunTypeOK, LineInv, Allocated
  <2>2. \A p \in records[m] : state'[p] = state[p] \/ state'[p] \in {"exited", "killed"}
    BY <2>1
  <2>3. owner[m] # 0 => state'[owner[m]] = state[owner[m]]
    BY <2>1
  <2>4. Position(m) /\ Accounted(m)
    BY DEF IInv, LineInv
  <2> QED BY <2>2, <2>3, <2>4, LineUntouched DEF runVars
<1> QED BY <1>1, <1>2 DEF LineInv

-----------------------------------------------------------------------------------
(* The steps that leave every runner where it is. *)

\* One running process settles.
LEMMA SettleOne ==
    ASSUME TableInv, NEW p \in Pid, Running(p), NEW how \in {"exited", "killed"}, NEW c \in Nat,
           TableStep(0, FALSE, <<p>>, how, c)
    PROVE  /\ TableInv'
           /\ state'[p] = how
           /\ \A q \in Pid : q # p => state'[q] = state[q]
<1>1. Elements(<<p>>) = {p}
  BY DEF Elements
<1>2. SettlesOnce(0, <<p>>)
  <2>1. <<p>> \in Seq(Pid) /\ DOMAIN <<p>> = {1}
    OBVIOUS
  <2> QED BY <2>1 DEF SettlesOnce
<1>3. TableInv'
  BY <1>2, TableStepInv, 0 \in Nat, FALSE \in BOOLEAN
<1>4. Fresh(0) = {}
  BY DEF TableInv, TableTypeOK, Fresh
<1> QED BY <1>1, <1>3, <1>4 DEF TableStep

\* `finish` settles the process when it is running and changes nothing otherwise.
LEMMA FinishStates ==
    ASSUME TableInv, NEW p \in Pid, NEW c \in Nat, FinishExited(p, c)
    PROVE  /\ TableInv'
           /\ ~Running(p)'
           /\ state'[p] = state[p] \/ state'[p] = "exited"
           /\ \A q \in Pid : q # p => state'[q] = state[q]
<1>1. CASE Running(p)
  BY <1>1, SettleOne DEF FinishExited, Running
<1>2. CASE ~Running(p)
  BY <1>2, TableStutter DEF FinishExited, Running, tableVars
<1> QED BY <1>1, <1>2

LEMMA StartKeeps ==
    ASSUME IInv, NEW p \in Pid, Start(p)
    PROVE  IInv'
<1>1. TableInv'
  BY TableStutter DEF IInv, Start
<1>2. RunTypeOK'
  BY DEF IInv, Start, runVars, RunTypeOK
<1>3. IoTypeOK'
  BY DEF IInv, Start, IoTypeOK
<1>4. LineInv'
  <2>1. \A q \in Pid : body'[q] # "none" => body[q] # "none"
    BY DEF IInv, Start, IoTypeOK
  <2> QED BY <2>1, ProcessStep DEF Start, tableVars
<1> QED BY <1>1, <1>2, <1>3, <1>4 DEF IInv

\* A body writes one chunk, or learns that its output is ended.
LEMMA WriteKeeps ==
    ASSUME IInv, NEW p \in Pid, body[p] = "running",
           NEW left \in Seq(Nat), NEW read \in Seq(Nat), WriteChunk(p, left, read)
    PROVE  IInv'
<1>1. TableInv'
  BY TableStutter DEF IInv, WriteChunk
<1>2. RunTypeOK'
  BY DEF IInv, WriteChunk, runVars, RunTypeOK
<1>3. IoTypeOK'
  <2>1. /\ stdinQ' \in [Pid -> Seq(Nat)] /\ taken' \in [Pid -> Seq(Nat)]
        /\ prog' = prog /\ stdinOpen' = stdinOpen /\ drained' = drained /\ feeds' = feeds
    BY DEF IInv, WriteChunk, IoTypeOK
  <2>2. wrote' \in [Pid -> Nat] /\ stdoutQ' \in [Pid -> Seq(Nat)]
    <3>1. wrote[p] + 1 \in Nat /\ Append(stdoutQ[p], wrote[p] + 1) \in Seq(Nat)
      BY DEF IInv, IoTypeOK
    <3> QED BY <3>1 DEF IInv, WriteChunk, IoTypeOK
  <2>3. body' \in [Pid -> {"none", "queued", "running", "done"}]
    BY DEF IInv, WriteChunk, IoTypeOK
  <2> QED BY <2>1, <2>2, <2>3 DEF IInv, IoTypeOK
<1>4. LineInv'
  <2>1. \A q \in Pid : body'[q] # "none" => body[q] # "none"
    BY DEF IInv, WriteChunk, IoTypeOK
  <2> QED BY <2>1, ProcessStep DEF WriteChunk, tableVars
<1> QED BY <1>1, <1>2, <1>3, <1>4 DEF IInv

LEMMA ProduceKeeps ==
    ASSUME IInv, NEW p \in Pid, Produce(p)
    PROVE  IInv'
<1>1. stdinQ[p] \in Seq(Nat) /\ taken[p] \in Seq(Nat)
  BY DEF IInv, IoTypeOK
<1> QED BY <1>1, WriteKeeps DEF Produce

LEMMA CopyKeeps ==
    ASSUME IInv, NEW p \in Pid, Copy(p)
    PROVE  IInv'
<1>1. stdinQ[p] \in Seq(Nat) /\ taken[p] \in Seq(Nat) /\ stdinQ[p] # <<>>
  BY DEF IInv, IoTypeOK, Copy
<1>2. Tail(stdinQ[p]) \in Seq(Nat) /\ Append(taken[p], Head(stdinQ[p])) \in Seq(Nat)
  BY <1>1
<1> QED BY <1>2, WriteKeeps DEF Copy

LEMMA ReturnKeeps ==
    ASSUME IInv, NEW p \in Pid, NEW c \in {0, 1}, Return(p, c)
    PROVE  IInv'
<1>1. /\ TableInv' /\ (state'[p] = state[p] \/ state'[p] = "exited")
      /\ \A q \in Pid : q # p => state'[q] = state[q]
  BY FinishStates DEF IInv, Return
<1>2. RunTypeOK'
  BY DEF IInv, Return, runVars, RunTypeOK
<1>3. IoTypeOK'
  BY DEF IInv, Return, IoTypeOK
<1>4. LineInv'
  <2>1. \A q \in Pid : body'[q] # "none" => body[q] # "none"
    BY DEF IInv, Return, IoTypeOK
  <2>2. prog[p] # NoProgram
    BY DEF IInv, Return, LineInv, Allocated
  <2> QED BY <1>1, <2>1, <2>2, ProcessStep DEF Return
<1> QED BY <1>1, <1>2, <1>3, <1>4 DEF IInv

LEMMA KillProcessKeeps ==
    ASSUME IInv, NEW p \in Pid, NEW sig \in Signal, KillProcess(p, sig)
    PROVE  IInv'
<1>1. KillCode[sig] \in Nat
  BY ShellAssumption DEF KillCode
<1>2. TableInv' /\ state'[p] = "killed" /\ \A q \in Pid : q # p => state'[q] = state[q]
  BY <1>1, SettleOne DEF IInv, KillProcess
<1>3. RunTypeOK' /\ IoTypeOK'
  BY DEF IInv, KillProcess, runVars, RunTypeOK, ioVars, IoTypeOK
<1>4. LineInv'
  BY <1>2, ProcessStep DEF KillProcess, ioVars
<1> QED BY <1>2, <1>3, <1>4 DEF IInv

LEMMA MovesKeeps ==
    ASSUME IInv, NEW p \in Pid, Moves(p)
    PROVE  IInv'
<1>1. UNCHANGED <<tableVars, runVars, prog, body>>
  BY DEF Moves, PumpChunk, PumpEnd, Drain
<1>2. TableInv'
  BY <1>1, TableStutter DEF IInv
<1>3. RunTypeOK'
  BY <1>1 DEF IInv, runVars, RunTypeOK
<1>4. LineInv'
  BY <1>1, ProcessStep DEF tableVars
<1>5. ASSUME stdoutQ[p] # <<>>
      PROVE  Tail(stdoutQ[p]) \in Seq(Nat) /\ Head(stdoutQ[p]) \in Nat
  <2>1. stdoutQ[p] \in Seq(Nat)
    BY DEF IInv, IoTypeOK
  <2> QED BY <1>5, <2>1
<1>6. IoTypeOK'
  <2>1. CASE PumpChunk(p)
    <3>1. feeds[p] \in Pid /\ stdinQ[feeds[p]] \in Seq(Nat)
      BY <2>1 DEF PumpChunk, IInv, IoTypeOK
    <3>2. Append(stdinQ[feeds[p]], Head(stdoutQ[p])) \in Seq(Nat)
      BY <1>5, <2>1, <3>1 DEF PumpChunk
    <3> QED BY <1>5, <2>1, <3>2 DEF PumpChunk, IInv, IoTypeOK
  <2>2. CASE PumpEnd(p)
    BY <2>2 DEF PumpEnd, IInv, IoTypeOK
  <2>3. CASE Drain(p)
    <3>1. Append(drained[p], Head(stdoutQ[p])) \in Seq(Nat)
      BY <1>5, <2>3 DEF Drain, IInv, IoTypeOK
    <3> QED BY <1>5, <2>3, <3>1 DEF Drain, IInv, IoTypeOK
  <2> QED BY <2>1, <2>2, <2>3 DEF Moves
<1> QED BY <1>2, <1>3, <1>4, <1>6 DEF IInv

-----------------------------------------------------------------------------------
(* The steps of a runner. *)

\* The lines a step of line l does not touch.
LEMMA OthersUntouched ==
    ASSUME IInv, NEW l \in Line,
           \A m \in Line \ {l} :
              /\ script'[m] = script[m] /\ way'[m] = way[m] /\ pc'[m] = pc[m]
              /\ item'[m] = item[m] /\ canceled'[m] = canceled[m] /\ owner'[m] = owner[m]
              /\ records'[m] = records[m] /\ stages'[m] = stages[m],
           \A p \in Pid : state[p] # "unused" /\ p # owner[l] /\ p \notin records[l]
                             => state'[p] = state[p],
           Allocated', Position(l)', Accounted(l)'
    PROVE  LineInv'
<1>1. ASSUME NEW m \in Line, m # l
      PROVE  Position(m)' /\ Accounted(m)'
  <2>1. /\ records[m] \subseteq Pid /\ owner[m] \in Pid \cup {0}
        /\ records[l] \subseteq Pid /\ owner[l] \in Pid \cup {0}
    BY DEF IInv, RunTypeOK
  <2>2. /\ owner[m] # 0 => prog[owner[m]] = NoProgram /\ state[owner[m]] # "unused"
        /\ owner[l] # 0 => prog[owner[l]] = NoProgram
        /\ \A p \in records[m] : prog[p] # NoProgram /\ state[p] # "unused"
        /\ \A p \in records[l] : prog[p] # NoProgram
        /\ owner[m] = 0 \/ owner[m] # owner[l]
        /\ records[l] \cap records[m] = {}
    BY <1>1, <2>1 DEF IInv, LineInv, Allocated
  <2>3. \A p \in records[m] : state'[p] = state[p]
    <3>1. \A p \in records[m] : p \notin records[l]
      BY <2>2
    <3>2. \A p \in records[m] : p # owner[l]
      <4>1. 0 \notin Pid
        BY DEF Pid
      <4> QED BY <2>1, <2>2, <4>1
    <3> QED BY <2>1, <2>2, <3>1, <3>2
  <2>4. owner[m] # 0 => state'[owner[m]] = state[owner[m]]
    BY <2>1, <2>2
  <2>5. Position(m) /\ Accounted(m)
    BY DEF IInv, LineInv
  <2> QED BY <1>1, <2>3, <2>4, <2>5, LineUntouched
<1> QED BY <1>1 DEF LineInv

\* A runner moves on while none of its line's processes is running.
LEMMA RunnerStep ==
    ASSUME IInv, NEW l \in Line, NEW q \in Runner, pc[l] # "done",
           UNCHANGED <<tableVars, script, way, canceled, owner, records, stages, ioVars>>,
           pc' = [pc EXCEPT ![l] = q],
           item' \in [Line -> Nat \ {0}], code' \in [Line -> Nat],
           \A m \in Line \ {l} : item'[m] = item[m],
           LineProcesses(l) = {}, Position(l)'
    PROVE  IInv'
<1>1. TableInv'
  BY TableStutter DEF IInv
<1>2. RunTypeOK' /\ IoTypeOK'
  BY DEF IInv, RunTypeOK, IoTypeOK, ioVars
<1>3. Allocated'
  BY DEF IInv, LineInv, Allocated, tableVars, ioVars
<1>4. Accounted(l)'
  <2>1. LineProcesses(l)' = {}
    BY DEF LineProcesses, Running, tableVars
  <2>2. (owner[l] # 0 /\ Settled(owner[l]))' => canceled'[l]
    BY DEF IInv, LineInv, Accounted, Settled, tableVars
  <2> QED BY <2>1, <2>2 DEF Accounted
<1>5. \A m \in Line \ {l} : pc'[m] = pc[m]
  BY DEF IInv, RunTypeOK
<1>6. LineInv'
  BY <1>3, <1>4, <1>5, OthersUntouched DEF tableVars
<1> QED BY <1>1, <1>2, <1>6 DEF IInv

\* The runner's end, or the adoption of its exit: the composite settles.
LEMMA RunnerEnd ==
    ASSUME IInv, NEW l \in Line, NEW c \in Nat, way[l] # "session",
           pc[l] \in {"list", "ended"},
           FinishExited(owner[l], c),
           UNCHANGED <<script, way, item, canceled, owner, records, stages, ioVars>>,
           pc' = [pc EXCEPT ![l] = "done"], code' \in [Line -> Nat]
    PROVE  IInv'
<1>0. owner[l] \in Pid /\ LineProcesses(l) = {} /\ prog[owner[l]] = NoProgram
  BY DEF IInv, LineInv, Position, Accounted, Allocated, RunTypeOK
<1>1. /\ TableInv' /\ (state'[owner[l]] = state[owner[l]] \/ state'[owner[l]] = "exited")
      /\ \A q \in Pid : q # owner[l] => state'[q] = state[q]
  BY <1>0, FinishStates DEF IInv
<1>2. RunTypeOK' /\ IoTypeOK'
  BY DEF IInv, RunTypeOK, IoTypeOK, ioVars, Runner
<1>3. Allocated'
  <2>1. \A p \in Pid : state[p] # "unused" => state'[p] # "unused"
    BY <1>1
  <2> QED BY <2>1 DEF IInv, RunTypeOK, LineInv, Allocated, ioVars
<1>4. pc'[l] = "done" /\ \A m \in Line \ {l} : pc'[m] = pc[m]
  BY DEF IInv, RunTypeOK
<1>5. Position(l)'
  BY <1>4 DEF IInv, LineInv, Position
<1>6. Accounted(l)'
  <2>1. \A p \in records[l] : p # owner[l] /\ p \in Pid
    BY <1>0 DEF IInv, LineInv, Allocated, RunTypeOK
  <2>2. LineProcesses(l)' = {}
    BY <1>0, <1>1, <2>1 DEF LineProcesses, Running
  <2> QED BY <1>4, <2>2 DEF Accounted
<1>7. LineInv'
  BY <1>1, <1>3, <1>4, <1>5, <1>6, OthersUntouched
<1> QED BY <1>1, <1>2, <1>7 DEF IInv

LEMMA AdoptExitKeeps ==
    ASSUME IInv, NEW l \in Line, AdoptExit(l)
    PROVE  IInv'
<1>1. way[l] # "session"
  BY DEF IInv, LineInv, Position, AdoptExit
<1>2. code[l] \in Nat /\ code' \in [Line -> Nat]
  BY DEF IInv, RunTypeOK, AdoptExit
<1> QED BY <1>1, <1>2, RunnerEnd DEF AdoptExit

LEMMA SubstitutedKeeps ==
    ASSUME IInv, NEW l \in Line, Substituted(l)
    PROVE  IInv'
<1>1. LineProcesses(l) = {}
  BY DEF IInv, LineInv, Accounted, Substituted, LineProcesses, Settled, Running
<1>2. pc'[l] = "launch"
  BY DEF IInv, RunTypeOK, Substituted
<1>3. Position(l)'
  BY <1>2 DEF IInv, LineInv, Position, Substituted
<1> QED BY <1>1, <1>3, RunnerStep DEF Substituted, IInv, RunTypeOK, Runner

LEMMA LaunchCanceledKeeps ==
    ASSUME IInv, NEW l \in Line, LaunchCanceled(l)
    PROVE  IInv'
<1>1. LineProcesses(l) = {}
  BY DEF IInv, LineInv, Accounted, LaunchCanceled
<1>2. pc'[l] = "list"
  BY DEF IInv, RunTypeOK, LaunchCanceled
<1>3. Position(l)'
  BY <1>2 DEF IInv, LineInv, Position, LaunchCanceled
<1>4. item' \in [Line -> Nat \ {0}] /\ \A m \in Line \ {l} : item'[m] = item[m]
  BY DEF IInv, RunTypeOK, LaunchCanceled
<1>5. code' \in [Line -> Nat]
  BY DEF IInv, RunTypeOK, LaunchCanceled, KillCode
<1> QED BY <1>1, <1>3, <1>4, <1>5, RunnerStep DEF LaunchCanceled, Runner

LEMMA CollectKeeps ==
    ASSUME IInv, NEW l \in Line, Collect(l)
    PROVE  IInv'
<1>1. LineProcesses(l) = {}
  BY DEF IInv, LineInv, Accounted, Collect, LineProcesses, StageDone, Settled, Running
<1>2. pc'[l] = "list"
  BY DEF IInv, RunTypeOK, Collect
<1>3. Position(l)'
  BY <1>2 DEF IInv, LineInv, Position, Collect
<1>4. item' \in [Line -> Nat \ {0}] /\ \A m \in Line \ {l} : item'[m] = item[m]
  BY DEF IInv, RunTypeOK, Collect
<1>5. code' \in [Line -> Nat]
  <2> DEFINE last == stages[l][Len(stages[l])]
  <2>1. stages[l] \in Seq(Pid) /\ stages[l] # <<>>
    BY DEF IInv, RunTypeOK, LineInv, Position, Collect
  <2>2. Len(stages[l]) \in DOMAIN stages[l]
    BY <2>1
  <2>3. last \in Elements(stages[l]) /\ last \in Pid
    BY <2>1, <2>2 DEF Elements
  <2>4. Settled(last)
    BY <2>3 DEF Collect, StageDone
  <2>5. exitCode[last] \in Nat
    BY <2>3, <2>4 DEF IInv, TableInv, TableTypeOK, RecordsConsistent
  <2> QED BY <2>5 DEF IInv, RunTypeOK, Collect
<1> QED BY <1>1, <1>3, <1>4, <1>5, RunnerStep DEF Collect, Runner

LEMMA NextItemKeeps ==
    ASSUME IInv, NEW l \in Line, NextItem(l)
    PROVE  IInv'
<1>1. /\ LineProcesses(l) = {} /\ pc[l] = "list" /\ code[l] \in Nat
      /\ item[l] \in Nat \ {0} /\ script[l] \in Seq(Item)
  <2>1. script[l] \in Seq(Item)
    <3>1. <<>> \in Seq(Item)
      OBVIOUS
    <3> QED BY <3>1, ShellAssumption DEF IInv, RunTypeOK
  <2> QED BY <2>1 DEF IInv, LineInv, Accounted, NextItem, RunTypeOK
<1>2. CASE ListOver(l)
  <2>1. EndRunner(l, code[l]) /\ UNCHANGED item
    BY <1>2 DEF NextItem
  <2>2. code' \in [Line -> Nat]
    BY <1>1, <2>1 DEF EndRunner, IInv, RunTypeOK
  <2>3. CASE way[l] = "job"
    BY <1>1, <2>1, <2>2, <2>3, RunnerEnd DEF EndRunner, NextItem
  <2>4. CASE way[l] # "job"
    <3> DEFINE q == IF way[l] = "exec" THEN "ended" ELSE "done"
    <3>1. pc' = [pc EXCEPT ![l] = q] /\ UNCHANGED tableVars /\ q \in Runner
      BY <2>1, <2>4 DEF EndRunner, Runner
    <3>2. pc'[l] = q
      BY <3>1 DEF IInv, RunTypeOK
    <3>3. Position(l)'
      BY <1>1, <3>2 DEF IInv, LineInv, Position, NextItem
    <3>4. item' \in [Line -> Nat \ {0}] /\ \A m \in Line \ {l} : item'[m] = item[m]
      BY <2>1 DEF IInv, RunTypeOK
    <3> HIDE DEF q
    <3> QED BY <1>1, <2>2, <3>1, <3>3, <3>4, RunnerStep DEF NextItem
  <2> QED BY <2>3, <2>4
<1>3. CASE ~ListOver(l)
  <2>1. UNCHANGED <<tableVars, script, way, canceled, owner, records, stages, ioVars, code>>
    BY <1>3 DEF NextItem
  <2>2. code' \in [Line -> Nat]
    BY <2>1 DEF IInv, RunTypeOK
  <2>3. CASE ShouldRun(l)
    <3>1. pc' = [pc EXCEPT ![l] = "expand"] /\ item' = item /\ "expand" \in Runner
      BY <1>3, <2>3 DEF NextItem, Runner
    <3>2. pc'[l] = "expand"
      BY <3>1 DEF IInv, RunTypeOK
    <3>3. item[l] \in DOMAIN script[l]
      BY <1>1, <1>3 DEF ListOver
    <3>4. Position(l)'
      BY <1>1, <2>1, <3>1, <3>2, <3>3 DEF IInv, LineInv, Position
    <3>5. item' \in [Line -> Nat \ {0}] /\ \A m \in Line \ {l} : item'[m] = item[m]
      BY <3>1 DEF IInv, RunTypeOK
    <3> QED BY <1>1, <2>1, <2>2, <3>1, <3>4, <3>5, RunnerStep
  <2>4. CASE ~ShouldRun(l)
    <3>1. item' = [item EXCEPT ![l] = @ + 1] /\ pc' = pc
      BY <1>3, <2>4 DEF NextItem
    <3>2. pc' = [pc EXCEPT ![l] = "list"] /\ "list" \in Runner
      BY <1>1, <3>1 DEF IInv, RunTypeOK, Runner
    <3>3. Position(l)'
      BY <1>1, <2>1, <3>1 DEF IInv, LineInv, Position
    <3>4. item' \in [Line -> Nat \ {0}] /\ \A m \in Line \ {l} : item'[m] = item[m]
      BY <1>1, <3>1 DEF IInv, RunTypeOK
    <3> QED BY <1>1, <2>1, <2>2, <3>2, <3>3, <3>4, RunnerStep
  <2> QED BY <2>3, <2>4
<1> QED BY <1>2, <1>3

\* n processes are started and left running.
LEMMA SpawnStates ==
    ASSUME TableInv, NEW n \in Nat, NEW live \in BOOLEAN, TableStep(n, live, <<>>, "exited", 0)
    PROVE  /\ TableInv'
           /\ Fresh(n) \subseteq Pid
           /\ \A p \in Fresh(n) : state[p] = "unused" /\ state'[p] = "running"
           /\ \A p \in Pid \ Fresh(n) : state'[p] = state[p]
<1>1. SettlesOnce(n, <<>>) /\ Elements(<<>>) = {}
  <2>1. <<>> \in Seq(Pid) /\ DOMAIN <<>> = {}
    OBVIOUS
  <2> QED BY <2>1 DEF SettlesOnce, Elements
<1>2. TableInv'
  BY <1>1, TableStepInv, 0 \in Nat
<1>3. Fresh(n) \subseteq Pid /\ \A p \in Fresh(n) : state[p] = "unused"
  BY FreshUnused DEF TableInv, TableStep
<1> QED BY <1>1, <1>2, <1>3 DEF TableStep

LEMMA BeginKeeps ==
    ASSUME IInv, NEW l \in Line, NEW s \in Script, NEW w \in Way, Begin(l, s, w)
    PROVE  IInv'
<1>1. /\ pc[l] = "idle" /\ owner[l] = 0 /\ records[l] = {} /\ ~canceled[l]
      /\ script'[l] = s /\ way'[l] = w /\ pc'[l] = "list"
      /\ UNCHANGED <<item, code, canceled, records, stages, ioVars>>
      /\ \A m \in Line \ {l} : script'[m] = script[m] /\ way'[m] = way[m] /\ pc'[m] = pc[m]
  BY DEF Begin, IInv, RunTypeOK, LineInv, Position
<1>2. /\ script' \in [Line -> Script \cup {<<>>}] /\ way' \in [Line -> Way]
      /\ pc' \in [Line -> Runner]
  BY DEF Begin, IInv, RunTypeOK, Runner
<1>3. CASE w = "session"
  <2>1. UNCHANGED <<tableVars, owner>>
    BY <1>3 DEF Begin
  <2>2. TableInv'
    BY <2>1, TableStutter DEF IInv
  <2>3. RunTypeOK' /\ IoTypeOK'
    BY <1>1, <1>2, <2>1 DEF IInv, RunTypeOK, IoTypeOK, ioVars
  <2>4. Allocated'
    BY <1>1, <2>1 DEF IInv, LineInv, Allocated, tableVars, ioVars
  <2>5. Position(l)' /\ Accounted(l)'
    BY <1>1, <1>3, <2>1 DEF Position, Accounted, LineProcesses
  <2>6. LineInv'
    BY <1>1, <2>1, <2>4, <2>5, OthersUntouched DEF tableVars
  <2> QED BY <2>2, <2>3, <2>6 DEF IInv
<1>4. CASE w # "session"
  <2>1. TableStep(1, FALSE, <<>>, "exited", 0) /\ owner' = [owner EXCEPT ![l] = nextPid]
    BY <1>4 DEF Begin, Adopt
  <2>2. /\ TableInv' /\ Fresh(1) \subseteq Pid
        /\ \A p \in Fresh(1) : state[p] = "unused" /\ state'[p] = "running"
        /\ \A p \in Pid \ Fresh(1) : state'[p] = state[p]
    BY <2>1, SpawnStates, 1 \in Nat, FALSE \in BOOLEAN DEF IInv
  <2>3. nextPid \in Pid /\ Fresh(1) = {nextPid} /\ nextPid # 0
    BY <2>2 DEF IInv, TableInv, TableTypeOK, Fresh
  <2>4. owner' \in [Line -> Pid \cup {0}] /\ owner'[l] = nextPid
        /\ \A m \in Line \ {l} : owner'[m] = owner[m]
    BY <2>1, <2>3 DEF IInv, RunTypeOK
  <2>5. RunTypeOK' /\ IoTypeOK'
    BY <1>1, <1>2, <2>4 DEF IInv, RunTypeOK, IoTypeOK, ioVars
  <2>6. Allocated'
    <3>1. \A p \in Pid : state[p] # "unused" => state'[p] # "unused" /\ p # nextPid
      BY <2>2, <2>3
    <3>2. state'[nextPid] # "unused" /\ prog[nextPid] = NoProgram
      BY <2>2, <2>3 DEF IInv, LineInv, Allocated
    <3>3. \A m \in Line : owner[m] \in Pid \cup {0} /\ owner[m] # nextPid
      BY <2>3, <3>1 DEF IInv, RunTypeOK, LineInv, Allocated
    <3>4. /\ \A p \in Pid : prog'[p] # NoProgram => state'[p] # "unused"
          /\ \A p \in Pid : body'[p] # "none" => prog'[p] # NoProgram
          /\ \A m \in Line : \A p \in records'[m] : prog'[p] # NoProgram
          /\ \A k, m \in Line : k # m => records'[k] \cap records'[m] = {}
      BY <1>1, <3>1 DEF IInv, LineInv, Allocated, ioVars
    <3>5. \A m \in Line : owner'[m] # 0 => state'[owner'[m]] # "unused" /\ prog'[owner'[m]] = NoProgram
      <4> SUFFICES ASSUME NEW m \in Line, owner'[m] # 0
                   PROVE  state'[owner'[m]] # "unused" /\ prog'[owner'[m]] = NoProgram
        OBVIOUS
      <4>1. CASE m = l
        BY <1>1, <2>4, <3>2, <4>1 DEF ioVars
      <4>2. CASE m # l
        BY <1>1, <2>4, <3>1, <3>3, <4>2 DEF IInv, LineInv, Allocated, ioVars
      <4> QED BY <4>1, <4>2
    <3>6. \A k, m \in Line : k # m => (owner'[k] = 0 \/ owner'[k] # owner'[m])
      <4> SUFFICES ASSUME NEW k \in Line, NEW m \in Line, k # m, owner'[k] # 0
                   PROVE  owner'[k] # owner'[m]
        OBVIOUS
      <4>1. CASE k = l \/ m = l
        BY <2>3, <2>4, <3>3, <4>1
      <4>2. CASE k # l /\ m # l
        BY <2>4, <4>2 DEF IInv, LineInv, Allocated
      <4> QED BY <4>1, <4>2
    <3> QED BY <3>4, <3>5, <3>6 DEF Allocated
  <2>7. Position(l)' /\ Accounted(l)'
    <3>1. ~Settled(owner[l])'
      BY <2>2, <2>3, <2>4 DEF Settled
    <3> QED BY <1>1, <1>4, <2>3, <2>4, <3>1 DEF Position, Accounted, LineProcesses
  <2>8. \A p \in Pid : state[p] # "unused" => state'[p] = state[p]
    BY <2>2
  <2>9. LineInv'
    BY <1>1, <2>4, <2>6, <2>7, <2>8, OthersUntouched
  <2> QED BY <2>2, <2>5, <2>9 DEF IInv
<1> QED BY <1>3, <1>4

\* n processes are started for line l; whether they are left running is the caller's.
LEMMA StartedFor ==
    ASSUME IInv, NEW l \in Line, NEW n \in Nat,
           Fresh(n) \subseteq Pid,
           \A p \in Fresh(n) : state[p] = "unused" /\ state'[p] # "unused",
           \A p \in Pid \ Fresh(n) : state'[p] = state[p],
           \A p \in Fresh(n) : prog'[p] \in Program,
           \A p \in Pid \ Fresh(n) : prog'[p] = prog[p] /\ body'[p] = body[p],
           UNCHANGED owner,
           records' = [records EXCEPT ![l] = @ \cup Fresh(n)]
    PROVE  Allocated' /\ records' \in [Line -> SUBSET Pid]
<1>1. /\ records' \in [Line -> SUBSET Pid]
      /\ records'[l] = records[l] \cup Fresh(n)
      /\ \A m \in Line \ {l} : records'[m] = records[m]
  BY DEF IInv, RunTypeOK
<1>2. \A p \in Fresh(n) : prog'[p] # NoProgram
  BY ShellAssumption
<1>3. \A m \in Line : \A p \in records[m] : p \in Pid /\ prog[p] # NoProgram /\ p \notin Fresh(n)
  BY DEF IInv, LineInv, Allocated, RunTypeOK
<1>4. \A p \in Pid : prog'[p] # NoProgram => state'[p] # "unused"
  BY DEF IInv, LineInv, Allocated
<1>5. \A p \in Pid : body'[p] # "none" => prog'[p] # NoProgram
  BY <1>2 DEF IInv, LineInv, Allocated
<1>6. \A m \in Line : owner'[m] # 0 => state'[owner'[m]] # "unused" /\ prog'[owner'[m]] = NoProgram
  <2> SUFFICES ASSUME NEW m \in Line, owner[m] # 0
               PROVE  state'[owner[m]] # "unused" /\ prog'[owner[m]] = NoProgram
    OBVIOUS
  <2>1. owner[m] \in Pid /\ state[owner[m]] # "unused" /\ prog[owner[m]] = NoProgram
    BY DEF IInv, RunTypeOK, LineInv, Allocated
  <2>2. owner[m] \notin Fresh(n)
    BY <2>1
  <2> QED BY <2>1, <2>2
<1>7. \A m \in Line : \A p \in records'[m] : prog'[p] # NoProgram
  BY <1>1, <1>2, <1>3
<1>8. \A k, m \in Line : k # m => (owner'[k] = 0 \/ owner'[k] # owner'[m])
  BY DEF IInv, LineInv, Allocated
<1>9. \A k, m \in Line : k # m => records'[k] \cap records'[m] = {}
  <2> SUFFICES ASSUME NEW k \in Line, NEW m \in Line, k # m, NEW p \in records'[k], p \in records'[m]
               PROVE  FALSE
    OBVIOUS
  <2>1. CASE p \in Fresh(n)
    BY <1>1, <1>3, <2>1
  <2>2. CASE p \notin Fresh(n)
    <3>1. p \in records[k] /\ p \in records[m]
      BY <1>1, <2>2
    <3> QED BY <3>1 DEF IInv, LineInv, Allocated
  <2> QED BY <2>1, <2>2
<1> QED BY <1>1, <1>4, <1>5, <1>6, <1>7, <1>8, <1>9 DEF Allocated

LEMMA ExpandKeeps ==
    ASSUME IInv, NEW l \in Line, Expand(l)
    PROVE  IInv'
<1> DEFINE s == CurrentItem(l).sub
<1>1. /\ pc[l] = "expand" /\ LineProcesses(l) = {} /\ item[l] \in DOMAIN script[l]
      /\ UNCHANGED <<script, way, item, code, canceled, owner>>
  BY DEF Expand, IInv, LineInv, Accounted, Position
<1>2. CASE s \in Program /\ ~canceled[l]
  <2>1. /\ TableStep(1, TRUE, <<>>, "exited", 0)
        /\ prog' = [p \in Pid |-> IF p \in Fresh(1) THEN s ELSE prog[p]]
        /\ body' = [p \in Pid |-> IF p \in Fresh(1) THEN "queued" ELSE body[p]]
        /\ stdinOpen' = [p \in Pid |-> IF p \in Fresh(1) THEN FALSE ELSE stdinOpen[p]]
        /\ feeds' = [p \in Pid |-> IF p \in Fresh(1) THEN 0 ELSE feeds[p]]
        /\ UNCHANGED <<wrote, stdoutQ, stdinQ, taken, drained>>
        /\ records' = [records EXCEPT ![l] = @ \cup Fresh(1)]
        /\ stages' = [stages EXCEPT ![l] = <<nextPid>>]
        /\ pc' = [pc EXCEPT ![l] = "sub"]
    BY <1>2 DEF Expand, Spawn, Wire
  <2>2. /\ TableInv' /\ Fresh(1) \subseteq Pid
        /\ \A p \in Fresh(1) : state[p] = "unused" /\ state'[p] = "running"
        /\ \A p \in Pid \ Fresh(1) : state'[p] = state[p]
    BY <2>1, SpawnStates, 1 \in Nat, TRUE \in BOOLEAN DEF IInv
  <2>3. nextPid \in Pid /\ Fresh(1) = {nextPid}
    BY <2>2 DEF IInv, TableInv, TableTypeOK, Fresh
  <2>4. Allocated' /\ records' \in [Line -> SUBSET Pid]
    <3>1. /\ \A p \in Fresh(1) : prog'[p] \in Program
          /\ \A p \in Pid \ Fresh(1) : prog'[p] = prog[p] /\ body'[p] = body[p]
      BY <1>2, <2>1, <2>2
    <3> QED BY <1>1, <2>1, <2>2, <3>1, StartedFor, 1 \in Nat
  <2>5. IoTypeOK'
    <3>1. prog' \in [Pid -> Program \cup {NoProgram}]
      BY <1>2, <2>1 DEF IInv, IoTypeOK
    <3>2. body' \in [Pid -> {"none", "queued", "running", "done"}]
      BY <2>1 DEF IInv, IoTypeOK
    <3>3. stdinOpen' \in [Pid -> BOOLEAN]
      BY <2>1 DEF IInv, IoTypeOK
    <3>4. feeds' \in [Pid -> Pid \cup {0}]
      BY <2>1 DEF IInv, IoTypeOK
    <3> QED BY <2>1, <3>1, <3>2, <3>3, <3>4 DEF IInv, IoTypeOK
  <2>6. RunTypeOK'
    <3>1. <<nextPid>> \in Seq(Pid)
      BY <2>3
    <3> QED BY <1>1, <2>1, <2>4, <3>1 DEF IInv, RunTypeOK, Runner
  <2>7. /\ pc'[l] = "sub" /\ stages'[l] = <<nextPid>> /\ records'[l] = records[l] \cup {nextPid}
        /\ \A m \in Line \ {l} : pc'[m] = pc[m] /\ stages'[m] = stages[m] /\ records'[m] = records[m]
    BY <2>1, <2>3 DEF IInv, RunTypeOK
  <2>8. Position(l)'
    BY <1>1, <2>7 DEF IInv, LineInv, Position
  <2>9. Accounted(l)'
    <3>1. LineProcesses(l)' \subseteq {nextPid}
      <4> SUFFICES ASSUME NEW p \in records'[l], state'[p] = "running", p # nextPid
                   PROVE  FALSE
        BY DEF LineProcesses, Running
      <4>1. p \in records[l] /\ p \in Pid
        BY <2>7 DEF IInv, RunTypeOK
      <4>2. state[p] = "running"
        BY <2>2, <2>3, <4>1
      <4> QED BY <1>1, <4>1, <4>2 DEF LineProcesses, Running
    <3>2. Elements(<<nextPid>>) = {nextPid}
      BY DEF Elements
    <3>3. (owner[l] # 0 /\ Settled(owner[l]))' => owner[l] # 0 /\ Settled(owner[l])
      BY <1>1, <2>2 DEF Settled, IInv, RunTypeOK
    <3> QED BY <1>1, <1>2, <2>7, <3>1, <3>2, <3>3 DEF Accounted, IInv, LineInv, Elements
  <2>10. \A p \in Pid : state[p] # "unused" => state'[p] = state[p]
    BY <2>2
  <2>11. LineInv'
    BY <1>1, <2>4, <2>7, <2>8, <2>9, <2>10, OthersUntouched
  <2> QED BY <2>2, <2>5, <2>6, <2>11 DEF IInv
<1>3. CASE ~(s \in Program /\ ~canceled[l])
  <2>1. /\ pc' = [pc EXCEPT ![l] = "launch"] /\ "launch" \in Runner
        /\ UNCHANGED <<tableVars, ioVars, records, stages>>
    BY <1>3 DEF Expand, Runner
  <2>2. pc'[l] = "launch"
    BY <2>1 DEF IInv, RunTypeOK
  <2>3. Position(l)'
    BY <1>1, <2>1, <2>2 DEF IInv, LineInv, Position
  <2>4. item' \in [Line -> Nat \ {0}] /\ code' \in [Line -> Nat]
    BY <1>1 DEF IInv, RunTypeOK
  <2> QED BY <1>1, <2>1, <2>3, <2>4, RunnerStep
<1> QED BY <1>2, <1>3

\* The I/O state of the stages of a pipeline, or of those in front of a missing command.
LEMMA WireStagesType ==
    ASSUME IInv, NEW l \in Line, item[l] \in DOMAIN script[l],
           NEW n \in 0 .. Len(CurrentItem(l).stages), Fresh(n) \subseteq Pid,
           Spawnable(CurrentItem(l).stages, n), WireStages(l, n)
    PROVE  /\ IoTypeOK'
           /\ \A p \in Fresh(n) : prog'[p] \in Program
           /\ \A p \in Pid \ Fresh(n) : prog'[p] = prog[p] /\ body'[p] = body[p]
<1> DEFINE cmds == CurrentItem(l).stages
           at(p) == p - nextPid + 1
<1>1. n \in Nat /\ cmds \in Seq(Stage) /\ nextPid \in Nat
  BY CurrentItemType, TableAssumption DEF IInv, TableInv, TableTypeOK
<1>2. \A p \in Fresh(n) : at(p) \in 1 .. n /\ p \in Int
  BY <1>1 DEF Fresh
<1>3. \A p \in Fresh(n) : cmds[at(p)].prog \in Program
  BY <1>2 DEF Spawnable
<1>4. /\ prog' = [p \in Pid |-> IF p \in Fresh(n) THEN cmds[at(p)].prog ELSE prog[p]]
      /\ body' = [p \in Pid |-> IF p \in Fresh(n) THEN "queued" ELSE body[p]]
      /\ stdinOpen' = [p \in Pid |-> IF p \in Fresh(n)
                                     THEN at(p) > 1 /\ FeedsNext(cmds, at(p) - 1)
                                     ELSE stdinOpen[p]]
      /\ feeds' = [p \in Pid |-> IF p \in Fresh(n)
                                 THEN IF FeedsNext(cmds, at(p)) /\ at(p) < n THEN p + 1 ELSE 0
                                 ELSE feeds[p]]
      /\ UNCHANGED <<wrote, stdoutQ, stdinQ, taken, drained>>
  BY DEF WireStages, Wire
<1>5. \A p \in Fresh(n) : at(p) < n => p + 1 \in Pid
  <2> SUFFICES ASSUME NEW p \in Fresh(n), at(p) < n PROVE p + 1 \in Pid
    OBVIOUS
  <2>1. p + 1 \in Fresh(n)
    BY <1>1, <1>2 DEF Fresh
  <2> QED BY <2>1
<1>6. prog' \in [Pid -> Program \cup {NoProgram}]
  <2> HIDE DEF cmds, at
  <2> QED BY <1>3, <1>4 DEF IInv, IoTypeOK
<1>7. body' \in [Pid -> {"none", "queued", "running", "done"}]
  BY <1>4 DEF IInv, IoTypeOK
<1>8. stdinOpen' \in [Pid -> BOOLEAN]
  <2>1. \A i \in Int : FeedsNext(cmds, i) \in BOOLEAN
    <3>1. ASSUME NEW i \in Int, i < Len(cmds) PROVE (i < Len(cmds) /\ ~cmds[i].toFile) \in BOOLEAN
      OBVIOUS
    <3> QED BY <3>1 DEF FeedsNext
  <2>2. \A p \in Pid : stdinOpen[p] \in BOOLEAN
    BY DEF IInv, IoTypeOK
  <2> HIDE DEF cmds, at
  <2> QED BY <1>2, <1>4, <2>1, <2>2
<1>9. feeds' \in [Pid -> Pid \cup {0}]
  <2>1. \A p \in Pid : feeds[p] \in Pid \cup {0}
    BY DEF IInv, IoTypeOK
  <2> HIDE DEF cmds, at
  <2> QED BY <1>4, <1>5, <2>1
<1>10. IoTypeOK'
  BY <1>4, <1>6, <1>7, <1>8, <1>9 DEF IInv, IoTypeOK
<1>11. /\ \A p \in Fresh(n) : prog'[p] \in Program
       /\ \A p \in Pid \ Fresh(n) : prog'[p] = prog[p] /\ body'[p] = body[p]
  <2> HIDE DEF cmds, at
  <2> QED BY <1>3, <1>4
<1> QED BY <1>10, <1>11

\* The pids of n fresh processes, in the order they are spawned.
LEMMA FreshRow ==
    ASSUME TableInv, NEW n \in Nat, Fresh(n) \subseteq Pid
    PROVE  LET row == [i \in 1 .. n |-> nextPid + i - 1]
           IN  /\ row \in Seq(Pid)
               /\ DOMAIN row = 1 .. n
               /\ Elements(row) = Fresh(n)
               /\ \A i, j \in DOMAIN row : row[i] = row[j] => i = j
<1> DEFINE row == [i \in 1 .. n |-> nextPid + i - 1]
<1>1. nextPid \in Nat
  BY TableAssumption DEF TableInv, TableTypeOK
<1>2. \A i \in 1 .. n : nextPid + i - 1 \in Fresh(n)
  BY <1>1 DEF Fresh
<1>3. row \in [1 .. n -> Pid]
  BY <1>2
<1>4. row \in Seq(Pid) /\ DOMAIN row = 1 .. n
  BY <1>3
<1>5. \A p \in Fresh(n) : \E i \in 1 .. n : row[i] = p
  <2> SUFFICES ASSUME NEW p \in Fresh(n) PROVE \E i \in 1 .. n : row[i] = p
    OBVIOUS
  <2>1. p - nextPid + 1 \in 1 .. n /\ nextPid + (p - nextPid + 1) - 1 = p
    BY <1>1 DEF Fresh
  <2> QED BY <2>1
<1>6. Elements(row) \subseteq Fresh(n)
  BY <1>2, <1>4 DEF Elements
<1>7. \A i, j \in 1 .. n : row[i] = row[j] => i = j
  BY <1>1
<1> QED BY <1>4, <1>5, <1>6, <1>7 DEF Elements

LEMMA LaunchStagesKeeps ==
    ASSUME IInv, NEW l \in Line, LaunchStages(l)
    PROVE  IInv'
<1> DEFINE n == Len(CurrentItem(l).stages)
<1>1. /\ pc[l] = "launch" /\ ~canceled[l] /\ LineProcesses(l) = {} /\ item[l] \in DOMAIN script[l]
      /\ UNCHANGED <<script, way, item, code, canceled, owner>>
      /\ Spawnable(CurrentItem(l).stages, n)
      /\ TableStep(n, TRUE, <<>>, "exited", 0)
      /\ WireStages(l, n)
      /\ records' = [records EXCEPT ![l] = @ \cup Fresh(n)]
      /\ stages' = [stages EXCEPT ![l] = [i \in 1 .. n |-> nextPid + i - 1]]
      /\ pc' = [pc EXCEPT ![l] = "wait"]
  BY DEF LaunchStages, SpawnStages, Spawn, IInv, LineInv, Accounted, Position
<1>2. n \in Nat \ {0} /\ n \in 0 .. Len(CurrentItem(l).stages)
  BY <1>1, CurrentItemType DEF IInv
<1> HIDE DEF n
<1>3. /\ TableInv' /\ Fresh(n) \subseteq Pid
      /\ \A p \in Fresh(n) : state[p] = "unused" /\ state'[p] = "running"
      /\ \A p \in Pid \ Fresh(n) : state'[p] = state[p]
  BY <1>1, <1>2, SpawnStates, TRUE \in BOOLEAN DEF IInv
<1>4. /\ IoTypeOK'
      /\ \A p \in Fresh(n) : prog'[p] \in Program
      /\ \A p \in Pid \ Fresh(n) : prog'[p] = prog[p] /\ body'[p] = body[p]
  BY <1>1, <1>2, <1>3, WireStagesType
<1>5. Allocated' /\ records' \in [Line -> SUBSET Pid]
  BY <1>1, <1>2, <1>3, <1>4, StartedFor
<1> DEFINE row == [i \in 1 .. n |-> nextPid + i - 1]
<1>6. row \in Seq(Pid) /\ Elements(row) = Fresh(n) /\ row # <<>>
  <2>1. row \in Seq(Pid) /\ DOMAIN row = 1 .. n /\ Elements(row) = Fresh(n)
    BY <1>2, <1>3, FreshRow DEF IInv
  <2> QED BY <1>2, <2>1
<1>7. RunTypeOK'
  BY <1>1, <1>5, <1>6 DEF IInv, RunTypeOK, Runner
<1>8. /\ pc'[l] = "wait" /\ stages'[l] = row /\ records'[l] = records[l] \cup Fresh(n)
      /\ \A m \in Line \ {l} : pc'[m] = pc[m] /\ stages'[m] = stages[m] /\ records'[m] = records[m]
  BY <1>1 DEF IInv, RunTypeOK
<1> HIDE DEF row
<1>9. Position(l)'
  BY <1>1, <1>6, <1>8 DEF IInv, LineInv, Position
<1>10. Accounted(l)'
  <2>1. LineProcesses(l)' \subseteq Fresh(n)
    <3> SUFFICES ASSUME NEW p \in records'[l], state'[p] = "running", p \notin Fresh(n)
                 PROVE  FALSE
      BY DEF LineProcesses, Running
    <3>1. p \in records[l] /\ p \in Pid
      BY <1>8 DEF IInv, RunTypeOK
    <3>2. state[p] = "running"
      BY <1>3, <3>1
    <3> QED BY <1>1, <3>1, <3>2 DEF LineProcesses, Running
  <2>2. (owner[l] # 0 /\ Settled(owner[l]))' => owner[l] # 0 /\ Settled(owner[l])
    BY <1>1, <1>3 DEF Settled, IInv, RunTypeOK
  <2>3. Elements(stages[l])' = Fresh(n)
    BY <1>6, <1>8 DEF Elements
  <2> QED BY <1>1, <1>8, <2>1, <2>2, <2>3 DEF Accounted, IInv, LineInv
<1>11. \A p \in Pid : state[p] # "unused" => state'[p] = state[p]
  BY <1>3
<1>12. LineInv'
  BY <1>1, <1>5, <1>8, <1>9, <1>10, <1>11, OthersUntouched
<1> QED BY <1>3, <1>4, <1>7, <1>12 DEF IInv

LEMMA LaunchFailsKeeps ==
    ASSUME IInv, NEW l \in Line, LaunchFails(l)
    PROVE  IInv'
<1>1. /\ pc[l] = "launch" /\ ~canceled[l] /\ LineProcesses(l) = {} /\ item[l] \in DOMAIN script[l]
      /\ code' = [code EXCEPT ![l] = 2]
      /\ item' = [item EXCEPT ![l] = Len(script[l]) + 1]
      /\ pc' = [pc EXCEPT ![l] = "list"]
      /\ UNCHANGED <<script, way, canceled, owner, stages>>
  BY DEF LaunchFails, IInv, LineInv, Accounted, Position
<1>2. Len(CurrentItem(l).stages) \in Nat \ {0} /\ script[l] \in Seq(Item)
  BY <1>1, CurrentItemType DEF IInv
<1>3. PICK n \in 0 .. (Len(CurrentItem(l).stages) - 1) :
          /\ Spawnable(CurrentItem(l).stages, n)
          /\ TableStep(n, TRUE, [i \in 1 .. n |-> nextPid + i - 1], "killed", KillCode.SIGTERM)
          /\ WireStages(l, n)
          /\ records' = [records EXCEPT ![l] = @ \cup Fresh(n)]
  BY DEF LaunchFails
<1>4. n \in Nat /\ n \in 0 .. Len(CurrentItem(l).stages)
  BY <1>2
<1> DEFINE row == [i \in 1 .. n |-> nextPid + i - 1]
<1>5. Fresh(n) \subseteq Pid /\ \A p \in Fresh(n) : state[p] = "unused"
  BY <1>3, <1>4, FreshUnused DEF IInv, TableInv, TableStep
<1>6. SettlesOnce(n, row) /\ Elements(row) = Fresh(n)
  <2>1. /\ row \in Seq(Pid) /\ DOMAIN row = 1 .. n /\ Elements(row) = Fresh(n)
        /\ \A i, j \in DOMAIN row : row[i] = row[j] => i = j
    BY <1>4, <1>5, FreshRow DEF IInv
  <2>2. \A i \in DOMAIN row : row[i] \in Fresh(n)
    BY <2>1 DEF Elements
  <2> HIDE DEF row
  <2> QED BY <2>1, <2>2 DEF SettlesOnce
<1>7. KillCode.SIGTERM \in Nat /\ TableStep(n, TRUE, row, "killed", KillCode.SIGTERM)
  BY <1>3 DEF KillCode
<1> HIDE DEF row
<1>8. TableInv'
  BY <1>4, <1>6, <1>7, TableStepInv, TRUE \in BOOLEAN DEF IInv
<1>9. /\ \A p \in Fresh(n) : state'[p] = "killed"
      /\ \A p \in Pid \ Fresh(n) : state'[p] = state[p]
  BY <1>5, <1>6, <1>7 DEF TableStep
<1>10. /\ IoTypeOK'
       /\ \A p \in Fresh(n) : prog'[p] \in Program
       /\ \A p \in Pid \ Fresh(n) : prog'[p] = prog[p] /\ body'[p] = body[p]
  BY <1>1, <1>3, <1>4, <1>5, WireStagesType
<1>11. Allocated' /\ records' \in [Line -> SUBSET Pid]
  BY <1>1, <1>3, <1>4, <1>5, <1>9, <1>10, StartedFor
<1>12. RunTypeOK'
  <2>1. Len(script[l]) + 1 \in Nat \ {0}
    BY <1>2
  <2>2. item' \in [Line -> Nat \ {0}] /\ code' \in [Line -> Nat] /\ pc' \in [Line -> Runner]
    BY <1>1, <2>1 DEF IInv, RunTypeOK, Runner
  <2> QED BY <1>1, <1>11, <2>2 DEF IInv, RunTypeOK
<1>13. /\ pc'[l] = "list" /\ records'[l] = records[l] \cup Fresh(n)
       /\ \A m \in Line \ {l} : pc'[m] = pc[m] /\ item'[m] = item[m] /\ records'[m] = records[m]
  BY <1>1, <1>3 DEF IInv, RunTypeOK
<1>14. Position(l)'
  BY <1>1, <1>13 DEF IInv, LineInv, Position
<1>15. Accounted(l)'
  <2>1. LineProcesses(l)' = {}
    <3> SUFFICES ASSUME NEW p \in records'[l], state'[p] = "running"
                 PROVE  FALSE
      BY DEF LineProcesses, Running
    <3>1. p \in records[l] /\ p \in Pid
      BY <1>9, <1>13 DEF IInv, RunTypeOK
    <3>2. state[p] = "running"
      BY <1>9, <3>1
    <3> QED BY <1>1, <3>1, <3>2 DEF LineProcesses, Running
  <2>2. (owner[l] # 0 /\ Settled(owner[l]))' => owner[l] # 0 /\ Settled(owner[l])
    BY <1>1, <1>5, <1>9 DEF Settled, IInv, RunTypeOK, LineInv, Allocated
  <2> QED BY <1>1, <1>13, <2>1, <2>2 DEF Accounted, IInv, LineInv
<1>16. \A p \in Pid : state[p] # "unused" => state'[p] = state[p]
  BY <1>5, <1>9
<1>17. LineInv'
  BY <1>1, <1>11, <1>13, <1>14, <1>15, <1>16, OthersUntouched
<1> QED BY <1>8, <1>10, <1>12, <1>17 DEF IInv

LEMMA KillLineKeeps ==
    ASSUME IInv, NEW l \in Line, NEW sig \in Signal, KillLine(l, sig)
    PROVE  IInv'
<1>1. /\ owner[l] \in Pid /\ Running(owner[l])
      /\ canceled' = [canceled EXCEPT ![l] = TRUE]
      /\ UNCHANGED <<script, way, pc, item, code, owner, records, stages, ioVars>>
  BY DEF KillLine, IInv, RunTypeOK
<1>2. LineProcesses(l) \in SUBSET Pid
  BY DEF LineProcesses, IInv, RunTypeOK
<1>3. PICK ps \in InSpawnOrder(LineProcesses(l)) :
          TableStep(0, FALSE, Append(ps, owner[l]), "killed", KillCode[sig])
  BY DEF KillLine
<1>4. /\ ps \in Seq(Pid) /\ Elements(ps) = LineProcesses(l)
      /\ \A i, j \in DOMAIN ps : ps[i] = ps[j] => i = j
  BY <1>2, SpawnOrder
<1>5. owner[l] \notin LineProcesses(l)
  <2>1. prog[owner[l]] = NoProgram
    <3>1. owner[l] # 0
      BY <1>1 DEF Pid
    <3> QED BY <3>1 DEF IInv, LineInv, Allocated
  <2>2. \A p \in records[l] : prog[p] # NoProgram
    BY DEF IInv, LineInv, Allocated
  <2> QED BY <2>1, <2>2 DEF LineProcesses
<1> DEFINE all == Append(ps, owner[l])
<1>6. /\ all \in Seq(Pid) /\ DOMAIN all = 1 .. (Len(ps) + 1) /\ Len(ps) \in Nat
      /\ DOMAIN ps = 1 .. Len(ps)
      /\ \A i \in 1 .. Len(ps) : all[i] = ps[i]
      /\ all[Len(ps) + 1] = owner[l]
  BY <1>1, <1>4
<1> HIDE DEF all
<1>7. \A i \in 1 .. Len(ps) : ps[i] \in LineProcesses(l)
  BY <1>4, <1>6 DEF Elements
<1>8. Elements(all) = LineProcesses(l) \cup {owner[l]}
  <2>1. \A p \in LineProcesses(l) : \E i \in 1 .. Len(ps) : p = ps[i]
    BY <1>4, <1>6 DEF Elements
  <2>2. \A p \in LineProcesses(l) : \E i \in DOMAIN all : p = all[i]
    BY <1>6, <2>1
  <2>3. \E i \in DOMAIN all : owner[l] = all[i]
    BY <1>6
  <2>4. \A i \in DOMAIN all : all[i] \in LineProcesses(l) \cup {owner[l]}
    BY <1>6, <1>7
  <2> QED BY <2>2, <2>3, <2>4 DEF Elements
<1>9. SettlesOnce(0, all)
  <2>1. \A i \in DOMAIN all : Running(all[i])
    <3>1. \A i \in DOMAIN all : all[i] \in LineProcesses(l) \cup {owner[l]}
      BY <1>8 DEF Elements
    <3> QED BY <1>1, <3>1 DEF LineProcesses
  <2>2. ASSUME NEW i \in DOMAIN all, NEW j \in DOMAIN all, all[i] = all[j]
        PROVE  i = j
    <3>1. CASE i \in 1 .. Len(ps) /\ j \in 1 .. Len(ps)
      BY <1>4, <1>6, <2>2, <3>1
    <3>2. CASE i = Len(ps) + 1 \/ j = Len(ps) + 1
      BY <1>5, <1>6, <1>7, <2>2, <3>2
    <3> QED BY <1>6, <3>1, <3>2
  <2> QED BY <1>6, <2>1, <2>2 DEF SettlesOnce
<1>10. KillCode[sig] \in Nat /\ TableStep(0, FALSE, all, "killed", KillCode[sig])
  <2>1. KillCode[sig] \in Nat
    BY ShellAssumption DEF KillCode
  <2> QED BY <1>3, <2>1 DEF all
<1>11. TableInv'
  BY <1>9, <1>10, TableStepInv, 0 \in Nat, FALSE \in BOOLEAN DEF IInv
<1>12. /\ state'[owner[l]] = "killed"
       /\ \A p \in LineProcesses(l) : state'[p] = "killed"
       /\ \A p \in Pid : p \notin LineProcesses(l) /\ p # owner[l] => state'[p] = state[p]
  <2>1. Fresh(0) = {}
    BY DEF IInv, TableInv, TableTypeOK, Fresh
  <2> QED BY <1>1, <1>2, <1>8, <1>10, <2>1 DEF TableStep
<1>13. RunTypeOK' /\ IoTypeOK'
  BY <1>1 DEF IInv, RunTypeOK, IoTypeOK, ioVars
<1>14. Allocated'
  <2>1. \A p \in Pid : state[p] # "unused" => state'[p] # "unused"
    BY <1>12
  <2> QED BY <1>1, <2>1 DEF IInv, RunTypeOK, LineInv, Allocated, ioVars
<1>15. canceled'[l] /\ \A m \in Line \ {l} : canceled'[m] = canceled[m]
  BY <1>1 DEF IInv, RunTypeOK
<1>16. Position(l)'
  <2>1. pc[l] # "idle"
    <3>1. 0 \notin Pid
      BY DEF Pid
    <3> QED BY <1>1, <3>1 DEF IInv, LineInv, Position
  <2> QED BY <1>1, <2>1 DEF IInv, LineInv, Position
<1>17. Accounted(l)'
  <2>1. LineProcesses(l)' = {}
    <3> SUFFICES ASSUME NEW p \in records[l], state'[p] = "running" PROVE FALSE
      BY <1>1 DEF LineProcesses, Running
    <3>1. p \in Pid
      BY DEF IInv, RunTypeOK
    <3> QED BY <1>12, <3>1 DEF LineProcesses, Running
  <2> QED BY <1>15, <2>1 DEF Accounted
<1>18. \A p \in Pid : p # owner[l] /\ p \notin records[l] => state'[p] = state[p]
  BY <1>12 DEF LineProcesses
<1>19. LineInv'
  BY <1>1, <1>14, <1>15, <1>16, <1>17, <1>18, OthersUntouched
<1> QED BY <1>11, <1>13, <1>19 DEF IInv

-----------------------------------------------------------------------------------

LEMMA NextKeeps == IInv /\ [Next]_vars => IInv'
<1> SUFFICES ASSUME IInv, [Next]_vars PROVE IInv'
  OBVIOUS
<1>1. ASSUME NEW l \in Line, NEW s \in Script, NEW w \in Way, Begin(l, s, w) PROVE IInv'
  BY <1>1, BeginKeeps
<1>2. ASSUME NEW l \in Line, Runs(l) PROVE IInv'
  BY <1>2, NextItemKeeps, AdoptExitKeeps, ExpandKeeps, SubstitutedKeeps,
     LaunchCanceledKeeps, LaunchStagesKeeps, LaunchFailsKeeps, CollectKeeps DEF Runs
<1>3. ASSUME NEW p \in Pid, Start(p) \/ Produce(p) \/ Copy(p) \/ Moves(p) PROVE IInv'
  BY <1>3, StartKeeps, ProduceKeeps, CopyKeeps, MovesKeeps
<1>4. ASSUME NEW p \in Pid, NEW c \in {0, 1}, Return(p, c) PROVE IInv'
  BY <1>4, ReturnKeeps
<1>5. ASSUME NEW p \in Pid, NEW sig \in Signal, KillProcess(p, sig) PROVE IInv'
  BY <1>5, KillProcessKeeps
<1>6. ASSUME NEW l \in Line, NEW sig \in Signal, KillLine(l, sig) PROVE IInv'
  BY <1>6, KillLineKeeps
<1>7. CASE UNCHANGED vars
  <2>1. TableInv'
    BY <1>7, TableStutter DEF vars, IInv
  <2>2. RunTypeOK' /\ IoTypeOK'
    BY <1>7 DEF vars, runVars, ioVars, IInv, RunTypeOK, IoTypeOK
  <2>3. UNCHANGED <<runVars, prog>> /\ body' = body /\ state' = state
    BY <1>7 DEF vars, ioVars, tableVars
  <2>4. LineInv'
    BY <2>3, ProcessStep
  <2> QED BY <2>1, <2>2, <2>4 DEF IInv
<1> QED BY <1>1, <1>2, <1>3, <1>4, <1>5, <1>6, <1>7 DEF Next, Quiet

LEMMA Invariance == Spec => []IInv
BY InitInv, NextKeeps, PTL DEF Spec

\* The type invariant, with the agreement of pid counter, records and streams.
THEOREM TypeCorrect == Spec => []TypeOK
<1>1. IInv => TypeOK
  BY DEF IInv, TableInv, TypeOK
<1> QED BY <1>1, Invariance, PTL

\* Running processes are always found in the table, and it keeps at most
\* MAX_SETTLED_RECORDS settled ones, whatever is spawned and killed.
THEOREM RetentionHolds == Spec => []Retention
<1>1. IInv => Retention
  BY DEF IInv, TableInv
<1> QED BY <1>1, Invariance, PTL

\* No process outlives the composite (or the session line) it was started for.
THEOREM NoOrphanHolds == Spec => []NoOrphan
<1>1. IInv => NoOrphan
  BY DEF IInv, LineInv, Accounted, LineProcesses, NoOrphan
<1> QED BY <1>1, Invariance, PTL

-----------------------------------------------------------------------------------

\* What a step may not do to the records that are settled.
Frozen == \A p \in Pid : Settled(p) => state'[p] = state[p] /\ exitCode'[p] = exitCode[p]

LEMMA TableStepFrozen ==
    ASSUME TableInv, NEW n \in Nat, NEW live, NEW ps, NEW how, NEW c,
           \A p \in Elements(ps) : ~Settled(p), TableStep(n, live, ps, how, c)
    PROVE  Frozen
<1>1. \A p \in Fresh(n) : ~Settled(p)
  BY FreshUnused DEF TableInv, TableStep, Settled
<1> QED BY <1>1 DEF Frozen, TableStep

LEMMA FinishFrozen ==
    ASSUME TableInv, NEW p, NEW c, FinishExited(p, c)
    PROVE  Frozen
<1>1. CASE Running(p)
  <2>1. \A q \in Elements(<<p>>) : ~Settled(q)
    BY <1>1 DEF Elements, Running, Settled
  <2> QED BY <1>1, <2>1, TableStepFrozen, 0 \in Nat DEF FinishExited
<1>2. CASE ~Running(p)
  BY <1>2 DEF FinishExited, Frozen, tableVars
<1> QED BY <1>1, <1>2

LEMMA SpawnFrozen ==
    ASSUME TableInv, NEW n \in Nat, NEW live, TableStep(n, live, <<>>, "exited", 0)
    PROVE  Frozen
<1>1. Elements(<<>>) = {}
  BY DEF Elements
<1> QED BY <1>1, TableStepFrozen

LEMMA NextFrozen == IInv /\ [Next]_vars => Frozen
<1> SUFFICES ASSUME IInv, [Next]_vars PROVE Frozen
  OBVIOUS
<1>0. ASSUME UNCHANGED tableVars PROVE Frozen
  BY <1>0 DEF tableVars, Frozen
<1>1. ASSUME NEW l \in Line, NEW s \in Script, NEW w \in Way, Begin(l, s, w) PROVE Frozen
  BY <1>0, <1>1, SpawnFrozen, 1 \in Nat DEF Begin, Adopt, IInv
<1>2. ASSUME NEW l \in Line, Runs(l) PROVE Frozen
  <2>1. CASE NextItem(l)
    <3>1. UNCHANGED tableVars \/ FinishExited(owner[l], code[l])
      BY <2>1 DEF NextItem, EndRunner
    <3> QED BY <1>0, <3>1, FinishFrozen DEF IInv
  <2>2. CASE AdoptExit(l)
    BY <2>2, FinishFrozen DEF AdoptExit, IInv
  <2>3. CASE Expand(l)
    <3>1. UNCHANGED tableVars \/ TableStep(1, TRUE, <<>>, "exited", 0)
      BY <2>3 DEF Expand, Spawn
    <3> QED BY <1>0, <3>1, SpawnFrozen, 1 \in Nat DEF IInv
  <2>4. CASE Substituted(l) \/ LaunchCanceled(l) \/ Collect(l)
    BY <1>0, <2>4 DEF Substituted, LaunchCanceled, Collect
  <2>5. CASE LaunchStages(l)
    <3>1. item[l] \in DOMAIN script[l]
      BY <2>5 DEF LaunchStages, IInv, LineInv, Position
    <3>2. Len(CurrentItem(l).stages) \in Nat
      BY <3>1, CurrentItemType DEF IInv
    <3> QED BY <2>5, <3>2, SpawnFrozen DEF LaunchStages, SpawnStages, Spawn, IInv
  <2>6. CASE LaunchFails(l)
    <3>1. item[l] \in DOMAIN script[l]
      BY <2>6 DEF LaunchFails, IInv, LineInv, Position
    <3>2. Len(CurrentItem(l).stages) \in Nat
      BY <3>1, CurrentItemType DEF IInv
    <3>3. PICK n \in 0 .. (Len(CurrentItem(l).stages) - 1) :
             TableStep(n, TRUE, [i \in 1 .. n |-> nextPid + i - 1], "killed", KillCode.SIGTERM)
      BY <2>6 DEF LaunchFails
    <3>4. n \in Nat /\ Fresh(n) \subseteq Pid /\ \A p \in Fresh(n) : ~Settled(p)
      BY <3>2, <3>3, FreshUnused DEF IInv, TableInv, TableStep, Settled
    <3> DEFINE row == [i \in 1 .. n |-> nextPid + i - 1]
    <3>5. Elements(row) = Fresh(n)
      BY <3>4, FreshRow DEF IInv
    <3> HIDE DEF row
    <3>6. TableStep(n, TRUE, row, "killed", KillCode.SIGTERM)
      BY <3>3 DEF row
    <3> QED BY <3>4, <3>5, <3>6, TableStepFrozen DEF IInv
  <2> QED BY <1>2, <2>1, <2>2, <2>3, <2>4, <2>5, <2>6 DEF Runs
<1>3. ASSUME NEW p \in Pid, Start(p) \/ Produce(p) \/ Copy(p) \/ Moves(p) PROVE Frozen
  BY <1>0, <1>3 DEF Start, Produce, Copy, WriteChunk, Moves, PumpChunk, PumpEnd, Drain
<1>4. ASSUME NEW p \in Pid, NEW c \in {0, 1}, Return(p, c) PROVE Frozen
  BY <1>4, FinishFrozen DEF Return, IInv
<1>5. ASSUME NEW p \in Pid, NEW sig \in Signal, KillProcess(p, sig) PROVE Frozen
  <2>1. \A q \in Elements(<<p>>) : ~Settled(q)
    BY <1>5 DEF KillProcess, Elements, Running, Settled
  <2> QED BY <1>5, <2>1, TableStepFrozen, 0 \in Nat DEF KillProcess, IInv
<1>6. ASSUME NEW l \in Line, NEW sig \in Signal, KillLine(l, sig) PROVE Frozen
  <2>1. PICK ps \in InSpawnOrder(LineProcesses(l)) :
            TableStep(0, FALSE, Append(ps, owner[l]), "killed", KillCode[sig])
    BY <1>6 DEF KillLine
  <2>2. LineProcesses(l) \in SUBSET Pid
    BY DEF LineProcesses, IInv, RunTypeOK
  <2>3. ps \in Seq(Pid) /\ Elements(ps) = LineProcesses(l)
    BY <2>2, SpawnOrder
  <2>4. \A p \in Elements(Append(ps, owner[l])) : p = owner[l] \/ p \in Elements(ps)
    <3>1. /\ DOMAIN Append(ps, owner[l]) = 1 .. (Len(ps) + 1) /\ Len(ps) \in Nat
          /\ DOMAIN ps = 1 .. Len(ps)
          /\ \A i \in 1 .. Len(ps) : Append(ps, owner[l])[i] = ps[i]
          /\ Append(ps, owner[l])[Len(ps) + 1] = owner[l]
      BY <2>3
    <3> QED BY <3>1 DEF Elements
  <2>5. \A p \in Elements(Append(ps, owner[l])) : ~Settled(p)
    BY <1>6, <2>3, <2>4 DEF KillLine, LineProcesses, Running, Settled
  <2> QED BY <2>1, <2>5, TableStepFrozen, 0 \in Nat DEF IInv
<1>7. CASE UNCHANGED vars
  BY <1>0, <1>7 DEF vars
<1> QED BY <1>1, <1>2, <1>3, <1>4, <1>5, <1>6, <1>7 DEF Next, Quiet

\* A record settles once, whoever exits or kills it and however often.
THEOREM SettledForGoodHolds == Spec => SettledForGood
<1>1. IInv /\ [Next]_vars
         => [\A p \in Pid : Settled(p) => state'[p] = state[p] /\ exitCode'[p] = exitCode[p]]_tableVars
  BY NextFrozen DEF Frozen
<1> QED BY <1>1, Invariance, PTL DEF Spec, SettledForGood

-----------------------------------------------------------------------------------
(* What the processes wrote.  Every chunk has one consumer from the moment its process *)
(* is wired: a pipe leads to one other process and no two pipes lead to the same, and  *)
(* a process that no pipe leads out of is drained before its line's runner goes on.    *)

\* A pid that no record uses has no stream behind it.
Untouched ==
    \A p \in Pid : state[p] = "unused" =>
        /\ wrote[p] = 0 /\ feeds[p] = 0
        /\ stdoutQ[p] = <<>> /\ stdinQ[p] = <<>> /\ taken[p] = <<>> /\ drained[p] = <<>>

\* A pipe leads to another process that was started, and to each process one at most.
Piped ==
    /\ \A p \in Pid : feeds[p] # 0 => feeds[p] # p /\ state[feeds[p]] # "unused"
    /\ \A p, q \in Pid : feeds[p] # 0 /\ feeds[p] = feeds[q] => p = q

\* What a line's processes sent to the line or to a file is drained, or the runner
\* waits for it.
Awaited(l) ==
    \A p \in records[l] : feeds[p] = 0 =>
        Consumed(p) \/ (pc[l] \in {"sub", "wait"} /\ p \in Elements(stages[l]))

OutInv == Untouched /\ Piped /\ OutputIntact /\ \A l \in Line : Awaited(l)

LEMMA InitOut == Init => OutInv
<1> SUFFICES ASSUME Init PROVE OutInv
  OBVIOUS
<1>1. \A p \in Pid : /\ state[p] = "unused" /\ wrote[p] = 0 /\ feeds[p] = 0 /\ stdoutQ[p] = <<>>
                     /\ stdinQ[p] = <<>> /\ taken[p] = <<>> /\ drained[p] = <<>>
  BY DEF Init, TableInit, IoInit
<1>2. <<>> \o <<>> = Chunks(0)
  BY DEF Chunks
<1>3. OutputIntact
  BY <1>1, <1>2 DEF OutputIntact
<1>4. \A l \in Line : records[l] = {}
  BY DEF Init, ShellInit
<1> QED BY <1>1, <1>3, <1>4 DEF OutInv, Untouched, Piped, Awaited

\* A chunk moved from the head of one queue to the end of the one in front of it is
\* still in its place.
LEMMA MoveChunk ==
    ASSUME NEW a \in Seq(Nat), NEW b \in Seq(Nat), b # <<>>
    PROVE  /\ Append(a, Head(b)) \o Tail(b) = a \o b
           /\ Append(a, Head(b)) \in Seq(Nat) /\ Tail(b) \in Seq(Nat)
<1>1. /\ Head(b) \in Nat /\ Tail(b) \in Seq(Nat) /\ <<Head(b)>> \in Seq(Nat)
      /\ Len(b) \in Nat \ {0} /\ Len(Tail(b)) = Len(b) - 1 /\ Head(b) = b[1]
      /\ \A i \in 1 .. Len(Tail(b)) : Tail(b)[i] = b[i + 1]
  BY HeadTailProperties, EmptySeq
<1>2. Append(a, Head(b)) = a \o <<Head(b)>> /\ Append(a, Head(b)) \in Seq(Nat)
  BY <1>1, AppendIsConcat, AppendProperties
<1>3. <<Head(b)>> \o Tail(b) = b
  <2> DEFINE c == <<Head(b)>> \o Tail(b)
  <2>1. /\ c \in Seq(Nat) /\ Len(c) = Len(b)
        /\ \A i \in 1 .. Len(b) : c[i] = IF i <= 1 THEN Head(b) ELSE Tail(b)[i - 1]
    BY <1>1, ConcatProperties
  <2>2. \A i \in 1 .. Len(b) : c[i] = b[i]
    <3> SUFFICES ASSUME NEW i \in 1 .. Len(b) PROVE c[i] = b[i]
      OBVIOUS
    <3>1. CASE i = 1
      BY <1>1, <2>1, <3>1
    <3>2. CASE i # 1
      <4>1. i - 1 \in 1 .. Len(Tail(b)) /\ ~(i <= 1) /\ (i - 1) + 1 = i
        BY <1>1, <3>2
      <4> HIDE DEF c
      <4> QED BY <1>1, <2>1, <4>1
    <3> QED BY <3>1, <3>2
  <2> HIDE DEF c
  <2>3. c = b
    BY <2>1, <2>2, SeqEqual
  <2> QED BY <2>3 DEF c
<1>4. (a \o <<Head(b)>>) \o Tail(b) = a \o (<<Head(b)>> \o Tail(b))
  <2> DEFINE h == <<Head(b)>>
             r == Tail(b)
  <2>1. a \in Seq(Nat) /\ h \in Seq(Nat) /\ r \in Seq(Nat)
    BY <1>1
  <2> HIDE DEF h, r
  <2>2. (a \o h) \o r = a \o (h \o r)
    BY <2>1, ConcatAssociative, SMTT(30)
  <2> QED BY <2>2 DEF h, r
<1> QED BY <1>1, <1>2, <1>3, <1>4

\* What is put behind the second of two queues is behind both.
LEMMA AppendBehind ==
    ASSUME NEW a \in Seq(Nat), NEW b \in Seq(Nat), NEW e \in Nat
    PROVE  a \o Append(b, e) = Append(a \o b, e)
<1> DEFINE c == <<e>>
<1>1. a \in Seq(Nat) /\ b \in Seq(Nat) /\ c \in Seq(Nat)
  OBVIOUS
<1>2. a \o b \in Seq(Nat)
  BY ConcatProperties
<1>3. Append(b, e) = b \o c /\ Append(a \o b, e) = (a \o b) \o c
  BY <1>2, AppendIsConcat
<1> HIDE DEF c
<1>4. (a \o b) \o c = a \o (b \o c)
  BY <1>1, ConcatAssociative, Z3
<1> QED BY <1>3, <1>4

\* The next chunk behind those of a stream.
LEMMA NextChunk ==
    ASSUME NEW a \in Seq(Nat), NEW b \in Seq(Nat), NEW n \in Nat, a \o b = Chunks(n)
    PROVE  a \o Append(b, n + 1) = Chunks(n + 1)
<1>1. a \o Append(b, n + 1) = Append(a \o b, n + 1)
  BY AppendBehind
<1>2. Append(Chunks(n), n + 1) = Chunks(n + 1)
  BY DEF Chunks
<1> QED BY <1>1, <1>2

LEMMA ChunksType ==
    ASSUME IInv, NEW p \in Pid
    PROVE  /\ wrote[p] \in Nat /\ stdoutQ[p] \in Seq(Nat) /\ stdinQ[p] \in Seq(Nat)
           /\ taken[p] \in Seq(Nat) /\ drained[p] \in Seq(Nat) /\ feeds[p] \in Pid \cup {0}
           /\ body[p] # "none" => state[p] # "unused"
           /\ prog[p] # NoProgram => state[p] # "unused"
BY DEF IInv, IoTypeOK, LineInv, Allocated

\* A runner stays where it is, or was not waiting for output, or all of it is drained.
Passes(l) ==
    \/ pc'[l] = pc[l] /\ stages'[l] = stages[l]
    \/ pc[l] \notin {"sub", "wait"}
    \/ \A p \in Elements(stages[l]) : feeds[p] = 0 => Consumed(p)

\* A used record stays one, and an ended stream is not opened again.
NotReopened ==
    \A p \in Pid : state[p] # "unused" =>
        state'[p] # "unused" /\ (stdoutOpen'[p] => stdoutOpen[p])

LEMMA AwaitedKept ==
    ASSUME IInv, NEW l \in Line, Awaited(l), Passes(l), records'[l] = records[l],
           \A p \in records[l] : feeds'[p] = feeds[p] /\ (Consumed(p) => Consumed(p)')
    PROVE  Awaited(l)'
<1> SUFFICES ASSUME NEW p \in records[l], feeds[p] = 0
             PROVE  Consumed(p)' \/ (pc'[l] \in {"sub", "wait"} /\ p \in Elements(stages'[l]))
  BY DEF Awaited, Elements
<1>1. CASE Consumed(p)
  BY <1>1
<1>2. CASE pc[l] \in {"sub", "wait"} /\ p \in Elements(stages[l])
  BY <1>2 DEF Passes
<1> QED BY <1>1, <1>2 DEF Awaited

\* A step of the table or of a runner that moves no chunk and wires no process.
LEMMA QuietOut ==
    ASSUME IInv, OutInv, NotReopened, \A l \in Line : Passes(l),
           UNCHANGED <<wrote, stdoutQ, stdinQ, taken, drained, feeds, records>>
    PROVE  OutInv'
<1>1. Untouched'
  BY DEF OutInv, Untouched, NotReopened
<1>2. Piped'
  <2>1. \A p \in Pid : feeds[p] # 0 => feeds[p] \in Pid
    BY ChunksType
  <2> QED BY <2>1 DEF OutInv, Piped, NotReopened
<1>3. OutputIntact'
  BY DEF OutInv, OutputIntact, Chunks
<1>4. ASSUME NEW l \in Line PROVE Awaited(l)'
  <2>1. \A p \in records[l] : p \in Pid /\ state[p] # "unused"
    BY ChunksType DEF IInv, RunTypeOK, LineInv, Allocated
  <2>2. \A p \in records[l] : Consumed(p) => Consumed(p)'
    BY <2>1 DEF NotReopened, Consumed
  <2> QED BY <2>2, AwaitedKept DEF OutInv
<1> QED BY <1>1, <1>2, <1>3, <1>4 DEF OutInv

\* n processes are started, each with no pipe or with one into the process behind it.
LEMMA WiredOut ==
    ASSUME IInv, OutInv, NotReopened,
           UNCHANGED <<wrote, stdoutQ, stdinQ, taken, drained>>,
           \A p \in Pid : state[p] # "unused" => feeds'[p] = feeds[p],
           \A p \in Pid : state[p] = "unused" =>
              \/ feeds'[p] = 0
              \/ /\ feeds'[p] = p + 1 /\ p + 1 \in Pid /\ state'[p] # "unused"
                 /\ state[p + 1] = "unused" /\ state'[p + 1] # "unused",
           \A l \in Line : Awaited(l)'
    PROVE  OutInv'
<1>0. \A p \in Pid : p \in Int /\ (feeds[p] # 0 => feeds[p] \in Pid)
  BY ChunksType DEF Pid
<1>1. Untouched'
  BY DEF OutInv, Untouched, NotReopened
<1>2. Piped'
  <2>1. ASSUME NEW p \in Pid, feeds'[p] # 0
        PROVE  feeds'[p] # p /\ state'[feeds'[p]] # "unused"
    <3>1. CASE state[p] = "unused"
      BY <1>0, <2>1, <3>1
    <3>2. CASE state[p] # "unused"
      BY <1>0, <2>1, <3>2 DEF OutInv, Piped, NotReopened
    <3> QED BY <3>1, <3>2
  <2>2. ASSUME NEW p \in Pid, NEW q \in Pid, feeds'[p] # 0, feeds'[p] = feeds'[q]
        PROVE  p = q
    <3>1. CASE state[p] = "unused" /\ state[q] = "unused"
      BY <1>0, <2>2, <3>1
    <3>2. CASE state[p] # "unused" /\ state[q] # "unused"
      BY <2>2, <3>2 DEF OutInv, Piped
    <3>3. CASE state[p] = "unused" /\ state[q] # "unused"
      BY <1>0, <2>2, <3>3 DEF OutInv, Piped
    <3>4. CASE state[p] # "unused" /\ state[q] = "unused"
      BY <1>0, <2>2, <3>4 DEF OutInv, Piped
    <3> QED BY <3>1, <3>2, <3>3, <3>4
  <2> QED BY <2>1, <2>2 DEF Piped
<1>3. OutputIntact'
  <2> SUFFICES ASSUME NEW p \in Pid
               PROVE  IF feeds'[p] # 0
                      THEN taken[feeds'[p]] \o stdinQ[feeds'[p]] \o stdoutQ[p] = Chunks(wrote[p])
                      ELSE drained[p] \o stdoutQ[p] = Chunks(wrote[p])
    BY DEF OutputIntact, Chunks
  <2>1. CASE state[p] # "unused"
    BY <2>1 DEF OutInv, OutputIntact
  <2>2. CASE state[p] = "unused"
    <3>1. <<>> \o <<>> = <<>> /\ Chunks(0) = <<>>
      BY DEF Chunks
    <3>2. wrote[p] = 0 /\ stdoutQ[p] = <<>> /\ drained[p] = <<>>
      BY <2>2 DEF OutInv, Untouched
    <3>3. CASE feeds'[p] = 0
      BY <3>1, <3>2, <3>3
    <3>4. CASE feeds'[p] # 0
      <4>1. feeds'[p] \in Pid /\ state[feeds'[p]] = "unused"
        BY <2>2, <3>4
      <4>2. taken[feeds'[p]] = <<>> /\ stdinQ[feeds'[p]] = <<>>
        BY <4>1 DEF OutInv, Untouched
      <4> QED BY <3>1, <3>2, <3>4, <4>2
    <3> QED BY <3>3, <3>4
  <2> QED BY <2>1, <2>2
<1> QED BY <1>1, <1>2, <1>3 DEF OutInv

LEMMA StepCloses ==
    ASSUME TableInv, NEW n \in Nat, NEW live, NEW ps, NEW how \in {"exited", "killed"}, NEW c,
           TableStep(n, live, ps, how, c)
    PROVE  NotReopened
<1>1. \A p \in Fresh(n) : state[p] = "unused"
  BY FreshUnused DEF TableInv, TableStep
<1> QED BY <1>1 DEF NotReopened, TableStep

LEMMA StutterCloses == ASSUME UNCHANGED tableVars PROVE NotReopened
BY DEF tableVars, NotReopened

LEMMA FinishCloses ==
    ASSUME TableInv, NEW p, NEW c, FinishExited(p, c)
    PROVE  NotReopened
BY StepCloses, StutterCloses, 0 \in Nat DEF FinishExited

\* The steps that start no process and move no chunk.
LEMMA RunnersOut ==
    ASSUME IInv, OutInv, NEW l \in Line,
           NextItem(l) \/ AdoptExit(l) \/ Substituted(l) \/ LaunchCanceled(l) \/ Collect(l)
    PROVE  OutInv'
<1>1. /\ UNCHANGED <<wrote, stdoutQ, stdinQ, taken, drained, feeds, records, stages>>
      /\ \A m \in Line \ {l} : pc'[m] = pc[m]
  BY DEF NextItem, EndRunner, AdoptExit, Substituted, LaunchCanceled, Collect, ioVars, IInv, RunTypeOK
<1>2. NotReopened
  <2>1. CASE NextItem(l)
    BY <2>1, StutterCloses, FinishCloses DEF NextItem, EndRunner, IInv
  <2>2. CASE AdoptExit(l)
    BY <2>2, FinishCloses DEF AdoptExit, IInv
  <2>3. CASE Substituted(l) \/ LaunchCanceled(l) \/ Collect(l)
    BY <2>3, StutterCloses DEF Substituted, LaunchCanceled, Collect
  <2> QED BY <2>1, <2>2, <2>3
<1>3. Passes(l)
  BY DEF NextItem, AdoptExit, Substituted, LaunchCanceled, Collect, StageDone, Passes
<1>4. \A m \in Line : Passes(m)
  BY <1>1, <1>3 DEF Passes
<1> QED BY <1>1, <1>2, <1>4, QuietOut

LEMMA BeginOut ==
    ASSUME IInv, OutInv, NEW l \in Line, NEW s \in Script, NEW w \in Way, Begin(l, s, w)
    PROVE  OutInv'
<1>1. /\ UNCHANGED <<wrote, stdoutQ, stdinQ, taken, drained, feeds, records, stages>>
      /\ pc[l] = "idle" /\ \A m \in Line \ {l} : pc'[m] = pc[m]
  BY DEF Begin, ioVars, IInv, RunTypeOK
<1>2. NotReopened
  BY StutterCloses, StepCloses, 1 \in Nat DEF Begin, Adopt, IInv
<1>3. \A m \in Line : Passes(m)
  BY <1>1 DEF Passes
<1> QED BY <1>1, <1>2, <1>3, QuietOut

LEMMA EndsOut ==
    ASSUME IInv, OutInv,
           \/ \E p \in Pid : Start(p) \/ PumpEnd(p)
           \/ \E p \in Pid, c \in {0, 1} : Return(p, c)
           \/ \E p \in Pid, sig \in Signal : KillProcess(p, sig)
           \/ \E l \in Line, sig \in Signal : KillLine(l, sig)
    PROVE  OutInv'
<1>1. /\ UNCHANGED <<wrote, stdoutQ, stdinQ, taken, drained, feeds, records>>
      /\ UNCHANGED <<pc, stages>>
  BY DEF Start, PumpEnd, Return, KillProcess, KillLine, ioVars, runVars
<1>2. NotReopened
  <2>1. ASSUME NEW p \in Pid, Start(p) \/ PumpEnd(p) PROVE NotReopened
    BY <2>1, StutterCloses DEF Start, PumpEnd
  <2>2. ASSUME NEW p \in Pid, NEW c \in {0, 1}, Return(p, c) PROVE NotReopened
    BY <2>2, FinishCloses DEF Return, IInv
  <2>3. ASSUME NEW p \in Pid, NEW sig \in Signal, KillProcess(p, sig) PROVE NotReopened
    BY <2>3, StepCloses, 0 \in Nat DEF KillProcess, IInv
  <2>4. ASSUME NEW l \in Line, NEW sig \in Signal, KillLine(l, sig) PROVE NotReopened
    <3>1. PICK ps \in InSpawnOrder(LineProcesses(l)) :
              TableStep(0, FALSE, Append(ps, owner[l]), "killed", KillCode[sig])
      BY <2>4 DEF KillLine
    <3> QED BY <3>1, StepCloses, 0 \in Nat DEF IInv
  <2> QED BY <2>1, <2>2, <2>3, <2>4
<1>3. \A m \in Line : Passes(m)
  BY <1>1 DEF Passes
<1> QED BY <1>1, <1>2, <1>3, QuietOut

\* The steps that start processes: a substitution's one, a pipeline's, and the stages in
\* front of a command that is missing.
LEMMA ExpandOut ==
    ASSUME IInv, OutInv, NEW l \in Line, Expand(l)
    PROVE  OutInv'
<1> DEFINE s == CurrentItem(l).sub
<1>0. pc[l] = "expand" /\ \A m \in Line \ {l} : pc'[m] = pc[m]
  BY DEF Expand, IInv, RunTypeOK
<1>1. CASE s \in Program /\ ~canceled[l]
  <2>1. /\ TableStep(1, TRUE, <<>>, "exited", 0)
        /\ feeds' = [p \in Pid |-> IF p \in Fresh(1) THEN 0 ELSE feeds[p]]
        /\ UNCHANGED <<wrote, stdoutQ, stdinQ, taken, drained>>
        /\ records' = [records EXCEPT ![l] = @ \cup Fresh(1)]
        /\ stages' = [stages EXCEPT ![l] = <<nextPid>>]
        /\ pc' = [pc EXCEPT ![l] = "sub"]
    BY <1>1 DEF Expand, Spawn, Wire
  <2>2. NotReopened
    BY <2>1, StepCloses, 1 \in Nat DEF IInv
  <2>3. /\ Fresh(1) \subseteq Pid
        /\ \A p \in Fresh(1) : state[p] = "unused" /\ state'[p] = "running"
        /\ \A p \in Pid \ Fresh(1) : state'[p] = state[p]
    BY <2>1, SpawnStates, 1 \in Nat, TRUE \in BOOLEAN DEF IInv
  <2>4. Fresh(1) = {nextPid} /\ Elements(<<nextPid>>) = {nextPid}
    BY TableAssumption DEF IInv, TableInv, TableTypeOK, Fresh, Elements
  <2>5. /\ \A p \in Pid : state[p] # "unused" => feeds'[p] = feeds[p]
        /\ \A p \in Pid : state[p] = "unused" => feeds'[p] = 0
    BY <2>1, <2>3 DEF OutInv, Untouched
  <2>6. /\ pc'[l] = "sub" /\ stages'[l] = <<nextPid>> /\ records'[l] = records[l] \cup {nextPid}
        /\ \A m \in Line \ {l} : stages'[m] = stages[m] /\ records'[m] = records[m]
    BY <2>1, <2>4 DEF IInv, RunTypeOK
  <2>7. \A m \in Line : \A p \in records[m] : /\ p \in Pid /\ state[p] # "unused"
                                              /\ feeds'[p] = feeds[p] /\ (Consumed(p) => Consumed(p)')
    <3>1. \A m \in Line : \A p \in records[m] : p \in Pid /\ state[p] # "unused"
      BY ChunksType DEF IInv, RunTypeOK, LineInv, Allocated
    <3> QED BY <2>1, <2>2, <2>5, <3>1 DEF NotReopened, Consumed
  <2>8. ASSUME NEW m \in Line PROVE Awaited(m)'
    <3>1. CASE m = l
      <4>1. \A p \in records[l] : feeds[p] = 0 => Consumed(p)
        BY <1>0 DEF OutInv, Awaited
      <4>2. nextPid \in Elements(stages'[l]) /\ pc'[l] = "sub"
        BY <2>4, <2>6
      <4>3. \A p \in records'[l] : feeds'[p] = 0 => Consumed(p)' \/ p = nextPid
        BY <2>6, <2>7, <4>1
      <4> QED BY <3>1, <4>2, <4>3 DEF Awaited, Elements
    <3>2. CASE m # l
      BY <1>0, <2>6, <2>7, <3>2, AwaitedKept DEF OutInv, Passes
    <3> QED BY <3>1, <3>2
  <2> QED BY <2>1, <2>2, <2>5, <2>8, WiredOut
<1>2. CASE ~(s \in Program /\ ~canceled[l])
  <2>1. UNCHANGED <<tableVars, ioVars, records, stages>>
    BY <1>2 DEF Expand
  <2>2. \A m \in Line : Passes(m)
    BY <1>0, <2>1 DEF Passes
  <2> QED BY <2>1, <2>2, StutterCloses, QuietOut DEF ioVars
<1> QED BY <1>1, <1>2

\* What the wiring of n stages does to the pipes.
LEMMA StagesPiped ==
    ASSUME IInv, OutInv, NEW l \in Line, NEW n \in Nat, WireStages(l, n), Fresh(n) \subseteq Pid,
           \A p \in Fresh(n) : state[p] = "unused" /\ state'[p] # "unused",
           \A p \in Pid \ Fresh(n) : state'[p] = state[p]
    PROVE  /\ UNCHANGED <<wrote, stdoutQ, stdinQ, taken, drained>>
           /\ \A p \in Pid : state[p] # "unused" => feeds'[p] = feeds[p]
           /\ \A p \in Pid : state[p] = "unused" =>
                 \/ feeds'[p] = 0
                 \/ /\ feeds'[p] = p + 1 /\ p + 1 \in Pid /\ state'[p] # "unused"
                    /\ state[p + 1] = "unused" /\ state'[p + 1] # "unused"
<1> DEFINE cmds == CurrentItem(l).stages
           at(p) == p - nextPid + 1
<1>1. /\ feeds' = [p \in Pid |-> IF p \in Fresh(n)
                                 THEN IF FeedsNext(cmds, at(p)) /\ at(p) < n THEN p + 1 ELSE 0
                                 ELSE feeds[p]]
      /\ UNCHANGED <<wrote, stdoutQ, stdinQ, taken, drained>>
  BY DEF WireStages, Wire
<1>2. \A p \in Fresh(n) : at(p) < n => p + 1 \in Fresh(n)
  BY TableAssumption DEF IInv, TableInv, TableTypeOK, Fresh
<1>3. \A p \in Fresh(n) : \/ feeds'[p] = 0
                          \/ feeds'[p] = p + 1 /\ p + 1 \in Fresh(n)
  <2> HIDE DEF cmds, at
  <2> QED BY <1>1, <1>2
<1>4. \A p \in Pid \ Fresh(n) : feeds'[p] = feeds[p]
  <2> HIDE DEF cmds, at
  <2> QED BY <1>1
<1>5. \A p \in Pid : state[p] # "unused" => feeds'[p] = feeds[p]
  BY <1>4
<1>6. \A p \in Pid : state[p] = "unused" =>
                 \/ feeds'[p] = 0
                 \/ /\ feeds'[p] = p + 1 /\ p + 1 \in Pid /\ state'[p] # "unused"
                    /\ state[p + 1] = "unused" /\ state'[p + 1] # "unused"
  BY <1>3, <1>4 DEF OutInv, Untouched
<1> QED BY <1>1, <1>5, <1>6

LEMMA LaunchStagesOut ==
    ASSUME IInv, OutInv, NEW l \in Line, LaunchStages(l)
    PROVE  OutInv'
<1> DEFINE n == Len(CurrentItem(l).stages)
<1>1. /\ pc[l] = "launch" /\ item[l] \in DOMAIN script[l]
      /\ TableStep(n, TRUE, <<>>, "exited", 0)
      /\ WireStages(l, n)
      /\ records' = [records EXCEPT ![l] = @ \cup Fresh(n)]
      /\ stages' = [stages EXCEPT ![l] = [i \in 1 .. n |-> nextPid + i - 1]]
      /\ pc' = [pc EXCEPT ![l] = "wait"]
  BY DEF LaunchStages, SpawnStages, Spawn, IInv, LineInv, Position
<1>2. n \in Nat
  BY <1>1, CurrentItemType DEF IInv
<1> HIDE DEF n
<1>3. /\ Fresh(n) \subseteq Pid
      /\ \A p \in Fresh(n) : state[p] = "unused" /\ state'[p] = "running"
      /\ \A p \in Pid \ Fresh(n) : state'[p] = state[p]
  BY <1>1, <1>2, SpawnStates, TRUE \in BOOLEAN DEF IInv
<1>4. NotReopened
  BY <1>1, <1>2, StepCloses DEF IInv
<1>5. /\ UNCHANGED <<wrote, stdoutQ, stdinQ, taken, drained>>
      /\ \A p \in Pid : state[p] # "unused" => feeds'[p] = feeds[p]
      /\ \A p \in Pid : state[p] = "unused" =>
            \/ feeds'[p] = 0
            \/ /\ feeds'[p] = p + 1 /\ p + 1 \in Pid /\ state'[p] # "unused"
               /\ state[p + 1] = "unused" /\ state'[p + 1] # "unused"
  BY <1>1, <1>2, <1>3, StagesPiped
<1>6. Elements([i \in 1 .. n |-> nextPid + i - 1]) = Fresh(n)
  BY <1>2, <1>3, FreshRow DEF IInv
<1>7. /\ pc'[l] = "wait" /\ Elements(stages'[l]) = Fresh(n) /\ records'[l] = records[l] \cup Fresh(n)
      /\ \A m \in Line \ {l} : stages'[m] = stages[m] /\ records'[m] = records[m] /\ pc'[m] = pc[m]
  BY <1>1, <1>6 DEF IInv, RunTypeOK
<1>8. \A m \in Line : \A p \in records[m] : /\ p \in Pid /\ state[p] # "unused"
                                            /\ feeds'[p] = feeds[p] /\ (Consumed(p) => Consumed(p)')
  <2>1. \A m \in Line : \A p \in records[m] : p \in Pid /\ state[p] # "unused"
    BY ChunksType DEF IInv, RunTypeOK, LineInv, Allocated
  <2> QED BY <1>4, <1>5, <2>1 DEF NotReopened, Consumed
<1>9. ASSUME NEW m \in Line PROVE Awaited(m)'
  <2>1. CASE m = l
    <3>1. \A p \in records[l] : feeds[p] = 0 => Consumed(p)
      BY <1>1 DEF OutInv, Awaited
    <3>2. \A p \in records'[l] : feeds'[p] = 0 => Consumed(p)' \/ p \in Elements(stages'[l])
      BY <1>7, <1>8, <3>1
    <3> QED BY <1>7, <2>1, <3>2 DEF Awaited, Elements
  <2>2. CASE m # l
    BY <1>7, <1>8, <2>2, AwaitedKept DEF OutInv, Passes
  <2> QED BY <2>1, <2>2
<1> QED BY <1>4, <1>5, <1>9, WiredOut

LEMMA LaunchFailsOut ==
    ASSUME IInv, OutInv, NEW l \in Line, LaunchFails(l)
    PROVE  OutInv'
<1>1. /\ pc[l] = "launch" /\ item[l] \in DOMAIN script[l]
      /\ \A m \in Line \ {l} : pc'[m] = pc[m]
      /\ UNCHANGED stages
  BY DEF LaunchFails, IInv, LineInv, Position, RunTypeOK
<1>2. Len(CurrentItem(l).stages) \in Nat
  BY <1>1, CurrentItemType DEF IInv
<1>3. PICK n \in 0 .. (Len(CurrentItem(l).stages) - 1) :
          /\ TableStep(n, TRUE, [i \in 1 .. n |-> nextPid + i - 1], "killed", KillCode.SIGTERM)
          /\ WireStages(l, n)
          /\ records' = [records EXCEPT ![l] = @ \cup Fresh(n)]
  BY DEF LaunchFails
<1>4. n \in Nat
  BY <1>2
<1> DEFINE row == [i \in 1 .. n |-> nextPid + i - 1]
<1>5. Fresh(n) \subseteq Pid /\ \A p \in Fresh(n) : state[p] = "unused"
  BY <1>3, <1>4, FreshUnused DEF IInv, TableInv, TableStep
<1>6. Elements(row) = Fresh(n)
  BY <1>4, <1>5, FreshRow DEF IInv
<1>7. TableStep(n, TRUE, row, "killed", KillCode.SIGTERM)
  BY <1>3
<1> HIDE DEF row
<1>8. /\ \A p \in Fresh(n) : state'[p] = "killed" /\ ~stdoutOpen'[p]
      /\ \A p \in Pid \ Fresh(n) : state'[p] = state[p]
  BY <1>5, <1>6, <1>7 DEF TableStep
<1>9. NotReopened
  BY <1>4, <1>7, StepCloses DEF IInv
<1>10. /\ UNCHANGED <<wrote, stdoutQ, stdinQ, taken, drained>>
       /\ \A p \in Pid : state[p] # "unused" => feeds'[p] = feeds[p]
       /\ \A p \in Pid : state[p] = "unused" =>
             \/ feeds'[p] = 0
             \/ /\ feeds'[p] = p + 1 /\ p + 1 \in Pid /\ state'[p] # "unused"
                /\ state[p + 1] = "unused" /\ state'[p + 1] # "unused"
  BY <1>3, <1>4, <1>5, <1>8, StagesPiped
<1>11. /\ records'[l] = records[l] \cup Fresh(n)
       /\ \A m \in Line \ {l} : records'[m] = records[m]
  BY <1>3 DEF IInv, RunTypeOK
<1>12. \A m \in Line : \A p \in records[m] : /\ p \in Pid /\ state[p] # "unused"
                                             /\ feeds'[p] = feeds[p] /\ (Consumed(p) => Consumed(p)')
  <2>1. \A m \in Line : \A p \in records[m] : p \in Pid /\ state[p] # "unused"
    BY ChunksType DEF IInv, RunTypeOK, LineInv, Allocated
  <2> QED BY <1>9, <1>10, <2>1 DEF NotReopened, Consumed
<1>13. \A p \in Fresh(n) : Consumed(p)'
  <2>1. \A p \in Fresh(n) : stdoutQ[p] = <<>>
    BY <1>5 DEF OutInv, Untouched
  <2> QED BY <1>8, <1>10, <2>1 DEF Consumed
<1>14. ASSUME NEW m \in Line PROVE Awaited(m)'
  <2>1. CASE m = l
    <3>1. \A p \in records[l] : feeds[p] = 0 => Consumed(p)
      BY <1>1 DEF OutInv, Awaited
    <3>2. \A p \in records'[l] : feeds'[p] = 0 => Consumed(p)'
      BY <1>11, <1>12, <1>13, <3>1
    <3> QED BY <2>1, <3>2 DEF Awaited
  <2>2. CASE m # l
    BY <1>1, <1>11, <1>12, <2>2, AwaitedKept DEF OutInv, Passes
  <2> QED BY <2>1, <2>2
<1> QED BY <1>9, <1>10, <1>14, WiredOut

\* The steps that move a chunk leave the table, the runners and the pipes as they are,
\* and put nothing on a stream that is consumed.
LEMMA ChunkMoved ==
    ASSUME IInv, OutInv, UNCHANGED <<tableVars, runVars, feeds>>,
           \A q \in Pid : state[q] = "unused" =>
              /\ wrote'[q] = wrote[q] /\ stdoutQ'[q] = stdoutQ[q] /\ stdinQ'[q] = stdinQ[q]
              /\ taken'[q] = taken[q] /\ drained'[q] = drained[q],
           \A q \in Pid : Consumed(q) => Consumed(q)',
           OutputIntact'
    PROVE  OutInv'
<1>1. Untouched'
  BY DEF OutInv, Untouched, tableVars
<1>2. Piped'
  BY DEF OutInv, Piped, tableVars
<1>3. ASSUME NEW l \in Line PROVE Awaited(l)'
  <2>1. records[l] \subseteq Pid
    BY DEF IInv, RunTypeOK
  <2> QED BY <2>1, AwaitedKept DEF OutInv, Passes, runVars
<1> QED BY <1>1, <1>2, <1>3 DEF OutInv

\* A write of a body, which may have read its stdin first.
LEMMA WriteOut ==
    ASSUME IInv, OutInv, NEW p \in Pid, body[p] = "running",
           NEW left \in Seq(Nat), NEW read \in Seq(Nat), WriteChunk(p, left, read),
           read \o left = taken[p] \o stdinQ[p]
    PROVE  OutInv'
<1>1. state[p] # "unused" /\ UNCHANGED <<tableVars, runVars, feeds, drained>>
  BY ChunksType DEF WriteChunk
<1>2. /\ stdinQ'[p] = left /\ taken'[p] = read
      /\ \A q \in Pid : q # p => stdinQ'[q] = stdinQ[q] /\ taken'[q] = taken[q]
      /\ \A q \in Pid : q # p => stdoutQ'[q] = stdoutQ[q] /\ wrote'[q] = wrote[q]
      /\ \/ stdoutQ'[p] = stdoutQ[p] /\ wrote'[p] = wrote[p]
         \/ /\ stdoutOpen[p]
            /\ stdoutQ'[p] = Append(stdoutQ[p], wrote[p] + 1) /\ wrote'[p] = wrote[p] + 1
  BY DEF WriteChunk, IInv, IoTypeOK
<1>3. \A q \in Pid : taken'[q] \o stdinQ'[q] = taken[q] \o stdinQ[q]
  BY <1>2
<1>4. \A q \in Pid : taken[q] \o stdinQ[q] \in Seq(Nat)
  BY ChunksType, ConcatProperties
<1>5. \A q \in Pid : Consumed(q) => Consumed(q)'
  BY <1>1, <1>2 DEF Consumed, tableVars
<1>6. OutputIntact'
  <2> SUFFICES ASSUME NEW q \in Pid
               PROVE  IF feeds[q] # 0
                      THEN taken'[feeds[q]] \o stdinQ'[feeds[q]] \o stdoutQ'[q] = Chunks(wrote'[q])
                      ELSE drained[q] \o stdoutQ'[q] = Chunks(wrote'[q])
    BY <1>1 DEF OutputIntact, Chunks
  <2>1. /\ feeds[q] # 0 => feeds[q] \in Pid
        /\ IF feeds[q] # 0
           THEN taken[feeds[q]] \o stdinQ[feeds[q]] \o stdoutQ[q] = Chunks(wrote[q])
           ELSE drained[q] \o stdoutQ[q] = Chunks(wrote[q])
    BY ChunksType DEF OutInv, OutputIntact
  <2>2. PICK a \in Seq(Nat) :
           /\ a \o stdoutQ[q] = Chunks(wrote[q])
           /\ feeds[q] # 0 => a = taken'[feeds[q]] \o stdinQ'[feeds[q]]
           /\ feeds[q] = 0 => a = drained[q]
    <3>1. CASE feeds[q] # 0
      BY <1>3, <1>4, <2>1, <3>1
    <3>2. CASE feeds[q] = 0
      BY <2>1, <3>2, ChunksType
    <3> QED BY <3>1, <3>2
  <2>3. a \o stdoutQ'[q] = Chunks(wrote'[q])
    <3>1. CASE stdoutQ'[q] = stdoutQ[q] /\ wrote'[q] = wrote[q]
      BY <2>2, <3>1
    <3>2. CASE stdoutQ'[q] = Append(stdoutQ[q], wrote[q] + 1) /\ wrote'[q] = wrote[q] + 1
      <4>1. stdoutQ[q] \in Seq(Nat) /\ wrote[q] \in Nat /\ a \o stdoutQ[q] = Chunks(wrote[q])
        BY <2>2, ChunksType
      <4>2. a \o Append(stdoutQ[q], wrote[q] + 1) = Chunks(wrote[q] + 1)
        BY <4>1, NextChunk
      <4> QED BY <3>2, <4>2
    <3> QED BY <1>2, <3>1, <3>2
  <2> QED BY <2>2, <2>3
<1> QED BY <1>1, <1>2, <1>5, <1>6, ChunkMoved

LEMMA ProduceOut ==
    ASSUME IInv, OutInv, NEW p \in Pid, Produce(p)
    PROVE  OutInv'
BY ChunksType, WriteOut DEF Produce

LEMMA CopyOut ==
    ASSUME IInv, OutInv, NEW p \in Pid, Copy(p)
    PROVE  OutInv'
<1>1. body[p] = "running" /\ stdinQ[p] # <<>> /\ WriteChunk(p, Tail(stdinQ[p]), Append(taken[p], Head(stdinQ[p])))
  BY DEF Copy
<1>2. taken[p] \in Seq(Nat) /\ stdinQ[p] \in Seq(Nat)
  BY ChunksType
<1>3. /\ Append(taken[p], Head(stdinQ[p])) \o Tail(stdinQ[p]) = taken[p] \o stdinQ[p]
      /\ Append(taken[p], Head(stdinQ[p])) \in Seq(Nat) /\ Tail(stdinQ[p]) \in Seq(Nat)
  BY <1>1, <1>2, MoveChunk
<1> QED BY <1>1, <1>3, WriteOut

\* A pump takes a chunk to the stdin of the next stage, which no other pump writes.
LEMMA PumpOut ==
    ASSUME IInv, OutInv, NEW p \in Pid, PumpChunk(p)
    PROVE  OutInv'
<1>1. /\ UNCHANGED <<tableVars, runVars, feeds, drained, wrote, taken>>
      /\ feeds[p] \in Pid /\ stdoutQ[p] # <<>> /\ stdoutQ[p] \in Seq(Nat)
      /\ stdinQ[feeds[p]] \in Seq(Nat) /\ taken[feeds[p]] \in Seq(Nat)
  BY ChunksType DEF PumpChunk
<1>2. /\ stdoutQ'[p] = Tail(stdoutQ[p])
      /\ stdinQ'[feeds[p]] = Append(stdinQ[feeds[p]], Head(stdoutQ[p]))
      /\ \A q \in Pid : q # p => stdoutQ'[q] = stdoutQ[q]
      /\ \A q \in Pid : q # feeds[p] => stdinQ'[q] = stdinQ[q]
  BY <1>1 DEF PumpChunk, IInv, IoTypeOK
<1>3. state[p] # "unused" /\ state[feeds[p]] # "unused"
  BY <1>1 DEF OutInv, Untouched, Piped, PumpChunk
<1>4. \A q \in Pid : Consumed(q) => Consumed(q)'
  BY <1>1, <1>2 DEF Consumed, tableVars
<1>5. OutputIntact'
  <2> SUFFICES ASSUME NEW q \in Pid
               PROVE  IF feeds[q] # 0
                      THEN taken[feeds[q]] \o stdinQ'[feeds[q]] \o stdoutQ'[q] = Chunks(wrote[q])
                      ELSE drained[q] \o stdoutQ'[q] = Chunks(wrote[q])
    BY <1>1 DEF OutputIntact, Chunks
  <2>1. CASE q # p
    <3>1. feeds[q] # 0 => feeds[q] \in Pid /\ feeds[q] # feeds[p]
      BY <2>1, ChunksType DEF OutInv, Piped
    <3> QED BY <1>2, <2>1, <3>1 DEF OutInv, OutputIntact
  <2>2. CASE q = p
    <3> DEFINE f == feeds[p]
    <3>1. Head(stdoutQ[p]) \in Nat /\ Tail(stdoutQ[p]) \in Seq(Nat)
      BY <1>1, HeadTailProperties
    <3>2. taken[f] \o Append(stdinQ[f], Head(stdoutQ[p])) = Append(taken[f] \o stdinQ[f], Head(stdoutQ[p]))
      BY <1>1, <3>1, AppendBehind
    <3>3. Append(taken[f] \o stdinQ[f], Head(stdoutQ[p])) \o Tail(stdoutQ[p]) = taken[f] \o stdinQ[f] \o stdoutQ[p]
      <4>1. taken[f] \o stdinQ[f] \in Seq(Nat)
        BY <1>1, ConcatProperties
      <4> QED BY <1>1, <4>1, MoveChunk
    <3>4. f # 0 /\ taken[f] \o stdinQ[f] \o stdoutQ[p] = Chunks(wrote[p])
      BY DEF OutInv, OutputIntact, PumpChunk
    <3> QED BY <1>2, <2>2, <3>2, <3>3, <3>4
  <2> QED BY <2>1, <2>2
<1> QED BY <1>1, <1>2, <1>3, <1>4, <1>5, ChunkMoved

LEMMA DrainOut ==
    ASSUME IInv, OutInv, NEW p \in Pid, Drain(p)
    PROVE  OutInv'
<1>1. /\ UNCHANGED <<tableVars, runVars, feeds, wrote, stdinQ, taken>>
      /\ feeds[p] = 0 /\ stdoutQ[p] # <<>> /\ stdoutQ[p] \in Seq(Nat) /\ drained[p] \in Seq(Nat)
  BY ChunksType DEF Drain, Drains
<1>2. /\ stdoutQ'[p] = Tail(stdoutQ[p])
      /\ drained'[p] = Append(drained[p], Head(stdoutQ[p]))
      /\ \A q \in Pid : q # p => stdoutQ'[q] = stdoutQ[q] /\ drained'[q] = drained[q]
  BY <1>1 DEF Drain, IInv, IoTypeOK
<1>3. state[p] # "unused"
  BY <1>1 DEF OutInv, Untouched
<1>4. \A q \in Pid : Consumed(q) => Consumed(q)'
  BY <1>1, <1>2 DEF Consumed, tableVars
<1>5. OutputIntact'
  <2> SUFFICES ASSUME NEW q \in Pid
               PROVE  IF feeds[q] # 0
                      THEN taken[feeds[q]] \o stdinQ[feeds[q]] \o stdoutQ'[q] = Chunks(wrote[q])
                      ELSE drained'[q] \o stdoutQ'[q] = Chunks(wrote[q])
    BY <1>1 DEF OutputIntact, Chunks
  <2>1. CASE q # p
    BY <1>2, <2>1 DEF OutInv, OutputIntact
  <2>2. CASE q = p
    BY <1>1, <1>2, <2>2, MoveChunk, ZenonT(60) DEF OutInv, OutputIntact
  <2> QED BY <2>1, <2>2
<1> QED BY <1>1, <1>2, <1>3, <1>4, <1>5, ChunkMoved

LEMMA NextOut == IInv /\ OutInv /\ [Next]_vars => OutInv'
<1> SUFFICES ASSUME IInv, OutInv, [Next]_vars PROVE OutInv'
  OBVIOUS
<1>1. ASSUME NEW l \in Line, NEW s \in Script, NEW w \in Way, Begin(l, s, w) PROVE OutInv'
  BY <1>1, BeginOut
<1>2. ASSUME NEW l \in Line, Runs(l) PROVE OutInv'
  BY <1>2, RunnersOut, ExpandOut, LaunchStagesOut, LaunchFailsOut DEF Runs
<1>3. ASSUME NEW p \in Pid, Start(p) \/ Produce(p) \/ Copy(p) \/ Moves(p) PROVE OutInv'
  BY <1>3, EndsOut, ProduceOut, CopyOut, PumpOut, DrainOut DEF Moves
<1>4. ASSUME NEW p \in Pid, NEW c \in {0, 1}, Return(p, c) PROVE OutInv'
  BY <1>4, EndsOut
<1>5. ASSUME NEW p \in Pid, NEW sig \in Signal, KillProcess(p, sig) PROVE OutInv'
  BY <1>5, EndsOut
<1>6. ASSUME NEW l \in Line, NEW sig \in Signal, KillLine(l, sig) PROVE OutInv'
  BY <1>6, EndsOut
<1>7. CASE UNCHANGED vars
  BY <1>7, StutterCloses, QuietOut DEF vars, runVars, ioVars, Passes
<1> QED BY <1>1, <1>2, <1>3, <1>4, <1>5, <1>6, <1>7 DEF Next, Quiet

\* Every chunk a process writes is, once and in order, with its reader, with its drain or
\* on the way there, and a line's streams are ended only when all of it is drained.
THEOREM OutputKeptHolds == Spec => []OutputKept
<1>1. OutInv => OutputKept
  BY DEF OutInv, Awaited, OutputKept, DrainedBeforeEnd
<1> QED BY <1>1, InitOut, NextOut, Invariance, PTL DEF Spec

-----------------------------------------------------------------------------------
(* What a caller relies on: every step is a step of the contract for one line, or none. *)

\* A line as its caller sees it.
PhaseOf(l) ==
    IF pc[l] = "idle" THEN "idle"
    ELSE IF pc[l] = "done" \/ (owner[l] # 0 /\ Settled(owner[l])) THEN "over"
    ELSE "open"
Phase == [l \in Line |-> PhaseOf(l)]
Live == [l \in Line |-> LineProcesses(l)]

\* What a step may do to a line: open it, run and end processes for it, or close it.
Promised(l) ==
    \/ PhaseOf(l) = "idle" /\ PhaseOf(l)' = "open" /\ LineProcesses(l)' = LineProcesses(l)
    \/ PhaseOf(l) = "open" /\ PhaseOf(l)' = "open"
    \/ PhaseOf(l) = "open" /\ PhaseOf(l)' = "over" /\ LineProcesses(l)' = {}
    \/ PhaseOf(l)' = PhaseOf(l) /\ LineProcesses(l)' = LineProcesses(l)
Stays(l) == PhaseOf(l)' = PhaseOf(l) /\ LineProcesses(l)' = LineProcesses(l)

LEMMA OneLine ==
    ASSUME NEW l \in Line, \A m \in Line \ {l} : Stays(m),
           LineProcesses(l)' \subseteq Pid, Promised(l)
    PROVE  Contract!Next \/ (Phase' = Phase /\ Live' = Live)
<1>1. /\ Phase' = [Phase EXCEPT ![l] = PhaseOf(l)'] /\ Phase[l] = PhaseOf(l)
      /\ Live' = [Live EXCEPT ![l] = LineProcesses(l)'] /\ Live[l] = LineProcesses(l)
  BY DEF Phase, Live, Stays
<1>2. CASE PhaseOf(l) = "idle" /\ PhaseOf(l)' = "open" /\ LineProcesses(l)' = LineProcesses(l)
  <2>1. Phase[l] = "idle" /\ Phase' = [Phase EXCEPT ![l] = "open"] /\ Live' = Live
    BY <1>1, <1>2 DEF Live
  <2>2. Contract!Open(l)
    BY <2>1 DEF Contract!Open, Phase, PhaseOf, Live, LineProcesses
  <2> QED BY <2>2 DEF Contract!Next
<1>3. CASE PhaseOf(l) = "open" /\ PhaseOf(l)' = "open"
  <2>1. PICK S \in SUBSET Pid : S = LineProcesses(l)'
    OBVIOUS
  <2>2. Phase[l] = "open" /\ Phase' = Phase /\ Live' = [Live EXCEPT ![l] = S]
    BY <1>1, <1>3, <2>1 DEF Phase
  <2>3. Contract!Work(l, S)
    BY <2>2 DEF Contract!Work, Phase, PhaseOf, Live, LineProcesses
  <2> QED BY <2>3 DEF Contract!Next
<1>4. CASE PhaseOf(l) = "open" /\ PhaseOf(l)' = "over" /\ LineProcesses(l)' = {}
  <2>1. Phase[l] = "open" /\ Phase' = [Phase EXCEPT ![l] = "over"] /\ Live' = [Live EXCEPT ![l] = {}]
    BY <1>1, <1>4
  <2>2. Contract!Close(l)
    BY <2>1 DEF Contract!Close, Phase, PhaseOf, Live, LineProcesses
  <2> QED BY <2>2 DEF Contract!Next
<1>5. CASE Stays(l)
  BY <1>5 DEF Stays, Phase, Live
<1> QED BY <1>2, <1>3, <1>4, <1>5 DEF Promised, Stays

\* Nothing a caller sees of any line changes.
LEMMA NoLine ==
    ASSUME \A m \in Line : Stays(m)
    PROVE  Phase' = Phase /\ Live' = Live
BY DEF Stays, Phase, Live

\* Who has a process running is open, and what the invariant says of its other pids.
LEMMA OpenLine ==
    ASSUME IInv, NEW l \in Line
    PROVE  /\ records[l] \subseteq Pid /\ owner[l] \in Pid \cup {0} /\ 0 \notin Pid
           /\ \A p \in records[l] : prog[p] # NoProgram /\ state[p] # "unused"
           /\ owner[l] # 0 => prog[owner[l]] = NoProgram /\ state[owner[l]] # "unused"
           /\ LineProcesses(l) # {} => PhaseOf(l) = "open" /\ pc[l] \in {"sub", "wait"} /\ ~canceled[l]
           /\ pc[l] \notin {"idle", "done"} /\ ~canceled[l] => PhaseOf(l) = "open"
           /\ \A m \in Line \ {l} : /\ records[l] \cap records[m] = {}
                                    /\ owner[l] = 0 \/ owner[l] # owner[m]
<1>1. 0 \notin Pid
  BY DEF Pid
<1>2. records[l] \subseteq Pid /\ owner[l] \in Pid \cup {0}
  BY DEF IInv, RunTypeOK
<1>3. \A p \in records[l] : prog[p] # NoProgram /\ state[p] # "unused"
  BY <1>2 DEF IInv, LineInv, Allocated
<1>4. owner[l] # 0 => prog[owner[l]] = NoProgram /\ state[owner[l]] # "unused"
  BY DEF IInv, LineInv, Allocated
<1>5. pc[l] \notin {"idle", "done"} /\ ~canceled[l] => PhaseOf(l) = "open"
  BY DEF IInv, LineInv, Accounted, PhaseOf
<1>6. LineProcesses(l) # {} => pc[l] \in {"sub", "wait"} /\ ~canceled[l]
  BY DEF IInv, LineInv, Accounted
<1>7. \A m \in Line \ {l} : records[l] \cap records[m] = {} /\ (owner[l] = 0 \/ owner[l] # owner[m])
  BY DEF IInv, LineInv, Allocated
<1> QED BY <1>1, <1>2, <1>3, <1>4, <1>5, <1>6, <1>7

\* A line whose runner, composite and processes a step does not touch.
LEMMA LineStays ==
    ASSUME NEW m \in Line, pc'[m] = pc[m], owner'[m] = owner[m], records'[m] = records[m],
           \A p \in records[m] : state'[p] = state[p],
           owner[m] # 0 => state'[owner[m]] = state[owner[m]]
    PROVE  Stays(m)
BY DEF Stays, PhaseOf, LineProcesses, Running, Settled

LEMMA LinesStay ==
    ASSUME IInv, NEW l \in Line,
           \A m \in Line \ {l} : pc'[m] = pc[m] /\ owner'[m] = owner[m] /\ records'[m] = records[m],
           \A p \in Pid : state[p] # "unused" /\ p # owner[l] /\ p \notin records[l]
                             => state'[p] = state[p]
    PROVE  \A m \in Line \ {l} : Stays(m)
<1> SUFFICES ASSUME NEW m \in Line \ {l} PROVE Stays(m)
  OBVIOUS
<1>1. \A p \in records[m] : p \in Pid /\ state[p] # "unused" /\ p # owner[l] /\ p \notin records[l]
  BY OpenLine
<1>2. owner[m] # 0 => /\ owner[m] \in Pid /\ state[owner[m]] # "unused"
                      /\ owner[m] # owner[l] /\ owner[m] \notin records[l]
  BY OpenLine
<1> QED BY <1>1, <1>2, LineStays

\* A process ends, by itself or by a kill of its pid.
LEMMA ProcessPromised ==
    ASSUME IInv, UNCHANGED runVars, NEW p \in Pid, prog[p] # NoProgram,
           \A q \in Pid : q # p => state'[q] = state[q],
           state'[p] = state[p] \/ (Running(p) /\ state'[p] \in {"exited", "killed"})
    PROVE  Contract!Next \/ (Phase' = Phase /\ Live' = Live)
<1>1. UNCHANGED <<pc, owner, records>>
  BY DEF runVars
<1>2. CASE state'[p] = state[p] \/ \A l \in Line : p \notin records[l]
  <2>1. \A l \in Line : /\ \A q \in records[l] : state'[q] = state[q]
                        /\ owner[l] # 0 => state'[owner[l]] = state[owner[l]]
    BY <1>2, OpenLine
  <2> QED BY <1>1, <2>1, LineStays, NoLine
<1>3. CASE state'[p] # state[p] /\ \E l \in Line : p \in records[l]
  <2>1. PICK l \in Line : p \in records[l] /\ Running(p)
    BY <1>3
  <2>2. PhaseOf(l) = "open" /\ records[l] \subseteq Pid
    BY <2>1, OpenLine DEF LineProcesses
  <2>3. owner[l] # 0 => state'[owner[l]] = state[owner[l]]
    BY OpenLine
  <2>4. PhaseOf(l)' = "open"
    BY <1>1, <2>2, <2>3 DEF PhaseOf, Settled
  <2>5. \A m \in Line \ {l} : Stays(m)
    BY <1>1, <2>1, LinesStay
  <2>6. LineProcesses(l)' \subseteq Pid
    BY <1>1, <2>2 DEF LineProcesses
  <2> QED BY <2>2, <2>4, <2>5, <2>6, OneLine DEF Promised
<1> QED BY <1>2, <1>3

\* The runner moves on with none of the line's processes running.
LEMMA RunnerPromised ==
    ASSUME IInv, NEW l \in Line,
           NextItem(l) \/ AdoptExit(l) \/ Substituted(l) \/ LaunchCanceled(l) \/ Collect(l)
    PROVE  Contract!Next \/ (Phase' = Phase /\ Live' = Live)
<1>1. /\ UNCHANGED <<owner, records>> /\ pc[l] # "idle" /\ pc[l] # "done"
      /\ \A m \in Line \ {l} : pc'[m] = pc[m]
  BY DEF NextItem, EndRunner, AdoptExit, Substituted, LaunchCanceled, Collect, IInv, RunTypeOK
<1>2. LineProcesses(l) = {}
  BY DEF NextItem, AdoptExit, Substituted, LaunchCanceled, Collect, StageDone,
         IInv, LineInv, Accounted, LineProcesses, Settled, Running
<1>3. \/ UNCHANGED tableVars
      \/ way[l] = "job" /\ pc[l] = "list" /\ FinishExited(owner[l], code[l])
      \/ way[l] = "exec" /\ FinishExited(owner[l], code[l])
  BY DEF NextItem, EndRunner, AdoptExit, Substituted, LaunchCanceled, Collect, IInv, LineInv, Position
<1>4. /\ \A q \in Pid : q # owner[l] => state'[q] = state[q]
      /\ owner[l] # 0 => state'[owner[l]] = state[owner[l]] \/ state'[owner[l]] = "exited"
  <2>1. CASE UNCHANGED tableVars
    BY <2>1 DEF tableVars
  <2>2. CASE way[l] # "session" /\ FinishExited(owner[l], code[l])
    <3>1. owner[l] \in Pid /\ code[l] \in Nat
      BY <1>1, <2>2 DEF IInv, LineInv, Position, RunTypeOK
    <3> QED BY <2>2, <3>1, FinishStates DEF IInv
  <2> QED BY <1>3, <2>1, <2>2
<1>5. LineProcesses(l)' = {}
  <2>1. \A p \in records[l] : p \in Pid /\ p # owner[l]
    BY OpenLine
  <2> QED BY <1>1, <1>2, <1>4, <2>1 DEF LineProcesses, Running
<1>6. \A m \in Line \ {l} : Stays(m)
  BY <1>1, <1>4, LinesStay
<1>7. pc'[l] # "idle"
  BY <1>1 DEF NextItem, EndRunner, AdoptExit, Substituted, LaunchCanceled, Collect, IInv, RunTypeOK
<1>8. Promised(l)
  <2>1. PhaseOf(l) \in {"open", "over"} /\ PhaseOf(l)' \in {"open", "over"}
    BY <1>1, <1>7 DEF PhaseOf
  <2>2. PhaseOf(l) = "over" => PhaseOf(l)' = "over"
    BY <1>1, <1>4, <1>7 DEF PhaseOf, Settled
  <2> QED BY <1>2, <1>5, <2>1, <2>2 DEF Promised
<1> QED BY <1>5, <1>6, <1>8, OneLine

LEMMA BeginPromised ==
    ASSUME IInv, NEW l \in Line, NEW s \in Script, NEW w \in Way, Begin(l, s, w)
    PROVE  Contract!Next \/ (Phase' = Phase /\ Live' = Live)
<1>1. /\ pc[l] = "idle" /\ pc'[l] = "list" /\ records[l] = {} /\ owner[l] = 0 /\ UNCHANGED records
      /\ \A m \in Line \ {l} : pc'[m] = pc[m] /\ owner'[m] = owner[m]
  BY DEF Begin, IInv, RunTypeOK, LineInv, Position
<1>2. /\ \A p \in Pid : state[p] # "unused" => state'[p] = state[p]
      /\ owner'[l] # 0 => state'[owner'[l]] = "running"
  <2>1. CASE w = "session"
    BY <1>1, <2>1 DEF Begin, tableVars
  <2>2. CASE w # "session"
    <3>1. TableStep(1, FALSE, <<>>, "exited", 0) /\ owner' = [owner EXCEPT ![l] = nextPid]
      BY <2>2 DEF Begin, Adopt
    <3>2. /\ \A p \in Fresh(1) : state[p] = "unused" /\ state'[p] = "running"
          /\ \A p \in Pid \ Fresh(1) : state'[p] = state[p]
      BY <3>1, SpawnStates, 1 \in Nat, FALSE \in BOOLEAN DEF IInv
    <3>3. nextPid \in Fresh(1) /\ owner'[l] = nextPid
      BY <3>1, TableAssumption DEF IInv, TableInv, TableTypeOK, Fresh, RunTypeOK
    <3> QED BY <3>2, <3>3
  <2> QED BY <2>1, <2>2
<1>3. \A m \in Line \ {l} : Stays(m)
  BY <1>1, <1>2, LinesStay
<1>4. LineProcesses(l) = {} /\ LineProcesses(l)' = {}
  BY <1>1 DEF LineProcesses
<1>5. PhaseOf(l) = "idle" /\ PhaseOf(l)' = "open"
  BY <1>1, <1>2 DEF PhaseOf, Settled
<1> QED BY <1>3, <1>4, <1>5, OneLine DEF Promised

\* A runner that has just looked at `canceled` starts processes, or fails to.
LEMMA StartPromised ==
    ASSUME IInv, IInv', NEW l \in Line, Expand(l) \/ LaunchStages(l) \/ LaunchFails(l)
    PROVE  Contract!Next \/ (Phase' = Phase /\ Live' = Live)
<1>1. /\ UNCHANGED <<owner, canceled>> /\ pc[l] \notin {"idle", "done"} /\ pc'[l] \notin {"idle", "done"}
      /\ \A m \in Line \ {l} : pc'[m] = pc[m] /\ records'[m] = records[m]
  BY ZenonT(60) DEF Expand, LaunchStages, SpawnStages, LaunchFails, IInv, RunTypeOK
<1>2. LineProcesses(l) = {}
  BY DEF Expand, LaunchStages, LaunchFails, IInv, LineInv, Accounted
<1>3. \A p \in Pid : state[p] # "unused" => state'[p] = state[p]
  <2>1. CASE UNCHANGED tableVars
    BY <2>1 DEF tableVars
  <2>2. ASSUME NEW n \in Nat, TableStep(n, TRUE, <<>>, "exited", 0)
        PROVE  \A p \in Pid : state[p] # "unused" => state'[p] = state[p]
    BY <2>2, SpawnStates, TRUE \in BOOLEAN DEF IInv
  <2>3. CASE Expand(l)
    BY <2>1, <2>2, <2>3, 1 \in Nat DEF Expand, Spawn
  <2>4. CASE LaunchStages(l)
    <3>1. item[l] \in DOMAIN script[l]
      BY <2>4 DEF LaunchStages, IInv, LineInv, Position
    <3>2. Len(CurrentItem(l).stages) \in Nat
      BY <3>1, CurrentItemType DEF IInv
    <3> QED BY <2>2, <2>4, <3>2 DEF LaunchStages, SpawnStages, Spawn
  <2>5. CASE LaunchFails(l)
    <3>1. item[l] \in DOMAIN script[l]
      BY <2>5 DEF LaunchFails, IInv, LineInv, Position
    <3>2. Len(CurrentItem(l).stages) \in Nat
      BY <3>1, CurrentItemType DEF IInv
    <3>3. PICK n \in 0 .. (Len(CurrentItem(l).stages) - 1) :
             TableStep(n, TRUE, [i \in 1 .. n |-> nextPid + i - 1], "killed", KillCode.SIGTERM)
      BY <2>5 DEF LaunchFails
    <3>4. n \in Nat /\ Fresh(n) \subseteq Pid /\ \A p \in Fresh(n) : state[p] = "unused"
      BY <3>2, <3>3, FreshUnused DEF IInv, TableInv, TableStep
    <3> DEFINE row == [i \in 1 .. n |-> nextPid + i - 1]
    <3>5. Elements(row) = Fresh(n)
      BY <3>4, FreshRow DEF IInv
    <3>6. TableStep(n, TRUE, row, "killed", KillCode.SIGTERM)
      BY <3>3
    <3> HIDE DEF row
    <3> QED BY <3>4, <3>5, <3>6 DEF TableStep
  <2> QED BY <2>3, <2>4, <2>5
<1>4. \A m \in Line \ {l} : Stays(m)
  BY <1>1, <1>3, LinesStay
<1>5. LineProcesses(l)' \subseteq Pid
  BY DEF IInv, RunTypeOK, LineProcesses
<1>6. PhaseOf(l)' = PhaseOf(l)
  <2>1. owner[l] # 0 => state'[owner[l]] = state[owner[l]]
    BY <1>3, OpenLine
  <2> QED BY <1>1, <2>1 DEF PhaseOf, Settled
<1>7. Promised(l)
  <2>1. CASE canceled[l]
    <3>1. LineProcesses(l)' = {}
      BY <1>1, <2>1 DEF IInv, LineInv, Accounted
    <3> QED BY <1>2, <1>6, <3>1 DEF Promised
  <2>2. CASE ~canceled[l]
    BY <1>1, <1>6, <2>2, OpenLine DEF Promised
  <2> QED BY <2>1, <2>2
<1> QED BY <1>4, <1>5, <1>7, OneLine

\* A kill of a composite settles it and every process of its line in one step.
LEMMA KillLinePromised ==
    ASSUME IInv, IInv', NEW l \in Line, NEW sig \in Signal, KillLine(l, sig)
    PROVE  Contract!Next \/ (Phase' = Phase /\ Live' = Live)
<1>1. /\ owner[l] \in Pid /\ Running(owner[l]) /\ UNCHANGED <<pc, owner, records>>
      /\ canceled' = [canceled EXCEPT ![l] = TRUE]
  BY OpenLine DEF KillLine
<1>2. PICK ps \in InSpawnOrder(LineProcesses(l)) :
          TableStep(0, FALSE, Append(ps, owner[l]), "killed", KillCode[sig])
  BY DEF KillLine
<1>3. LineProcesses(l) \in SUBSET Pid
  BY DEF LineProcesses, IInv, RunTypeOK
<1>4. ps \in Seq(Pid) /\ Elements(ps) = LineProcesses(l)
  BY <1>3, SpawnOrder
<1>5. Elements(Append(ps, owner[l])) = LineProcesses(l) \cup {owner[l]}
  <2>1. /\ DOMAIN Append(ps, owner[l]) = 1 .. (Len(ps) + 1) /\ Len(ps) \in Nat
        /\ DOMAIN ps = 1 .. Len(ps)
        /\ \A i \in 1 .. Len(ps) : Append(ps, owner[l])[i] = ps[i]
        /\ Append(ps, owner[l])[Len(ps) + 1] = owner[l]
    BY <1>4
  <2> QED BY <1>4, <2>1 DEF Elements
<1>6. /\ state'[owner[l]] = "killed"
      /\ \A p \in Pid : p \notin LineProcesses(l) /\ p # owner[l] => state'[p] = state[p]
  <2>1. Fresh(0) = {}
    BY DEF IInv, TableInv, TableTypeOK, Fresh
  <2> QED BY <1>1, <1>2, <1>5, <2>1 DEF TableStep
<1>7. LineProcesses(l)' = {}
  BY <1>1 DEF IInv, RunTypeOK, LineInv, Accounted
<1>8. \A m \in Line \ {l} : Stays(m)
  BY <1>1, <1>6, LinesStay DEF LineProcesses
<1>9. pc[l] # "idle"
  BY <1>1, OpenLine DEF IInv, LineInv, Position
<1>10. PhaseOf(l)' = "over"
  BY <1>1, <1>6, <1>9, OpenLine DEF PhaseOf, Settled
<1>11. Promised(l)
  <2>1. CASE PhaseOf(l) = "open"
    BY <1>7, <1>10, <2>1 DEF Promised
  <2>2. CASE PhaseOf(l) # "open"
    <3>1. PhaseOf(l) = "over" /\ LineProcesses(l) = {}
      BY <1>9, <2>2, OpenLine DEF PhaseOf
    <3> QED BY <1>7, <1>10, <3>1 DEF Promised
  <2> QED BY <2>1, <2>2
<1> QED BY <1>7, <1>8, <1>11, OneLine

LEMMA NextPromised ==
    ASSUME IInv, IInv', [Next]_vars
    PROVE  Contract!Next \/ (Phase' = Phase /\ Live' = Live)
<1> DEFINE G == Contract!Next \/ (Phase' = Phase /\ Live' = Live)
<1>0. ASSUME UNCHANGED <<tableVars, pc, owner, records>> PROVE G
  BY <1>0, LineStays, NoLine DEF tableVars
<1>1. ASSUME NEW l \in Line, NEW s \in Script, NEW w \in Way, Begin(l, s, w) PROVE G
  BY <1>1, BeginPromised
<1>2. ASSUME NEW l \in Line, Runs(l) PROVE G
  BY <1>2, RunnerPromised, StartPromised DEF Runs
<1>3. ASSUME NEW p \in Pid, Start(p) \/ Produce(p) \/ Copy(p) \/ Moves(p) PROVE G
  <2>1. UNCHANGED <<tableVars, pc, owner, records>>
    BY <1>3 DEF Start, Produce, Copy, WriteChunk, Moves, PumpChunk, PumpEnd, Drain, runVars
  <2> QED BY <1>0, <2>1
<1>4. ASSUME NEW p \in Pid, NEW c \in {0, 1}, Return(p, c) PROVE G
  <2>1. prog[p] # NoProgram /\ UNCHANGED runVars
    BY <1>4 DEF Return, IInv, LineInv, Allocated
  <2>2. /\ \A q \in Pid : q # p => state'[q] = state[q]
        /\ state'[p] = state[p] \/ (Running(p) /\ state'[p] \in {"exited", "killed"})
    <3>1. CASE Running(p)
      BY <1>4, <3>1, FinishStates DEF Return, IInv
    <3>2. CASE ~Running(p)
      BY <1>4, <3>2 DEF Return, FinishExited, tableVars
    <3> QED BY <3>1, <3>2
  <2> QED BY <2>1, <2>2, ProcessPromised
<1>5. ASSUME NEW p \in Pid, NEW sig \in Signal, KillProcess(p, sig) PROVE G
  <2>1. KillCode[sig] \in Nat
    BY ShellAssumption DEF KillCode
  <2>2. state'[p] = "killed" /\ \A q \in Pid : q # p => state'[q] = state[q]
    BY <1>5, <2>1, SettleOne DEF IInv, KillProcess
  <2> QED BY <1>5, <2>2, ProcessPromised DEF KillProcess
<1>6. ASSUME NEW l \in Line, NEW sig \in Signal, KillLine(l, sig) PROVE G
  BY <1>6, KillLinePromised
<1>7. CASE UNCHANGED vars
  BY <1>0, <1>7 DEF vars, runVars
<1> QED BY <1>1, <1>2, <1>3, <1>4, <1>5, <1>6, <1>7 DEF Next, Quiet

\* The shell keeps the contract of its lines: it implements LineContract.
THEOREM KeepsContractHolds == Spec => KeepsContract
<1>1. Init => Contract!Init
  BY DEF Init, ShellInit, Contract!Init
<1>2. IInv /\ IInv' /\ [Next]_vars => Contract!Next \/ (Phase' = Phase /\ Live' = Live)
  BY NextPromised
<1>3. IInv /\ IInv' /\ [Next]_vars => [Contract!Next]_<<Phase, Live>>
  BY <1>2
<1>4. IInv /\ IInv' /\ [Next]_vars
         => [Contract!Next]_<<[l \in Line |-> IF pc[l] = "idle" THEN "idle"
                                              ELSE IF pc[l] = "done" \/ (owner[l] # 0 /\ Settled(owner[l])) THEN "over"
                                              ELSE "open"],
                              [l \in Line |-> {p \in records[l] : Running(p)}]>>
  BY <1>3 DEF Phase, PhaseOf, Live, LineProcesses
<1> QED BY <1>1, <1>4, Invariance, PTL DEF Spec, KeepsContract, Contract!Spec
------------------------------------------------------------------------------------
(* The executions of python and pip. *)

\* The execution a call of Pyodide belongs to is the head of the queue.
UnderWay == {"loading", "scheduled", "evaluated", "installing"}

QueueOK ==
    /\ tail \in Seq(Executions) /\ ph \in [Executions -> {"new", "queued", "done"} \cup UnderWay]
    /\ \A i, j \in DOMAIN tail : tail[i] = tail[j] => i = j
    /\ \A i \in DOMAIN tail : ph[tail[i]] \notin {"new", "done"} /\ (i > 1 => ph[tail[i]] = "queued")
    /\ \A e \in Executions : ph[e] \in UnderWay => tail # <<>> /\ Head(tail) = e

\* Between its schedule and its script, and as long as pip downloads, an execution has the streams.
RoutedOK == \A e \in Executions : ph[e] \in {"scheduled", "installing"} => routed = e

\* A response and its iterable: tokens are given once as long as no script sets the module up again.
Paired(r) ==
    /\ streams[r].token \in 1 .. seq
    /\ IF streams[r].open THEN streams[r].token \in DOMAIN iters /\ iters[streams[r].token] = r /\ ends[r] = 0
       ELSE streams[r].token \notin DOMAIN iters /\ ends[r] = 1

TokensOK ==
    /\ requests \in Nat /\ seq \in Nat
    /\ DOMAIN streams \subseteq 1 .. requests /\ DOMAIN ends = DOMAIN streams /\ since \subseteq DOMAIN streams
    /\ \A r \in DOMAIN streams : streams[r] \in [token : Nat, open : BOOLEAN]
    /\ DOMAIN streams = since => \A r \in since : Paired(r)

PythonInv == QueueOK /\ RoutedOK /\ TokensOK /\ ~mixed

LEMMA PythonInit == ASSUME Y!Init PROVE PythonInv
<1>1. tail \in Seq(Executions) /\ DOMAIN tail = {} /\ DOMAIN streams = {} /\ DOMAIN ends = {}
  BY EmptySeq DEF Y!Init
<1> QED BY <1>1 DEF Y!Init, PythonInv, QueueOK, RoutedOK, TokensOK, UnderWay

LEMMA PythonQueued == ASSUME QueueOK, RoutedOK, NEW e \in Executions, Y!Submit(e) PROVE QueueOK' /\ RoutedOK'
<1>1. tail \in Seq(Executions) /\ tail' = Append(tail, e) /\ ph[e] = "new" /\ ph' = [ph EXCEPT ![e] = "queued"] /\ routed' = routed
  BY DEF QueueOK, Y!Submit
<1>2. /\ tail' \in Seq(Executions) /\ DOMAIN tail' = 1 .. Len(tail) + 1 /\ DOMAIN tail = 1 .. Len(tail) /\ Len(tail) \in Nat
      /\ tail'[Len(tail) + 1] = e /\ \A i \in DOMAIN tail : tail'[i] = tail[i]
  BY <1>1, AppendProperties, LenProperties
<1>3. \A i \in DOMAIN tail : tail[i] # e /\ tail[i] \in Executions
  BY <1>1 DEF QueueOK
<1>4. tail # <<>> => 1 \in DOMAIN tail /\ Head(tail) = tail[1] /\ Head(tail') = tail'[1]
  BY <1>1, <1>2
<1>5. \A i, j \in DOMAIN tail' : tail'[i] = tail'[j] => i = j
  BY <1>2, <1>3 DEF QueueOK
<1>6. \A i \in DOMAIN tail' : ph'[tail'[i]] \notin {"new", "done"} /\ (i > 1 => ph'[tail'[i]] = "queued")
  BY <1>1, <1>2, <1>3 DEF QueueOK
<1>7. \A d \in Executions : ph'[d] \in UnderWay => tail' # <<>> /\ Head(tail') = d
  BY <1>1, <1>2, <1>4 DEF QueueOK, UnderWay
<1>8. RoutedOK'
  BY <1>1 DEF RoutedOK, QueueOK
<1> QED BY <1>1, <1>2, <1>5, <1>6, <1>7, <1>8 DEF QueueOK

\* The head goes on, and takes the streams if its script or its downloads come next.
LEMMA PythonGoes ==
    ASSUME QueueOK, RoutedOK, NEW e \in Executions, NEW p \in UnderWay, tail # <<>>, Head(tail) = e,
           ph' = [ph EXCEPT ![e] = p], tail' = tail, p \in {"scheduled", "installing"} => routed' = e
    PROVE  QueueOK' /\ RoutedOK'
<1>1. tail[1] = e /\ DOMAIN tail = 1 .. Len(tail) /\ Len(tail) \in Nat /\ \A i \in DOMAIN tail : tail[i] \in Executions
  BY DEF QueueOK
<1>2. \A d \in Executions : d # e => ph[d] \notin UnderWay
  BY DEF QueueOK
<1>3. \A i \in DOMAIN tail : i > 1 => tail[i] # e
  BY <1>1 DEF QueueOK
<1>4. QueueOK'
  BY <1>1, <1>2, <1>3 DEF QueueOK, UnderWay
<1>5. RoutedOK'
  BY <1>2 DEF RoutedOK, QueueOK, UnderWay
<1> QED BY <1>4, <1>5

LEMMA PythonEnds ==
    ASSUME QueueOK, RoutedOK, NEW e \in Executions, tail # <<>>, Head(tail) = e, Y!Ends(e), routed' = routed
    PROVE  QueueOK' /\ RoutedOK'
<1>1. /\ tail[1] = e /\ tail \in Seq(Executions) /\ tail' = Tail(tail) /\ ph' = [ph EXCEPT ![e] = "done"]
      /\ \A i \in DOMAIN tail : tail[i] \in Executions
  BY DEF QueueOK, Y!Ends
<1>2. /\ tail' \in Seq(Executions) /\ Len(tail) \in Nat /\ Len(tail') = Len(tail) - 1 /\ DOMAIN tail = 1 .. Len(tail)
      /\ DOMAIN tail' = 1 .. Len(tail') /\ \A i \in 1 .. Len(tail') : tail'[i] = tail[i + 1]
  BY <1>1, HeadTailProperties
<1>3. \A i \in DOMAIN tail' : i + 1 \in DOMAIN tail /\ tail'[i] = tail[i + 1] /\ tail'[i] # e /\ ph[tail'[i]] = "queued"
  <2> SUFFICES ASSUME NEW i \in DOMAIN tail' PROVE i + 1 \in DOMAIN tail /\ tail'[i] = tail[i + 1] /\ tail'[i] # e /\ ph[tail'[i]] = "queued"
    OBVIOUS
  <2>1. i + 1 \in DOMAIN tail /\ tail'[i] = tail[i + 1] /\ 1 \in DOMAIN tail /\ i + 1 # 1 /\ i + 1 > 1
    BY <1>2
  <2> QED BY <1>1, <2>1 DEF QueueOK
<1>4. \A i, j \in DOMAIN tail' : tail'[i] = tail'[j] => i = j
  <2> SUFFICES ASSUME NEW i \in DOMAIN tail', NEW j \in DOMAIN tail', tail'[i] = tail'[j] PROVE i = j
    OBVIOUS
  <2>1. i + 1 = j + 1
    BY <1>3 DEF QueueOK
  <2> QED BY <1>2, <2>1
<1>5. \A d \in Executions : ph'[d] \notin UnderWay
  BY <1>1 DEF QueueOK, UnderWay
<1>6. QueueOK'
  BY <1>1, <1>2, <1>3, <1>4, <1>5 DEF QueueOK
<1>7. RoutedOK'
  BY <1>5 DEF RoutedOK, UnderWay
<1> QED BY <1>6, <1>7

\* Tokens.

LEMMA PythonStreamed ==
    ASSUME TokensOK, Y!Streamed PROVE TokensOK'
<1> DEFINE r == requests + 1
           t == seq + 1
<1>1. /\ requests' = r /\ seq' = t /\ r \in Nat /\ t \in Nat /\ r \notin DOMAIN streams
      /\ iters' = [u \in DOMAIN iters \cup {t} |-> IF u = t THEN r ELSE iters[u]]
      /\ streams' = [s \in DOMAIN streams \cup {r} |-> IF s = r THEN [token |-> t, open |-> TRUE] ELSE streams[s]]
      /\ ends' = [s \in DOMAIN ends \cup {r} |-> IF s = r THEN 0 ELSE ends[s]]
      /\ since' = since \cup {r}
  BY DEF TokensOK, Y!Streamed
<1>2. /\ DOMAIN streams' \subseteq 1 .. r /\ DOMAIN ends' = DOMAIN streams' /\ since' \subseteq DOMAIN streams'
      /\ \A s \in DOMAIN streams' : streams'[s] \in [token : Nat, open : BOOLEAN]
  BY <1>1 DEF TokensOK
<1>3. ASSUME DOMAIN streams' = since', NEW s \in since' PROVE Paired(s)'
  <2>1. DOMAIN streams = since
    BY <1>1, <1>3 DEF TokensOK
  <2>2. CASE s = r
    <3>1. streams'[r] = [token |-> t, open |-> TRUE] /\ iters'[t] = r /\ ends'[r] = 0 /\ t \in DOMAIN iters'
      BY <1>1
    <3>2. t \in 1 .. t
      BY DEF TokensOK
    <3> QED BY <1>1, <2>2, <3>1, <3>2 DEF Paired
  <2>3. CASE s # r
    <3>1. s \in since /\ Paired(s) /\ streams'[s] = streams[s] /\ ends'[s] = ends[s]
      BY <1>1, <2>1, <2>3 DEF TokensOK
    <3>2. streams[s].token # t /\ streams[s].token \in 1 .. t
      BY <3>1 DEF Paired, TokensOK
    <3> QED BY <1>1, <3>1, <3>2 DEF Paired
  <2> QED BY <2>2, <2>3
<1> QED BY <1>1, <1>2, <1>3 DEF TokensOK

LEMMA PythonReleased ==
    ASSUME TokensOK, NEW r \in DOMAIN streams, streams[r].open, Y!released(r), UNCHANGED <<requests, seq, since>>
    PROVE  TokensOK'
<1> DEFINE t == streams[r].token
<1>1. /\ streams' = [streams EXCEPT ![r].open = FALSE] /\ iters' = [u \in DOMAIN iters \ {t} |-> iters[u]]
      /\ ends' = IF t \in DOMAIN iters THEN [ends EXCEPT ![iters[t]] = @ + 1] ELSE ends
  BY DEF Y!released, Y!Left
<1>2. /\ DOMAIN streams' = DOMAIN streams /\ DOMAIN ends' = DOMAIN ends
      /\ \A s \in DOMAIN streams' : streams'[s] \in [token : Nat, open : BOOLEAN] /\ streams'[s].token = streams[s].token
      /\ ~streams'[r].open /\ \A s \in DOMAIN streams' : s # r => streams'[s] = streams[s]
  BY <1>1 DEF TokensOK
<1>3. ASSUME DOMAIN streams' = since', NEW s \in since' PROVE Paired(s)'
  <2>1. Paired(r) /\ Paired(s) /\ s \in DOMAIN streams' /\ s \in DOMAIN ends /\ r \in DOMAIN ends
    BY <1>2, <1>3 DEF TokensOK
  <2>2. t \in DOMAIN iters /\ iters[t] = r /\ ends[r] = 0 /\ ends' = [ends EXCEPT ![r] = 1]
    <3>1. t \in DOMAIN iters /\ iters[t] = r /\ ends[r] = 0
      BY <2>1 DEF Paired
    <3>2. ends' = [ends EXCEPT ![r] = @ + 1]
      BY <1>1, <3>1
    <3> HIDE DEF t
    <3> QED BY <3>1, <3>2
  <2>3. CASE s = r
    BY <1>1, <1>2, <2>1, <2>2, <2>3 DEF Paired
  <2>4. CASE s # r
    <3>1. streams'[s] = streams[s] /\ ends'[s] = ends[s]
      BY <1>2, <2>1, <2>2, <2>4
    <3>2. CASE streams[s].open
      <4>1. streams[s].token # t
        BY <2>1, <2>2, <2>4, <3>2 DEF Paired
      <4> QED BY <1>1, <2>1, <3>1, <3>2, <4>1 DEF Paired
    <3>3. CASE ~streams[s].open
      BY <1>1, <2>1, <3>1, <3>3 DEF Paired
    <3> QED BY <3>2, <3>3
  <2> QED BY <2>3, <2>4
<1> QED BY <1>2, <1>3 DEF TokensOK

\* What leaves the streams alone, save for requests that are not streamed.
LEMMA PythonServed ==
    ASSUME TokensOK, UNCHANGED <<iters, seq, streams, ends, since>>, requests' \in {requests, requests + 1} PROVE TokensOK'
<1>1. requests' \in Nat /\ \A n \in 1 .. requests : n \in 1 .. requests'
  BY DEF TokensOK
<1> QED BY <1>1 DEF TokensOK, Paired

LEMMA PythonEvaluated == ASSUME TokensOK, NEW e, Y!Evaluate(e) PROVE TokensOK'
<1>1. seq' = 0 /\ since' = {} /\ UNCHANGED <<streams, ends, requests>>
  BY DEF Y!Evaluate
<1> QED BY <1>1 DEF TokensOK

LEMMA PythonStepInv == ASSUME PythonInv, Y!Next PROVE PythonInv'
<1> USE DEF PythonInv
<1>1. ASSUME NEW e \in Executions, Y!Submit(e) PROVE PythonInv'
  <2>1. TokensOK' /\ mixed' = mixed
    BY <1>1, PythonServed DEF Y!Submit, Y!serving
  <2> QED BY <1>1, <2>1, PythonQueued
<1>2. ASSUME NEW e \in Executions, Y!Start(e) \/ Y!Schedule(e) \/ Y!Evaluate(e) \/ Y!Install(e) PROVE PythonInv'
  <2>1. tail # <<>> /\ Head(tail) = e /\ tail' = tail
    BY <1>2 DEF QueueOK, UnderWay, Y!Start, Y!Schedule, Y!Evaluate, Y!Install
  <2>2. \E p \in UnderWay : ph' = [ph EXCEPT ![e] = p] /\ (p \in {"scheduled", "installing"} => routed' = e)
    BY <1>2 DEF UnderWay, Y!Start, Y!Schedule, Y!Evaluate, Y!Install
  <2>3. QueueOK' /\ RoutedOK'
    BY <2>1, <2>2, PythonGoes
  <2>4. TokensOK'
    BY <1>2, PythonServed, PythonEvaluated DEF Y!Start, Y!Schedule, Y!Install, Y!serving
  <2>5. ~mixed'
    BY <1>2 DEF RoutedOK, Y!Start, Y!Schedule, Y!Evaluate, Y!Install, Y!Written
  <2> QED BY <2>3, <2>4, <2>5
<1>3. ASSUME NEW e \in Executions, Y!Refuse(e) \/ Y!LoadFailed(e) \/ Y!Finish(e) \/ Y!Installed(e) PROVE PythonInv'
  <2>1. tail # <<>> /\ Head(tail) = e /\ Y!Ends(e) /\ routed' = routed
    BY <1>3 DEF QueueOK, UnderWay, Y!Refuse, Y!LoadFailed, Y!Finish, Y!Installed, Y!Ends
  <2>2. QueueOK' /\ RoutedOK'
    BY <2>1, PythonEnds
  <2>3. TokensOK'
    BY <1>3, PythonServed DEF Y!Refuse, Y!LoadFailed, Y!Finish, Y!Installed, Y!serving
  <2>4. ~mixed'
    BY <1>3 DEF RoutedOK, Y!Refuse, Y!LoadFailed, Y!Finish, Y!Installed, Y!Written
  <2> QED BY <2>2, <2>3, <2>4
<1>4. ASSUME Y!LoadSettles \/ Y!Buffered \/ Y!Edit PROVE PythonInv'
  <2>1. UNCHANGED <<tail, ph, routed>> /\ ~mixed'
    <3>1. CASE Y!LoadSettles
      BY <3>1 DEF Y!LoadSettles
    <3>2. CASE Y!Buffered
      BY <3>2 DEF Y!Buffered, Y!runs, Y!inPython, Y!Written
    <3>3. CASE Y!Edit
      BY <3>3 DEF Y!Edit, Y!runs
    <3> QED BY <1>4, <3>1, <3>2, <3>3
  <2>2. UNCHANGED <<iters, seq, streams, ends, since>> /\ requests' \in {requests, requests + 1}
    BY <1>4 DEF Y!LoadSettles, Y!Buffered, Y!Edit, Y!serving
  <2>3. TokensOK'
    BY <2>2, PythonServed
  <2> QED BY <2>1, <2>3 DEF QueueOK, RoutedOK
<1>5. ASSUME Y!Streamed PROVE PythonInv'
  <2>1. UNCHANGED <<tail, ph, routed>> /\ ~mixed'
    BY <1>5 DEF Y!Streamed, Y!runs, Y!inPython, Y!Written
  <2> QED BY <1>5, <2>1, PythonStreamed DEF QueueOK, RoutedOK
<1>6. ASSUME NEW r \in DOMAIN streams, Y!Pull(r) \/ Y!StreamOver(r) \/ Y!Return(r) PROVE PythonInv'
  <2>1. UNCHANGED <<tail, ph, routed, requests, seq, since>> /\ ~mixed'
    BY <1>6 DEF Y!Pull, Y!StreamOver, Y!Return, Y!runs, Y!inPython, Y!Written
  <2>2. TokensOK'
    BY <1>6, <2>1, PythonServed, PythonReleased DEF Y!Pull, Y!StreamOver, Y!Return
  <2> QED BY <2>1, <2>2 DEF QueueOK, RoutedOK
<1> QED BY <1>1, <1>2, <1>3, <1>4, <1>5, <1>6 DEF Y!Next

LEMMA PipTells == Y!PipTruthful
<1> SUFFICES ASSUME NEW pkgs \in Requirements, NEW net \in SUBSET {"cdn", "pypi"}
             PROVE  LET r == Y!pipInstall(loaded, pkgs, net) IN
                    IF r.exit = 0 THEN pkgs \subseteq r.has
                    ELSE net # {"cdn", "pypi"} \/ ~(pkgs \subseteq Bundled \cup Prebuilt \cup Pure \cup loaded)
  BY DEF Y!PipTruthful
<1> DEFINE bundled == pkgs \cap Bundled
           external == pkgs \ bundled
           one == IF bundled # {} THEN Y!Micropip(loaded, net) ELSE loaded
           two == one \cup bundled \cup (IF "cdn" \in net THEN external \cap Prebuilt ELSE {})
           missing == external \ two
           three == IF missing # {} THEN Y!Micropip(two, net) ELSE two
           found == {p \in missing : p \in Pure /\ "pypi" \in net}
           r == Y!pipInstall(loaded, pkgs, net)
<1>1. \/ bundled # {} /\ "micropip" \notin one /\ r = [has |-> one, exit |-> 1]
      \/ missing = {} /\ r = [has |-> two, exit |-> 0]
      \/ missing # {} /\ "micropip" \notin three /\ r = [has |-> three, exit |-> 1]
      \/ found # missing /\ r = [has |-> three \cup found, exit |-> 1]
      \/ r = [has |-> three \cup missing, exit |-> 0]
  BY DEF Y!pipInstall
<1>2. pkgs \subseteq two \cup missing /\ two \subseteq three /\ bundled \subseteq two /\ loaded \subseteq two
  BY DEF Y!Micropip
<1>3. net = {"cdn", "pypi"} => (bundled # {} => "micropip" \in one) /\ (missing # {} => "micropip" \in three)
  BY DEF Y!Micropip
<1>4. net = {"cdn", "pypi"} /\ pkgs \subseteq Bundled \cup Prebuilt \cup Pure \cup loaded => found = missing
  BY DEF Y!Micropip
<1> HIDE DEF bundled, external, one, two, missing, three, found, r
<1>5. IF r.exit = 0 THEN pkgs \subseteq r.has
      ELSE net # {"cdn", "pypi"} \/ ~(pkgs \subseteq Bundled \cup Prebuilt \cup Pure \cup loaded)
  BY <1>1, <1>2, <1>3, <1>4
<1> QED BY <1>5 DEF r

\* An open stream leads to its own iterable and a closed one was closed once, no line is written to a run or an app it is
\* not of, and pip says what is so (python.ts, erdou-module.ts), for any executions, requests and packages.
THEOREM PythonTrueHolds == Y!Spec => []PythonTrue
<1>1. Y!Init => PythonInv
  BY PythonInit
<1>2. PythonInv /\ [Y!Next]_Y!vars => PythonInv'
  <2> SUFFICES ASSUME PythonInv, [Y!Next]_Y!vars PROVE PythonInv'
    OBVIOUS
  <2>1. CASE Y!Next
    BY <2>1, PythonStepInv
  <2>2. CASE UNCHANGED Y!vars
    BY <2>2 DEF Y!vars, Y!runs, Y!serving, PythonInv, QueueOK, RoutedOK, TokensOK, Paired
  <2> QED BY <2>1, <2>2
<1>3. PythonInv => PythonTrue
  BY PipTells DEF PythonTrue, PythonInv, TokensOK, Paired, Y!StreamsKept, Y!OutputOwn
<1> QED BY <1>1, <1>2, <1>3, PTL DEF Y!Spec
====
