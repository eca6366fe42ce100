------------------------- MODULE LabHoldingProofs --------------------------
(***************************************************************************)
(* Each step of the live suites keeps the types, what the lab holds, where *)
(* the second daemon is and whose devices the kernel has, for every set of *)
(* device ids, every number of repetitions and every amount of I/O: the    *)
(* first four parts of the invariant, and the signals a daemon gets.       *)
(***************************************************************************)
EXTENDS LabInvariants, SequenceTheorems, TLAPS

-----------------------------------------------------------------------------
(* The scripts.                                                            *)

\* The operations of the scripts.
Ops ==
  {"setup", "start", "fio", "lock", "stop", "kill", "remove", "terminate", "handshake", "clear"}

\* What may follow an operation.
Follow ==
  [setup |-> {"start"}, start |-> {"fio"}, fio |-> RunOps, lock |-> {"stop"},
   terminate |-> {"handshake"}, handshake |-> {"kill"}, kill |-> {"remove"}, remove |-> {"start"},
   stop |-> {"start", "clear"}, clear |-> {}]

\* No device has the id None.
LEMMA NoneNotId == None \notin Ids
BY IdsAssumption DEF None

\* The steps between the setup and the last stop.
Body(m) ==
  /\ m \in Seq(Ops)
  /\ Len(m) >= 2
  /\ m[1] = "start"
  /\ m[Len(m)] = "fio"
  /\ \A i \in 1..(Len(m) - 1) : m[i + 1] \in Follow[m[i]]
  /\ \A i \in 1..Len(m) : m[i] # "clear" /\ m[i] # "lock" /\ m[i] # "setup"

\* The scenarios run from a start to a run of fio.
LEMMA ScenarioBodies ==
  ASSUME NEW scenario \in DOMAIN Scenarios
  PROVE  Body(Scenarios[scenario])
<1>1. Body(<<"start", "fio">>)
  BY DEF Body, Ops, Follow
<1>2. Body(<<"start", "fio", "fio">>)
  BY DEF Body, Ops, Follow, RunOps
<1>3. Body(<<"start", "fio", "stop", "start", "fio">>)
  BY DEF Body, Ops, Follow, RunOps
<1>4. Body(<<"start", "fio", "kill", "remove", "start", "fio">>)
  BY DEF Body, Ops, Follow, RunOps
<1>5. Body(<<"start", "fio", "terminate", "handshake", "kill", "remove", "start", "fio">>)
  BY DEF Body, Ops, Follow, RunOps
<1> QED
  BY <1>1, <1>2, <1>3, <1>4, <1>5 DEF Scenarios

\* A script: the setup, the scenario, the contention for the lock, and the end.
Whole(m, c) == <<"setup">> \o m \o c \o <<"stop", "clear">>

\* The operations of a script by their position.
LEMMA WholeAt ==
  ASSUME NEW m \in Seq(Ops), NEW c \in Seq(Ops)
  PROVE  /\ Whole(m, c) \in Seq(Ops)
         /\ Len(Whole(m, c)) = Len(m) + Len(c) + 3
         /\ Whole(m, c)[1] = "setup"
         /\ \A i \in 1..Len(m) : Whole(m, c)[i + 1] = m[i]
         /\ \A i \in 1..Len(c) : Whole(m, c)[Len(m) + 1 + i] = c[i]
         /\ Whole(m, c)[Len(m) + Len(c) + 2] = "stop"
         /\ Whole(m, c)[Len(m) + Len(c) + 3] = "clear"
<1> DEFINE a == <<"setup">>
           d == <<"stop", "clear">>
           am == a \o m
           amc == am \o c
<1>1. a \in Seq(Ops) /\ Len(a) = 1 /\ a[1] = "setup"
  BY DEF Ops
<1>2. d \in Seq(Ops) /\ Len(d) = 2 /\ d[1] = "stop" /\ d[2] = "clear"
  BY DEF Ops
<1>3. /\ am \in Seq(Ops) /\ Len(am) = Len(m) + 1 /\ am[1] = "setup"
      /\ \A i \in 1..Len(m) : am[i + 1] = m[i]
  <2> HIDE DEF a
  <2>1. /\ am \in Seq(Ops)
        /\ Len(am) = Len(a) + Len(m)
        /\ \A i \in 1..(Len(a) + Len(m)) : am[i] = IF i <= Len(a) THEN a[i] ELSE m[i - Len(a)]
    BY <1>1, ConcatProperties, Zenon DEF am
  <2> HIDE DEF am
  <2> QED BY <1>1, <2>1
<1>4. /\ amc \in Seq(Ops) /\ Len(amc) = Len(m) + Len(c) + 1 /\ amc[1] = "setup"
      /\ \A i \in 1..Len(m) : amc[i + 1] = m[i]
      /\ \A i \in 1..Len(c) : amc[Len(m) + 1 + i] = c[i]
  <2> HIDE DEF am
  <2>1. /\ amc \in Seq(Ops)
        /\ Len(amc) = Len(am) + Len(c)
        /\ \A i \in 1..(Len(am) + Len(c)) : amc[i] = IF i <= Len(am) THEN am[i] ELSE c[i - Len(am)]
    BY <1>3, ConcatProperties, Zenon DEF amc
  <2> HIDE DEF amc
  <2> QED BY <1>3, <2>1
<1>5. Whole(m, c) = amc \o d
  BY DEF Whole
<1> HIDE DEF amc, d
<1>6. /\ amc \o d \in Seq(Ops)
      /\ Len(amc \o d) = Len(amc) + Len(d)
      /\ \A i \in 1..(Len(amc) + Len(d)) :
           (amc \o d)[i] = IF i <= Len(amc) THEN amc[i] ELSE d[i - Len(amc)]
  BY <1>2, <1>4, ConcatProperties, Zenon
<1> DEFINE w == Whole(m, c)
<1>7. /\ w \in Seq(Ops)
      /\ Len(w) = Len(amc) + Len(d)
      /\ \A i \in 1..(Len(amc) + Len(d)) : w[i] = IF i <= Len(amc) THEN amc[i] ELSE d[i - Len(amc)]
  BY <1>5, <1>6
<1> HIDE DEF w
<1>8. /\ w \in Seq(Ops)
      /\ Len(w) = Len(m) + Len(c) + 3
      /\ w[1] = "setup"
      /\ \A i \in 1..Len(m) : w[i + 1] = m[i]
      /\ \A i \in 1..Len(c) : w[Len(m) + 1 + i] = c[i]
      /\ w[Len(m) + Len(c) + 2] = "stop"
      /\ w[Len(m) + Len(c) + 3] = "clear"
  <2>1. Len(m) \in Nat /\ Len(c) \in Nat /\ Len(amc) = Len(m) + Len(c) + 1 /\ Len(d) = 2
    BY <1>2, <1>4
  <2>2. w \in Seq(Ops) /\ Len(w) = Len(m) + Len(c) + 3
    BY <2>1, <1>7
  <2>3. \A i \in 1..(Len(m) + Len(c) + 1) : w[i] = amc[i]
    BY <2>1, <1>7
  <2>4. w[1] = "setup"
    BY <2>1, <2>3, <1>4
  <2>5. \A i \in 1..Len(m) : w[i + 1] = m[i]
    BY <2>1, <2>3, <1>4
  <2>6. \A i \in 1..Len(c) : w[Len(m) + 1 + i] = c[i]
    BY <2>1, <2>3, <1>4
  <2>7. w[Len(m) + Len(c) + 2] = d[1] /\ w[Len(m) + Len(c) + 3] = d[2]
    <3>1. ASSUME NEW j \in 1..2 PROVE w[Len(amc) + j] = d[j]
      <4> DEFINE i == Len(amc) + j
      <4>1. i \in 1..(Len(amc) + Len(d)) /\ ~(i <= Len(amc)) /\ i - Len(amc) = j
        BY <2>1
      <4> HIDE DEF i
      <4>2. w[i] = d[j]
        BY <4>1, <1>7
      <4> QED BY <4>2 DEF i
    <3>2. w[Len(amc) + 1] = d[1] /\ w[Len(amc) + 2] = d[2]
      BY <3>1
    <3>3. Len(amc) + 1 = Len(m) + Len(c) + 2 /\ Len(amc) + 2 = Len(m) + Len(c) + 3
      BY <2>1
    <3> QED BY <3>2, <3>3
  <2> QED BY <2>2, <2>4, <2>5, <2>6, <2>7, <1>2
<1> QED BY <1>8 DEF w

\* Each operation of a script is followed by one that may follow it, until it ends.
LEMMA ScriptFollows ==
  ASSUME NEW scenario \in DOMAIN Scenarios, NEW proven \in BOOLEAN,
         NEW step \in 1..Len(Script(scenario, proven))
  PROVE  /\ Script(scenario, proven)[step] \in Ops
         /\ Script(scenario, proven)[step] # "clear" =>
              /\ step + 1 \in 1..Len(Script(scenario, proven))
              /\ Script(scenario, proven)[step + 1] \in Follow[Script(scenario, proven)[step]]
         /\ 1 \in 1..Len(Script(scenario, proven))
         /\ Script(scenario, proven)[1] = "setup"
<1> DEFINE m == Scenarios[scenario]
           c == IF proven THEN <<>> ELSE <<"lock">>
           w == Whole(m, c)
<1>1. Body(m)
  BY ScenarioBodies
<1>2. c \in Seq(Ops) /\ (Len(c) = 0 \/ (Len(c) = 1 /\ c[1] = "lock"))
  <2>1. <<"lock">> \in Seq(Ops) /\ Len(<<"lock">>) = 1 /\ <<"lock">>[1] = "lock"
    BY DEF Ops
  <2>2. <<>> \in Seq(Ops) /\ Len(<<>>) = 0
    OBVIOUS
  <2> QED BY <2>1, <2>2, Zenon DEF c
<1>3. Script(scenario, proven) = w
  BY DEF Script, Whole
<1> HIDE DEF m, c, w
<1>4. /\ w \in Seq(Ops)
      /\ Len(w) = Len(m) + Len(c) + 3
      /\ w[1] = "setup"
      /\ \A i \in 1..Len(m) : w[i + 1] = m[i]
      /\ \A i \in 1..Len(c) : w[Len(m) + 1 + i] = c[i]
      /\ w[Len(m) + Len(c) + 2] = "stop"
      /\ w[Len(m) + Len(c) + 3] = "clear"
  BY <1>1, <1>2, WholeAt, Zenon DEF Body, w
<1>5. step \in 1..Len(w)
  BY <1>3
<1>6. Len(m) \in Nat /\ Len(m) >= 2 /\ Len(c) \in Nat
  BY <1>1, <1>2 DEF Body
<1>7. w[step] \in Ops /\ 1 \in 1..Len(w)
  BY <1>4, <1>5, <1>6
<1>8. ASSUME w[step] # "clear"
      PROVE  step + 1 \in 1..Len(w) /\ w[step + 1] \in Follow[w[step]]
  <2>1. step + 1 \in 1..Len(w)
    <3>1. step # Len(m) + Len(c) + 3
      BY <1>4, <1>8
    <3>2. Len(w) = Len(m) + Len(c) + 3
      BY <1>4
    <3> QED BY <3>1, <3>2, <1>5, <1>6
  <2>2. CASE step = 1
    BY <1>1, <1>4, <1>6, <2>2 DEF Body, Follow
  <2>3. CASE step \in 2..Len(m)
    <3>1. w[step] = m[step - 1] /\ w[step + 1] = m[step]
      <4>1. step - 1 \in 1..Len(m) /\ step \in 1..Len(m)
        BY <1>6, <2>3
      <4> QED BY <4>1, <1>4, <1>5
    <3>2. step - 1 \in 1..(Len(m) - 1) /\ (step - 1) + 1 = step
      BY <1>6, <2>3
    <3> QED BY <3>1, <3>2, <1>1, <2>1 DEF Body
  <2>4. CASE step = Len(m) + 1
    <3>1. w[step] = "fio"
      BY <2>4, <1>1, <1>4, <1>6 DEF Body
    <3>2. w[step + 1] \in {"lock", "stop"}
      BY <2>4, <1>2, <1>4, <1>6
    <3> QED BY <2>1, <3>1, <3>2 DEF Follow, RunOps
  <2>5. CASE step > Len(m) + 1
    <3>1. (Len(c) = 1 /\ c[1] = "lock" /\ step = Len(m) + 2) \/ step = Len(m) + Len(c) + 2
      <4>1. Len(w) = Len(m) + Len(c) + 3 /\ step \in Int
        BY <1>4, <1>5
      <4>2. step > Len(m) + 1 /\ step + 1 <= Len(m) + Len(c) + 3
        BY <4>1, <1>6, <2>1, <2>5
      <4>3. CASE Len(c) = 0
        BY <4>1, <4>2, <4>3, <1>6
      <4>4. CASE Len(c) = 1 /\ c[1] = "lock"
        BY <4>1, <4>2, <4>4, <1>6
      <4> QED BY <1>2, <4>3, <4>4
    <3>2. CASE Len(c) = 1 /\ c[1] = "lock" /\ step = Len(m) + 2
      <4>1. w[step] = "lock"
        <5>1. 1 \in 1..Len(c) /\ step = Len(m) + 1 + 1
          BY <3>2, <1>6
        <5> QED BY <5>1, <1>4, <3>2
      <4>2. w[step + 1] = "stop"
        <5>1. step + 1 = Len(m) + Len(c) + 2
          BY <3>2, <1>6
        <5> QED BY <5>1, <1>4
      <4> QED BY <2>1, <4>1, <4>2 DEF Follow
    <3>3. CASE step = Len(m) + Len(c) + 2
      <4>1. step + 1 = Len(m) + Len(c) + 3
        BY <3>3, <1>6
      <4>2. w[step] = "stop" /\ w[step + 1] = "clear"
        BY <4>1, <3>3, <1>4
      <4> QED BY <2>1, <4>2 DEF Follow
    <3> QED BY <3>1, <3>2, <3>3
  <2> QED BY <2>2, <2>3, <2>4, <2>5, <1>5, <1>6
<1> QED BY <1>3, <1>4, <1>7, <1>8

-----------------------------------------------------------------------------
(* Types are kept.                                                         *)

\* The devices that the kernel can add.
LEMMA DeviceValues ==
  /\ DeviceOK(NoDevice)
  /\ \A g \in BOOLEAN : DeviceOK([owner |-> "lab", gen |-> g, state |-> "inactive",
       known |-> FALSE])
  /\ DeviceOK([owner |-> "other", gen |-> FALSE, state |-> "live", known |-> FALSE])
  /\ DeviceOK([owner |-> "second", gen |-> FALSE, state |-> "inactive", known |-> FALSE])
BY DEF DeviceOK, Device, NoDevice

\* What can become of a device.
LEMMA DeviceStates ==
  ASSUME NEW d, DeviceOK(d), d # NoDevice
  PROVE  /\ DeviceOK([d EXCEPT !.state = "live"])
         /\ d.state # "inactive" => DeviceOK([d EXCEPT !.state = Fade(d.state)])
         /\ DeviceOK([d EXCEPT !.known = d.known \/ d.owner = "lab"])
         /\ d.owner # "none"
         /\ d.state # "absent"
BY DEF DeviceOK, Device, NoDevice, Fade

\* Changing one device keeps the types.
LEMMA SetDevice ==
  ASSUME KernelType, NEW id \in Ids, NEW d, DeviceOK(d),
         devices' = [devices EXCEPT ![id] = d], generation' \in BOOLEAN, foreignLost' \in BOOLEAN
  PROVE  KernelType'
BY DEF KernelType, DeviceOK

\* No daemon, and one that is spawned.
LEMMA DaemonValues ==
  /\ DaemonOK(NoDaemon)
  /\ \A b \in BOOLEAN : DaemonOK([NoDaemon EXCEPT !.state = "starting", !.failpoint = b])
BY NoneNotId, Zenon DEF DaemonOK, Daemons, NoDaemon, IdsOrNone

\* The signals.
Signals == {"none", "TERM", "KILL"}

\* The exit statuses.
Statuses == {"none", "ok", "failed", "killed"}

\* What can become of a daemon.
LEMMA DaemonFields ==
  ASSUME NEW d, DaemonOK(d), d.state # "none"
  PROVE  /\ \A s \in Signals : DaemonOK([d EXCEPT !.signal = s])
         /\ \A id \in Ids : DaemonOK([d EXCEPT !.id = id])
         /\ d.id \in Ids => DaemonOK([d EXCEPT !.state = "serving", !.ready = TRUE])
         /\ d.ready => DaemonOK([d EXCEPT !.state = "parked"])
         /\ \A s \in Statuses : DaemonOK([d EXCEPT !.state = "exited", !.status = s])
BY NoneNotId DEF DaemonOK, Daemons, NoDaemon, IdsOrNone, Signals, Statuses

\* A signal keeps the types.
LEMMA SignalOK ==
  ASSUME DaemonOK(daemon), NEW s \in Signals, Signal(s)
  PROVE  DaemonOK(daemon')
BY DaemonFields, Zenon DEF Signal, Alive

\* Giving up a delete command keeps the types.
LEMMA AbandonOK ==
  ASSUME ProcessType, NEW reaped \in BOOLEAN, AbandonDelete(reaped)
  PROVE  DeletionOK(deletion') /\ stray' \in SUBSET Ids /\ strayed' \in BOOLEAN
<1>1. DeletionOK(NoDeletion)
  BY DEF DeletionOK, Deletions, NoDeletion, IdsOrNone
<1> QED BY <1>1 DEF ProcessType, AbandonDelete, DeletionOK

\* The machine's own steps keep its types.
LEMMA WorldTypes ==
  ASSUME KernelType, ProcessType, FileType, WorldNext
  PROVE  WorldType'
<1>1. ASSUME NEW id \in Ids, DaemonAdds(id)
      PROVE  WorldType'
  <2>1. KernelType'
    BY <1>1, DeviceValues, SetDevice DEF DaemonAdds, KernelType
  <2>2. ProcessType'
    BY <1>1, DaemonFields, Zenon DEF DaemonAdds, ProcessType
  <2>3. FileType'
    BY <1>1 DEF DaemonAdds, FileType, kernelVars, processVars, fileVars, worldVars
  <2> QED BY <2>1, <2>2, <2>3 DEF WorldType
<1>2. CASE DaemonServes
  <2>1. KernelType'
    <3>1. daemon.id \in Ids
      BY <1>2 DEF DaemonServes, ProcessType, DaemonOK, Daemons, IdsOrNone
    <3>2. DeviceOK([devices[daemon.id] EXCEPT !.state = "live"])
      <4>1. DeviceOK(devices[daemon.id]) /\ devices[daemon.id] # NoDevice
        BY <1>2, <3>1 DEF DaemonServes, KernelType, NoDevice
      <4> QED BY <4>1, DeviceStates
    <3>3. devices' = [devices EXCEPT ![daemon.id] = [devices[daemon.id] EXCEPT !.state = "live"]]
      BY <1>2 DEF DaemonServes
    <3> QED BY <1>2, <3>1, <3>2, <3>3, SetDevice DEF DaemonServes, KernelType
  <2>2. ProcessType'
    <3>1. daemon.id \in Ids
      BY <1>2 DEF DaemonServes, ProcessType, DaemonOK, Daemons, IdsOrNone
    <3> QED BY <1>2, <3>1, DaemonFields, Zenon DEF DaemonServes, ProcessType
  <2>3. FileType'
    BY <1>2 DEF DaemonServes, FileType, kernelVars, processVars, fileVars, worldVars
  <2> QED BY <2>1, <2>2, <2>3 DEF WorldType
<1>3. CASE DaemonStops
  <2>1. KernelType'
    <3>1. daemon.id \in Ids
      BY <1>3 DEF DaemonStops, ProcessType, DaemonOK
    <3> DEFINE d == devices[daemon.id]
    <3>2. CASE d.owner = "lab"
      <4>1. CASE d.state = "inactive"
        <5>1. devices' = [devices EXCEPT ![daemon.id] = NoDevice]
          BY <1>3, <3>2, <4>1 DEF DaemonStops
        <5> QED BY <1>3, <3>1, <5>1, DeviceValues, SetDevice DEF DaemonStops, KernelType
      <4>2. CASE d.state # "inactive"
        <5>1. devices' = [devices EXCEPT ![daemon.id] = [d EXCEPT !.state = Fade(d.state)]]
          BY <1>3, <3>2, <4>2 DEF DaemonStops
        <5>2. DeviceOK(d) /\ d # NoDevice
          BY <3>1, <3>2 DEF KernelType, NoDevice
        <5> HIDE DEF d
        <5>3. DeviceOK([d EXCEPT !.state = Fade(d.state)])
          BY <4>2, <5>2, DeviceStates, Zenon
        <5> QED BY <1>3, <3>1, <5>1, <5>3, SetDevice DEF DaemonStops, KernelType
      <4> QED BY <4>1, <4>2
    <3>3. CASE d.owner # "lab"
      BY <1>3, <3>3 DEF DaemonStops, KernelType
    <3> QED BY <3>2, <3>3
  <2>2. ProcessType'
    BY <1>3, DaemonFields, Zenon DEF DaemonStops, ProcessType, Statuses
  <2>3. FileType'
    BY <1>3 DEF DaemonStops, FileType, kernelVars, processVars, fileVars, worldVars
  <2> QED BY <2>1, <2>2, <2>3 DEF WorldType
<1>4. CASE DaemonParks
  <2>1. KernelType'
    BY <1>4 DEF DaemonParks, KernelType, kernelVars, processVars, fileVars, worldVars
  <2>2. ProcessType'
    <3>1. daemon.ready
      BY <1>4 DEF DaemonParks, ProcessType, DaemonOK
    <3> QED BY <1>4, <3>1, DaemonFields, Zenon DEF DaemonParks, ProcessType
  <2>3. FileType'
    BY <1>4 DEF DaemonParks, FileType, kernelVars, processVars, fileVars, worldVars
  <2> QED BY <2>1, <2>2, <2>3 DEF WorldType
<1>5. CASE DaemonDies
  <2>1. KernelType'
    BY <1>5 DEF DaemonDies, KernelType, kernelVars, processVars, fileVars, worldVars
  <2>2. ProcessType'
    BY <1>5, DaemonFields, Zenon DEF DaemonDies, ProcessType, Statuses, Alive
  <2>3. FileType'
    BY <1>5 DEF DaemonDies, FileType, kernelVars, processVars, fileVars, worldVars
  <2> QED BY <2>1, <2>2, <2>3 DEF WorldType
<1>6. ASSUME NEW id \in Ids, KernelStops(id)
      PROVE  WorldType'
  <2>1. KernelType'
    <3> DEFINE d == devices[id]
    <3>1. devices' = [devices EXCEPT ![id] = [d EXCEPT !.state = Fade(d.state)]]
      BY <1>6 DEF KernelStops
    <3>2. DeviceOK(d) /\ d # NoDevice /\ d.state # "inactive"
      BY <1>6 DEF KernelStops, KernelType, NoDevice
    <3> HIDE DEF d
    <3>3. DeviceOK([d EXCEPT !.state = Fade(d.state)])
      BY <3>2, DeviceStates
    <3> QED BY <1>6, <3>1, <3>3, SetDevice DEF KernelStops, KernelType
  <2>2. ProcessType'
    BY <1>6 DEF KernelStops, ProcessType, kernelVars, processVars, fileVars, worldVars
  <2>3. FileType'
    BY <1>6 DEF KernelStops, FileType, kernelVars, processVars, fileVars, worldVars
  <2> QED BY <2>1, <2>2, <2>3 DEF WorldType
<1>7. CASE CleanupKill
  <2>1. KernelType'
    BY <1>7 DEF CleanupKill, KernelType, kernelVars, processVars, fileVars, worldVars
  <2>2. ProcessType'
    BY <1>7, SignalOK DEF CleanupKill, ProcessType, Signals, ReapStates
  <2>3. FileType'
    BY <1>7 DEF CleanupKill, FileType, kernelVars, processVars, fileVars, worldVars
  <2> QED BY <2>1, <2>2, <2>3 DEF WorldType
<1>8. CASE CleanupReaps
  <2>1. KernelType'
    BY <1>8 DEF CleanupReaps, KernelType, kernelVars, processVars, fileVars, worldVars
  <2>2. ProcessType'
    BY <1>8, DaemonValues, Zenon DEF CleanupReaps, ProcessType, ReapStates
  <2>3. FileType'
    BY <1>8 DEF CleanupReaps, FileType, kernelVars, processVars, fileVars, worldVars
  <2> QED BY <2>1, <2>2, <2>3 DEF WorldType
<1>9. CASE CleanupFails
  <2>1. KernelType'
    BY <1>9 DEF CleanupFails, KernelType, kernelVars, processVars, fileVars, worldVars
  <2>2. ProcessType'
    BY <1>9 DEF CleanupFails, ProcessType, ReapStates
  <2>3. FileType'
    BY <1>9 DEF CleanupFails, FileType, kernelVars, processVars, fileVars, worldVars
  <2> QED BY <2>1, <2>2, <2>3 DEF WorldType
<1>10. CASE DeleteRuns
  <2>1. KernelType'
    <3>1. deletion.id \in Ids
      BY <1>10 DEF DeleteRuns, ProcessType, DeletionOK
    <3>2. foreignLost' \in BOOLEAN
      BY <1>10 DEF DeleteRuns, Remove, KernelType
    <3> QED BY <1>10, <3>1, <3>2, DeviceValues, SetDevice DEF DeleteRuns, Remove, KernelType
  <2>2. ProcessType'
    <3>1. DeletionOK(deletion')
      BY <1>10 DEF DeleteRuns, ProcessType, DeletionOK, Deletions
    <3> QED BY <1>10, <3>1 DEF DeleteRuns, ProcessType
  <2>3. FileType'
    BY <1>10 DEF DeleteRuns, FileType, kernelVars, processVars, fileVars, worldVars
  <2> QED BY <2>1, <2>2, <2>3 DEF WorldType
<1>11. ASSUME NEW id \in Ids, StrayDeleteRuns(id)
      PROVE  WorldType'
  <2>1. KernelType'
    <3>1. foreignLost' \in BOOLEAN
      BY <1>11 DEF StrayDeleteRuns, Remove, KernelType
    <3> QED BY <1>11, <3>1, DeviceValues, SetDevice DEF StrayDeleteRuns, Remove, KernelType
  <2>2. ProcessType'
    BY <1>11 DEF StrayDeleteRuns, ProcessType
  <2>3. FileType'
    BY <1>11 DEF StrayDeleteRuns, FileType, kernelVars, processVars, fileVars, worldVars
  <2> QED BY <2>1, <2>2, <2>3 DEF WorldType
<1> QED
  BY <1>1, <1>2, <1>3, <1>4, <1>5, <1>6, <1>7, <1>8, <1>9, <1>10, <1>11 DEF WorldNext

\* Somebody else's steps keep the machine's types.
LEMMA OtherTypes ==
  ASSUME KernelType, ProcessType, FileType, OtherNext
  PROVE  WorldType'
<1>1. ASSUME NEW id \in Ids, OtherAdds(id)
      PROVE  WorldType'
  <2>1. KernelType'
    BY <1>1, DeviceValues, SetDevice DEF OtherAdds, KernelType, processVars
  <2>2. ProcessType'
    BY <1>1 DEF OtherAdds, ProcessType, kernelVars, processVars, fileVars, worldVars
  <2>3. FileType'
    BY <1>1 DEF OtherAdds, FileType, kernelVars, processVars, fileVars, worldVars
  <2> QED BY <2>1, <2>2, <2>3 DEF WorldType
<1>2. ASSUME NEW id \in Ids, OtherDeletes(id)
      PROVE  WorldType'
  <2>1. KernelType'
    BY <1>2, DeviceValues, SetDevice DEF OtherDeletes, KernelType
  <2>2. ProcessType'
    BY <1>2 DEF OtherDeletes, ProcessType, kernelVars, processVars, fileVars, worldVars
  <2>3. FileType'
    BY <1>2 DEF OtherDeletes, FileType, kernelVars, processVars, fileVars, worldVars
  <2> QED BY <2>1, <2>2, <2>3 DEF WorldType
<1> QED
  BY <1>1, <1>2 DEF OtherNext

\* The second daemon's steps keep the machine's types.
LEMMA SecondTypes ==
  ASSUME KernelType, ProcessType, FileType, SecondNext
  PROVE  WorldType'
<1>1. CASE SecondRefused \/ SecondEnds
  <2>1. KernelType' /\ FileType'
    BY <1>1 DEF SecondRefused, SecondEnds, KernelType, FileType, kernelVars, fileVars
  <2>2. ProcessType'
    BY <1>1 DEF SecondRefused, SecondEnds, ProcessType, SecondStates
  <2> QED BY <2>1, <2>2 DEF WorldType
<1>2. ASSUME NEW id \in Ids, SecondAdds(id) \/ SecondServes(id) \/ SecondStops(id)
      PROVE  WorldType'
  <2>1. ProcessType' /\ FileType'
    BY <1>2 DEF SecondAdds, SecondServes, SecondStops, ProcessType, SecondStates, FileType, fileVars
  <2>2. generation' \in BOOLEAN /\ foreignLost' \in BOOLEAN
    BY <1>2 DEF SecondAdds, SecondServes, SecondStops, KernelType
  <2> DEFINE d == devices[id]
  <2>3. PICK e : DeviceOK(e) /\ devices' = [devices EXCEPT ![id] = e]
    <3>1. CASE SecondAdds(id)
      BY <3>1, DeviceValues DEF SecondAdds
    <3>2. CASE SecondServes(id)
      <4>1. devices' = [devices EXCEPT ![id] = [d EXCEPT !.state = "live"]]
        BY <3>2 DEF SecondServes
      <4>2. DeviceOK(d) /\ d # NoDevice
        BY <3>2 DEF SecondServes, KernelType, NoDevice
      <4> QED BY <4>1, <4>2, DeviceStates
    <3>3. CASE SecondStops(id)
      <4>1. CASE d.state = "inactive"
        BY <3>3, <4>1, DeviceValues DEF SecondStops
      <4>2. CASE d.state # "inactive"
        <5>1. devices' = [devices EXCEPT ![id] = [d EXCEPT !.state = Fade(d.state)]]
          BY <3>3, <4>2 DEF SecondStops
        <5>2. DeviceOK(d) /\ d # NoDevice
          BY <3>3 DEF SecondStops, KernelType, NoDevice
        <5> HIDE DEF d
        <5> QED BY <4>2, <5>1, <5>2, DeviceStates
      <4> QED BY <4>1, <4>2
    <3> QED BY <1>2, <3>1, <3>2, <3>3
  <2>4. KernelType'
    BY <2>2, <2>3, SetDevice
  <2> QED BY <2>1, <2>4 DEF WorldType
<1> QED BY <1>1, <1>2 DEF SecondNext

\* The fio suite keeps the machine's types.
LEMMA FioWorldTypes ==
  ASSUME KernelType, ProcessType, FileType, FioType, FioPlaced, FioNext
  PROVE  WorldType'
<1>1. CASE FioSetup
  <2>1. KernelType'
    BY <1>1 DEF FioSetup, KernelType, kernelVars, processVars, fileVars, worldVars
  <2>2. ProcessType'
    BY <1>1 DEF FioSetup, ProcessType, kernelVars, processVars, fileVars, worldVars
  <2>3. FileType'
    BY <1>1 DEF FioSetup, FileType, kernelVars, processVars, fileVars, worldVars
  <2> QED BY <2>1, <2>2, <2>3 DEF WorldType
<1>2. ASSUME NEW created \in BOOLEAN, NEW valid \in BOOLEAN, FioFormat(created, valid)
      PROVE  WorldType'
  <2>1. KernelType'
    BY <1>2 DEF FioFormat, KernelType, kernelVars, processVars, fileVars, worldVars
  <2>2. ProcessType'
    BY <1>2 DEF FioFormat, ProcessType, kernelVars, processVars, fileVars, worldVars
  <2>3. FileType'
    BY <1>2 DEF FioFormat, FileType
  <2> QED BY <2>1, <2>2, <2>3 DEF WorldType
<1>3. CASE FioStart
  <2>1. KernelType'
    BY <1>3 DEF FioStart, KernelType, kernelVars, processVars, fileVars, worldVars
  <2>2. ProcessType'
    <3>1. (fio.scenario = "DescriptorCloseFailpoint" /\ fio.step = 2) \in BOOLEAN
      OBVIOUS
    <3>2. DaemonOK(daemon')
      BY <1>3, <3>1, DaemonValues, Zenon DEF FioStart, Spawn
    <3> QED BY <1>3, <3>2 DEF FioStart, ProcessType
  <2>3. FileType'
    BY <1>3 DEF FioStart, FileType, kernelVars, processVars, fileVars, worldVars
  <2> QED BY <2>1, <2>2, <2>3 DEF WorldType
<1>4. CASE FioReady
  <2>1. KernelType'
    <3>1. daemon.id \in Ids
      BY <1>4 DEF FioReady, ProcessType, DaemonOK
    <3> DEFINE d == devices[daemon.id]
    <3>2. devices' = [devices EXCEPT ![daemon.id] = [d EXCEPT !.known = d.known \/ d.owner = "lab"]]
      BY <1>4 DEF FioReady
    <3>3. DeviceOK(d) /\ d # NoDevice
      BY <1>4, <3>1 DEF FioReady, KernelType, NoDevice
    <3> HIDE DEF d
    <3>4. DeviceOK([d EXCEPT !.known = d.known \/ d.owner = "lab"])
      BY <3>3, DeviceStates
    <3> QED BY <1>4, <3>1, <3>2, <3>4, SetDevice DEF FioReady, KernelType
  <2>2. ProcessType'
    BY <1>4 DEF FioReady, ProcessType, kernelVars, processVars, fileVars, worldVars
  <2>3. FileType'
    BY <1>4 DEF FioReady, FileType, kernelVars, processVars, fileVars, worldVars
  <2> QED BY <2>1, <2>2, <2>3 DEF WorldType
<1>5. ASSUME NEW identity \in Identities, FioRun(identity)
      PROVE  WorldType'
  <2>1. KernelType'
    BY <1>5 DEF FioRun, KernelType, kernelVars, processVars, fileVars, worldVars
  <2>2. ProcessType'
    BY <1>5 DEF FioRun, ProcessType, kernelVars, processVars, fileVars, worldVars
  <2>3. FileType'
    BY <1>5 DEF FioRun, FileType, kernelVars, processVars, fileVars, worldVars
  <2> QED BY <2>1, <2>2, <2>3 DEF WorldType
<1>6. CASE FioLock \/ FioLockProven
  <2>1. KernelType'
    BY <1>6 DEF FioLock, FioLockProven, KernelType, kernelVars
  <2>2. ProcessType'
    BY <1>6 DEF FioLock, FioLockProven, ProcessType, SecondStates
  <2>3. FileType'
    BY <1>6 DEF FioLock, FioLockProven, FileType, fileVars
  <2> QED BY <2>1, <2>2, <2>3 DEF WorldType
<1>7. ASSUME NEW reaped \in BOOLEAN, FioLockLost(reaped)
      PROVE  WorldType'
  <2>1. KernelType'
    BY <1>7 DEF FioLockLost, KernelType, kernelVars
  <2>2. ProcessType'
    BY <1>7 DEF FioLockLost, ProcessType, SecondStates
  <2>3. FileType'
    BY <1>7 DEF FioLockLost, FileType, fileVars
  <2> QED BY <2>1, <2>2, <2>3 DEF WorldType
<1>8. CASE FioSignal
  <2>1. KernelType'
    BY <1>8 DEF FioSignal, KernelType, kernelVars, processVars, fileVars, worldVars
  <2>2. ProcessType'
    BY <1>8, SignalOK DEF FioSignal, ProcessType, Signals
  <2>3. FileType'
    BY <1>8 DEF FioSignal, FileType, kernelVars, processVars, fileVars, worldVars
  <2> QED BY <2>1, <2>2, <2>3 DEF WorldType
<1>9. CASE FioExited
  <2>1. KernelType'
    BY <1>9 DEF FioExited, KernelType, kernelVars, processVars, fileVars, worldVars
  <2>2. ProcessType'
    BY <1>9, SignalOK DEF FioExited, BeginCleanup, ProcessType, Signals, ReapStates
  <2>3. FileType'
    BY <1>9 DEF FioExited, FileType, kernelVars, processVars, fileVars, worldVars
  <2> QED BY <2>1, <2>2, <2>3 DEF WorldType
<1>10. CASE FioReaped
  <2>1. KernelType'
    BY <1>10 DEF FioReaped, KernelType, kernelVars, processVars, fileVars, worldVars
  <2>2. ProcessType'
    BY <1>10 DEF FioReaped, ProcessType, ReapStates
  <2>3. FileType'
    BY <1>10 DEF FioReaped, FileType, kernelVars, processVars, fileVars, worldVars
  <2> QED BY <2>1, <2>2, <2>3 DEF WorldType
<1>11. CASE FioGone
  <2>1. KernelType'
    BY <1>11 DEF FioGone, KernelType, kernelVars, processVars, fileVars, worldVars
  <2>2. ProcessType'
    BY <1>11 DEF FioGone, ProcessType, kernelVars, processVars, fileVars, worldVars
  <2>3. FileType'
    BY <1>11 DEF FioGone, FileType, kernelVars, processVars, fileVars, worldVars
  <2> QED BY <2>1, <2>2, <2>3 DEF WorldType
<1>12. CASE FioHandshake
  <2>1. KernelType'
    BY <1>12 DEF FioHandshake, KernelType, kernelVars, processVars, fileVars, worldVars
  <2>2. ProcessType'
    BY <1>12 DEF FioHandshake, ProcessType, kernelVars, processVars, fileVars, worldVars
  <2>3. FileType'
    BY <1>12 DEF FioHandshake, FileType, kernelVars, processVars, fileVars, worldVars
  <2> QED BY <2>1, <2>2, <2>3 DEF WorldType
<1>13. ASSUME NEW identity \in Identities, FioIdentity(identity)
      PROVE  WorldType'
  <2>1. KernelType'
    BY <1>13 DEF FioIdentity, KernelType, kernelVars, processVars, fileVars, worldVars
  <2>2. ProcessType'
    BY <1>13 DEF FioIdentity, ProcessType, kernelVars, processVars, fileVars, worldVars
  <2>3. FileType'
    BY <1>13 DEF FioIdentity, FileType, kernelVars, processVars, fileVars, worldVars
  <2> QED BY <2>1, <2>2, <2>3 DEF WorldType
<1>14. ASSUME NEW identity \in Identities, FioDelete(identity)
      PROVE  WorldType'
  <2>1. KernelType'
    BY <1>14 DEF FioDelete, KernelType, kernelVars, processVars, fileVars, worldVars
  <2>2. ProcessType'
    <3>1. fio.device.id \in Ids
      BY <1>14 DEF FioDelete, FioPlaced, FioLeft, FioType, FioOK
    <3>2. DeletionOK([id |-> fio.device.id, state |-> "running"])
      BY <3>1 DEF DeletionOK, Deletions, IdsOrNone
    <3> QED BY <1>14, <3>2 DEF FioDelete, StartDelete, ProcessType
  <2>3. FileType'
    BY <1>14 DEF FioDelete, FileType, kernelVars, processVars, fileVars, worldVars
  <2> QED BY <2>1, <2>2, <2>3 DEF WorldType
<1>15. CASE FioDeleted
  <2>1. KernelType'
    BY <1>15 DEF FioDeleted, KernelType, kernelVars, processVars, fileVars, worldVars
  <2>2. ProcessType'
    <3>1. DeletionOK(NoDeletion)
      BY DEF DeletionOK, Deletions, NoDeletion, IdsOrNone
    <3> QED BY <1>15, <3>1 DEF FioDeleted, ProcessType
  <2>3. FileType'
    BY <1>15 DEF FioDeleted, FileType, kernelVars, processVars, fileVars, worldVars
  <2> QED BY <2>1, <2>2, <2>3 DEF WorldType
<1>16. ASSUME NEW reaped \in BOOLEAN, FioDeleteFails(reaped)
      PROVE  WorldType'
  <2>1. KernelType'
    BY <1>16 DEF FioDeleteFails, KernelType, kernelVars, processVars, fileVars, worldVars
  <2>2. ProcessType'
    BY <1>16, AbandonOK DEF FioDeleteFails, ProcessType
  <2>3. FileType'
    BY <1>16 DEF FioDeleteFails, FileType, kernelVars, processVars, fileVars, worldVars
  <2> QED BY <2>1, <2>2, <2>3 DEF WorldType
<1>17. CASE FioClear
  <2>1. KernelType'
    BY <1>17, Zenon DEF FioClear, KernelType, kernelVars, processVars, fileVars, worldVars
  <2>2. ProcessType'
    BY <1>17, Zenon DEF FioClear, ProcessType, kernelVars, processVars, fileVars, worldVars
  <2>3. FileType'
    BY <1>17, Zenon DEF FioClear, FileType, kernelVars, processVars, fileVars, worldVars
  <2> QED BY <2>1, <2>2, <2>3 DEF WorldType
<1>18. ASSUME NEW imageLeft \in BOOLEAN, FioClearFails(imageLeft)
      PROVE  WorldType'
  <2>1. KernelType'
    BY <1>18 DEF FioClearFails, KernelType, kernelVars, processVars, fileVars, worldVars
  <2>2. ProcessType'
    BY <1>18 DEF FioClearFails, ProcessType, kernelVars, processVars, fileVars, worldVars
  <2>3. FileType'
    BY <1>18 DEF FioClearFails, FileType
  <2> QED BY <2>1, <2>2, <2>3 DEF WorldType
<1>19. CASE FioError
  <2>1. KernelType'
    BY <1>19 DEF FioError, KernelType, kernelVars, processVars, fileVars, worldVars
  <2>2. ProcessType'
    BY <1>19 DEF FioError, ProcessType, kernelVars, processVars, fileVars, worldVars
  <2>3. FileType'
    BY <1>19 DEF FioError, FileType, kernelVars, processVars, fileVars, worldVars
  <2> QED BY <2>1, <2>2, <2>3 DEF WorldType
<1>20. CASE CleanChild
  <2>1. KernelType'
    BY <1>20 DEF CleanChild, KernelType, kernelVars, processVars, fileVars, worldVars
  <2>2. ProcessType'
    BY <1>20, SignalOK DEF CleanChild, BeginCleanup, ProcessType, Signals, ReapStates
  <2>3. FileType'
    BY <1>20 DEF CleanChild, FileType, kernelVars, processVars, fileVars, worldVars
  <2> QED BY <2>1, <2>2, <2>3 DEF WorldType
<1>21. CASE CleanChildDone
  <2>1. KernelType'
    BY <1>21 DEF CleanChildDone, KernelType, kernelVars, processVars, fileVars, worldVars
  <2>2. ProcessType'
    BY <1>21 DEF CleanChildDone, ProcessType, ReapStates
  <2>3. FileType'
    BY <1>21 DEF CleanChildDone, FileType, kernelVars, processVars, fileVars, worldVars
  <2> QED BY <2>1, <2>2, <2>3 DEF WorldType
<1>22. CASE CleanUnrecorded
  <2>1. KernelType'
    BY <1>22 DEF CleanUnrecorded, KernelType, kernelVars, processVars, fileVars, worldVars
  <2>2. ProcessType'
    BY <1>22 DEF CleanUnrecorded, ProcessType, kernelVars, processVars, fileVars, worldVars
  <2>3. FileType'
    BY <1>22 DEF CleanUnrecorded, FileType, kernelVars, processVars, fileVars, worldVars
  <2> QED BY <2>1, <2>2, <2>3 DEF WorldType
<1>23. ASSUME NEW identity \in Identities, CleanDevice(identity)
      PROVE  WorldType'
  <2>1. KernelType'
    BY <1>23 DEF CleanDevice, KernelType, kernelVars, processVars, fileVars, worldVars
  <2>2. ProcessType'
    <3>1. fio.device.id \in Ids
      BY <1>23 DEF CleanDevice, FioType, FioOK
    <3>2. DeletionOK([id |-> fio.device.id, state |-> "running"])
      BY <3>1 DEF DeletionOK, Deletions, IdsOrNone
    <3> QED BY <1>23, <3>2 DEF CleanDevice, StartDelete, ProcessType
  <2>3. FileType'
    BY <1>23 DEF CleanDevice, FileType, kernelVars, processVars, fileVars, worldVars
  <2> QED BY <2>1, <2>2, <2>3 DEF WorldType
<1>24. CASE CleanDeleted
  <2>1. KernelType'
    BY <1>24 DEF CleanDeleted, KernelType, kernelVars, processVars, fileVars, worldVars
  <2>2. ProcessType'
    <3>1. DeletionOK(NoDeletion)
      BY DEF DeletionOK, Deletions, NoDeletion, IdsOrNone
    <3> QED BY <1>24, <3>1 DEF CleanDeleted, ProcessType
  <2>3. FileType'
    BY <1>24 DEF CleanDeleted, FileType, kernelVars, processVars, fileVars, worldVars
  <2> QED BY <2>1, <2>2, <2>3 DEF WorldType
<1>25. ASSUME NEW reaped \in BOOLEAN, CleanDeleteFails(reaped)
      PROVE  WorldType'
  <2>1. KernelType'
    BY <1>25 DEF CleanDeleteFails, KernelType, kernelVars, processVars, fileVars, worldVars
  <2>2. ProcessType'
    BY <1>25, AbandonOK DEF CleanDeleteFails, ProcessType
  <2>3. FileType'
    BY <1>25 DEF CleanDeleteFails, FileType, kernelVars, processVars, fileVars, worldVars
  <2> QED BY <2>1, <2>2, <2>3 DEF WorldType
<1>26. ASSUME NEW disappeared \in BOOLEAN, CleanGone(disappeared)
      PROVE  WorldType'
  <2>1. KernelType'
    BY <1>26 DEF CleanGone, KernelType, kernelVars, processVars, fileVars, worldVars
  <2>2. ProcessType'
    BY <1>26 DEF CleanGone, ProcessType, kernelVars, processVars, fileVars, worldVars
  <2>3. FileType'
    BY <1>26 DEF CleanGone, FileType, kernelVars, processVars, fileVars, worldVars
  <2> QED BY <2>1, <2>2, <2>3 DEF WorldType
<1>27. ASSUME NEW valid \in BOOLEAN, NEW removed \in BOOLEAN, NEW imageLeft \in BOOLEAN,
              CleanFiles(valid, removed, imageLeft)
      PROVE  WorldType'
  <2>1. KernelType'
    BY <1>27 DEF CleanFiles, KernelType, kernelVars, processVars, fileVars, worldVars
  <2>2. ProcessType'
    BY <1>27 DEF CleanFiles, ProcessType, kernelVars, processVars, fileVars, worldVars
  <2>3. FileType'
    BY <1>27, Zenon DEF CleanFiles, FileType, kernelVars, processVars, fileVars, worldVars
  <2> QED BY <2>1, <2>2, <2>3 DEF WorldType
<1> QED
  BY <1>1, <1>2, <1>3, <1>4, <1>5, <1>6, <1>7, <1>8, <1>9, <1>10, <1>11, <1>12, <1>13, <1>14, <1>15,
     <1>16, <1>17, <1>18, <1>19, <1>20, <1>21, <1>22, <1>23, <1>24, <1>25, <1>26, <1>27 DEF FioNext

\* What can become of the fio suite's state.
LEMMA FioFields ==
  ASSUME NEW r, FioOK(r)
  PROVE  /\ \A at \in FioPlaces : FioOK([r EXCEPT !.at = at])
         /\ \A at \in FioPlaces : FioOK([r EXCEPT !.at = at, !.child = TRUE])
         /\ \A at \in FioPlaces : FioOK([r EXCEPT !.at = at, !.child = FALSE])
         /\ \A at \in FioPlaces : FioOK([r EXCEPT !.at = at, !.temp = TRUE])
         /\ \A at \in FioPlaces : FioOK([r EXCEPT !.at = at, !.temp = FALSE, !.backing = FALSE])
         /\ \A at \in FioPlaces : FioOK([r EXCEPT !.at = at, !.backing = FALSE, !.temp = FALSE])
         /\ FioOK([r EXCEPT !.child = FALSE])
         /\ FioOK([r EXCEPT !.backing = TRUE])
         /\ FioOK([r EXCEPT !.backing = FALSE])
         /\ \A at \in FioPlaces : FioOK([r EXCEPT !.at = at, !.proven = TRUE])
         /\ \A b \in BOOLEAN : FioOK([r EXCEPT !.keep = b])
         /\ FioOK([r EXCEPT !.device = Unrecorded])
         /\ FioOK(Advance(r))
         /\ FioOK(Failed(r))
<1>1. Unrecorded \in Records
  BY DEF Unrecorded, Records, IdsOrNone
<1>2. r.step + 1 \in Nat
  BY DEF FioOK
<1>3. "script" \in FioPlaces /\ "failed" \in FioPlaces
  BY DEF FioPlaces
<1>4. ASSUME NEW at \in FioPlaces
      PROVE  /\ FioOK([r EXCEPT !.at = at])
             /\ FioOK([r EXCEPT !.at = at, !.child = TRUE])
             /\ FioOK([r EXCEPT !.at = at, !.child = FALSE])
             /\ FioOK([r EXCEPT !.at = at, !.temp = TRUE])
             /\ FioOK([r EXCEPT !.at = at, !.proven = TRUE])
             /\ FioOK([r EXCEPT !.at = at, !.temp = FALSE, !.backing = FALSE])
             /\ FioOK([r EXCEPT !.at = at, !.backing = FALSE, !.temp = FALSE])
  BY DEF FioOK
<1>5. /\ FioOK([r EXCEPT !.child = FALSE])
      /\ FioOK([r EXCEPT !.backing = TRUE])
      /\ FioOK([r EXCEPT !.backing = FALSE])
      /\ \A b \in BOOLEAN : FioOK([r EXCEPT !.keep = b])
  BY DEF FioOK
<1>6. FioOK([r EXCEPT !.device = Unrecorded])
  BY <1>1 DEF FioOK
<1>7. FioOK(Advance(r))
  BY <1>2, <1>3, Zenon DEF FioOK, Advance
<1>8. FioOK(Failed(r))
  BY <1>3, <1>4, Zenon DEF Failed
<1> QED BY <1>4, <1>5, <1>6, <1>7, <1>8, Zenon

\* A refused deletion keeps the types.
LEMMA RefuseOK ==
  ASSUME FioOK(fio), NEW identity \in Identities
  PROVE  FioOK(Refuse(identity))
<1>1. (fio.keep \/ identity \in {"IdentityChanged", "Ambiguous"}) \in BOOLEAN
  OBVIOUS
<1>2. FioOK([fio EXCEPT !.keep = fio.keep \/ identity \in {"IdentityChanged", "Ambiguous"}])
  BY FioFields, <1>1, Zenon
<1>3. Refuse(identity) = Failed([fio EXCEPT !.keep = fio.keep \/ identity \in {"IdentityChanged",
        "Ambiguous"}])
  BY DEF Refuse
<1> QED BY <1>2, <1>3, FioFields, Zenon

\* The fio suite keeps its types, and does not stop being the one that runs.
LEMMA FioSuiteTypes ==
  ASSUME KernelType, ProcessType, FioType, FioNext
  PROVE  FioOK(fio') /\ fio.at # "off" /\ fio'.at # "off"
<1>1. CASE FioSetup
  <2>1. fio.at # "off" /\ fio'.at # "off"
    BY <1>1 DEF FioSetup, FioType, FioOK, FioPlaces, Op, Advance, Failed, Refuse, Preserve
  <2>2. FioOK(fio')
    BY <1>1, FioFields, RefuseOK, Zenon DEF FioSetup, FioType, FioPlaces, Preserve
  <2> QED BY <2>1, <2>2
<1>2. ASSUME NEW created \in BOOLEAN, NEW valid \in BOOLEAN, FioFormat(created, valid)
      PROVE  FioOK(fio') /\ fio.at # "off" /\ fio'.at # "off"
  <2>1. fio.at # "off" /\ fio'.at # "off"
    BY <1>2 DEF FioFormat, FioType, FioOK, FioPlaces, Op, Advance, Failed, Refuse, Preserve
  <2>2. FioOK(fio')
    BY <1>2, FioFields, RefuseOK, Zenon DEF FioFormat, FioType, FioPlaces, Preserve
  <2> QED BY <2>1, <2>2
<1>3. CASE FioStart
  <2>1. fio.at # "off" /\ fio'.at # "off"
    BY <1>3 DEF FioStart, FioType, FioOK, FioPlaces, Op, Advance, Failed, Refuse, Preserve
  <2>2. FioOK(fio')
    BY <1>3, FioFields, RefuseOK, Zenon DEF FioStart, FioType, FioPlaces, Preserve
  <2> QED BY <2>1, <2>2
<1>4. CASE FioReady
  <2>1. fio.at # "off" /\ fio'.at # "off"
    BY <1>4 DEF FioReady, FioType, FioOK, Advance
  <2>2. daemon.id \in Ids
    BY <1>4 DEF FioReady, ProcessType, DaemonOK
  <2>3. Record(daemon.id) \in Records /\ Record(daemon.id).id \in Ids
    BY <2>2 DEF Record, Records, KernelType, Device, IdsOrNone
  <2>4. FioOK([fio EXCEPT !.device = Record(daemon.id)])
    BY <2>3 DEF FioOK, FioType
  <2>5. FioOK(fio')
    BY <1>4, <2>4, FioFields, Zenon DEF FioReady
  <2> QED BY <2>1, <2>5
<1>5. ASSUME NEW identity \in Identities, FioRun(identity)
      PROVE  FioOK(fio') /\ fio.at # "off" /\ fio'.at # "off"
  <2>1. fio.at # "off" /\ fio'.at # "off"
    BY <1>5 DEF FioRun, FioType, FioOK, FioPlaces, Op, Advance, Failed, Refuse, Preserve
  <2>2. FioOK(fio')
    BY <1>5, FioFields, RefuseOK, Zenon DEF FioRun, FioType, FioPlaces, Preserve
  <2> QED BY <2>1, <2>2
<1>6. CASE FioLock \/ FioLockProven
  <2>1. fio.at # "off" /\ fio'.at # "off"
    BY <1>6 DEF FioLock, FioLockProven, FioType, FioOK, Op
  <2>2. FioOK(fio')
    <3>1. FioOK(fio) /\ "locking" \in FioPlaces /\ "script" \in FioPlaces
      BY DEF FioType, FioPlaces
    <3>2. FioOK([fio EXCEPT !.at = "locking"])
      BY <3>1 DEF FioOK
    <3>3. FioOK([fio EXCEPT !.at = "script", !.proven = TRUE])
      BY <3>1 DEF FioOK
    <3> QED BY <1>6, <3>2, <3>3 DEF FioLock, FioLockProven
  <2> QED BY <2>1, <2>2
<1>7. ASSUME NEW reaped \in BOOLEAN, FioLockLost(reaped)
      PROVE  FioOK(fio') /\ fio.at # "off" /\ fio'.at # "off"
  <2>1. fio.at # "off" /\ fio'.at # "off"
    BY <1>7 DEF FioLockLost, FioType, FioOK, Failed
  <2>2. FioOK(fio')
    BY <1>7, FioFields, Zenon DEF FioLockLost, FioType
  <2> QED BY <2>1, <2>2
<1>8. CASE FioSignal
  <2>1. fio.at # "off" /\ fio'.at # "off"
    BY <1>8 DEF FioSignal, FioType, FioOK, FioPlaces, Op, Advance
  <2>2. fio' = [fio EXCEPT !.at = "exit"] \/ fio' = Advance(fio)
    BY <1>8 DEF FioSignal
  <2>3. FioOK(fio) /\ "exit" \in FioPlaces
    BY DEF FioType, FioPlaces
  <2>4. FioOK([fio EXCEPT !.at = "exit"]) /\ FioOK(Advance(fio))
    BY <2>3, FioFields, Zenon
  <2>5. FioOK(fio')
    BY <2>2, <2>4, Zenon
  <2> QED BY <2>1, <2>5
<1>9. CASE FioExited
  <2>1. fio.at # "off" /\ fio'.at # "off"
    BY <1>9 DEF FioExited, FioType, FioOK, FioPlaces, Op, Advance, Failed, Refuse, Preserve
  <2>2. FioOK(fio')
    BY <1>9, FioFields, RefuseOK, Zenon DEF FioExited, FioType, FioPlaces, Preserve
  <2> QED BY <2>1, <2>2
<1>10. CASE FioReaped
  <2>1. fio.at # "off" /\ fio'.at # "off"
    BY <1>10 DEF FioReaped, FioType, FioOK, FioPlaces, Op, Advance, Failed, Refuse, Preserve
  <2>2. FioOK(fio')
    BY <1>10, FioFields, RefuseOK, Zenon DEF FioReaped, FioType, FioPlaces, Preserve
  <2> QED BY <2>1, <2>2
<1>11. CASE FioGone
  <2>1. fio.at # "off" /\ fio'.at # "off"
    BY <1>11 DEF FioGone, FioType, FioOK, FioPlaces, Op, Advance, Failed, Refuse, Preserve
  <2>2. FioOK(fio')
    BY <1>11, FioFields, RefuseOK, Zenon DEF FioGone, FioType, FioPlaces, Preserve
  <2> QED BY <2>1, <2>2
<1>12. CASE FioHandshake
  <2>1. fio.at # "off" /\ fio'.at # "off"
    BY <1>12 DEF FioHandshake, FioType, FioOK, FioPlaces, Op, Advance, Failed, Refuse, Preserve
  <2>2. FioOK(fio')
    BY <1>12, FioFields, RefuseOK, Zenon DEF FioHandshake, FioType, FioPlaces, Preserve
  <2> QED BY <2>1, <2>2
<1>13. ASSUME NEW identity \in Identities, FioIdentity(identity)
      PROVE  FioOK(fio') /\ fio.at # "off" /\ fio'.at # "off"
  <2>1. fio.at # "off" /\ fio'.at # "off"
    BY <1>13 DEF FioIdentity, FioType, FioOK, FioPlaces, Op, Advance, Failed, Refuse, Preserve
  <2>2. FioOK(fio')
    BY <1>13, FioFields, RefuseOK, Zenon DEF FioIdentity, FioType, FioPlaces, Preserve
  <2> QED BY <2>1, <2>2
<1>14. ASSUME NEW identity \in Identities, FioDelete(identity)
      PROVE  FioOK(fio') /\ fio.at # "off" /\ fio'.at # "off"
  <2>1. fio.at # "off" /\ fio'.at # "off"
    BY <1>14 DEF FioDelete, FioType, FioOK, FioPlaces, Op, Refuse, Failed, Preserve
  <2>2. \/ \E at \in FioPlaces : fio' = [fio EXCEPT !.at = at]
        \/ fio' = Refuse(identity)
        \/ fio' = Preserve
    BY <1>14 DEF FioDelete, FioPlaces
  <2>3. FioOK(fio) /\ "fail" \in FioPlaces
    BY DEF FioType, FioPlaces
  <2>4. /\ \A at \in FioPlaces : FioOK([fio EXCEPT !.at = at])
        /\ FioOK(Refuse(identity))
        /\ FioOK(Preserve)
    BY <2>3, FioFields, RefuseOK, Zenon DEF Preserve
  <2>5. FioOK(fio')
    BY <2>2, <2>4, Zenon
  <2> QED BY <2>1, <2>5
<1>15. CASE FioDeleted
  <2>1. fio.at # "off" /\ fio'.at # "off"
    BY <1>15 DEF FioDeleted, FioType, FioOK, FioPlaces, Op, Advance, Failed, Refuse, Preserve
  <2>2. FioOK(fio')
    BY <1>15, FioFields, RefuseOK, Zenon DEF FioDeleted, FioType, FioPlaces, Preserve
  <2> QED BY <2>1, <2>2
<1>16. ASSUME NEW reaped \in BOOLEAN, FioDeleteFails(reaped)
      PROVE  FioOK(fio') /\ fio.at # "off" /\ fio'.at # "off"
  <2>1. fio.at # "off" /\ fio'.at # "off"
    BY <1>16 DEF FioDeleteFails, FioType, FioOK, FioPlaces, Op, Advance, Failed, Refuse, Preserve
  <2>2. FioOK(fio')
    BY <1>16, FioFields, RefuseOK, Zenon DEF FioDeleteFails, FioType, FioPlaces, Preserve
  <2> QED BY <2>1, <2>2
<1>17. CASE FioClear
  <2>1. fio.at # "off" /\ fio'.at # "off"
    BY <1>17, Zenon DEF FioClear, FioType, FioOK, FioPlaces, Op
  <2>2. CASE fio.round = FioRounds
    BY <1>17, <2>1, <2>2, FioFields, Zenon DEF FioClear, FioType, FioPlaces
  <2>3. CASE fio.round # FioRounds
    <3>1. PICK scenario \in DOMAIN Scenarios :
            fio' = [fio EXCEPT !.at = "script", !.step = 1, !.round = @ + 1, !.backing = FALSE,
                               !.temp = FALSE, !.scenario = scenario]
      BY <1>17, <2>3, Zenon DEF FioClear
    <3>2. fio.round + 1 \in 1..FioRounds
      BY <2>3, FioRoundsAssumption DEF FioType, FioOK
    <3>3. "script" \in FioPlaces
      BY DEF FioPlaces
    <3>4. FioOK(fio')
      BY <3>1, <3>2, <3>3, Zenon DEF FioType, FioOK
    <3> QED BY <2>1, <3>4
  <2> QED BY <2>2, <2>3
<1>18. ASSUME NEW imageLeft \in BOOLEAN, FioClearFails(imageLeft)
      PROVE  FioOK(fio') /\ fio.at # "off" /\ fio'.at # "off"
  <2>1. fio.at # "off" /\ fio'.at # "off"
    BY <1>18 DEF FioClearFails, FioType, FioOK, FioPlaces, Op, Advance, Failed, Refuse, Preserve
  <2>2. FioOK(fio')
    BY <1>18, FioFields, RefuseOK, Zenon DEF FioClearFails, FioType, FioPlaces, Preserve
  <2> QED BY <2>1, <2>2
<1>19. CASE FioError
  <2>1. fio.at # "off" /\ fio'.at # "off"
    BY <1>19 DEF FioError, FioType, FioOK, FioPlaces, Op, Advance, Failed, Refuse, Preserve
  <2>2. FioOK(fio')
    BY <1>19, FioFields, RefuseOK, Zenon DEF FioError, FioType, FioPlaces, Preserve
  <2> QED BY <2>1, <2>2
<1>20. CASE CleanChild
  <2>1. fio.at # "off" /\ fio'.at # "off"
    BY <1>20 DEF CleanChild, FioType, FioOK, FioPlaces, Op
  <2>2. \E at \in FioPlaces : fio' = [fio EXCEPT !.at = at]
    BY <1>20 DEF CleanChild, FioPlaces
  <2>3. \A at \in FioPlaces : FioOK([fio EXCEPT !.at = at])
    BY FioFields, Zenon DEF FioType
  <2>4. FioOK(fio')
    BY <2>2, <2>3, Zenon
  <2> QED BY <2>1, <2>4
<1>21. CASE CleanChildDone
  <2>1. fio.at # "off" /\ fio'.at # "off"
    BY <1>21 DEF CleanChildDone, FioType, FioOK, FioPlaces, Op, Advance, Failed, Refuse, Preserve
  <2>2. FioOK(fio')
    BY <1>21, FioFields, RefuseOK, Zenon DEF CleanChildDone, FioType, FioPlaces, Preserve
  <2> QED BY <2>1, <2>2
<1>22. CASE CleanUnrecorded
  <2>1. fio.at # "off" /\ fio'.at # "off"
    BY <1>22 DEF CleanUnrecorded, FioType, FioOK, FioPlaces, Op, Advance, Failed, Refuse, Preserve
  <2>2. FioOK(fio')
    BY <1>22, FioFields, RefuseOK, Zenon DEF CleanUnrecorded, FioType, FioPlaces, Preserve
  <2> QED BY <2>1, <2>2
<1>23. ASSUME NEW identity \in Identities, CleanDevice(identity)
      PROVE  FioOK(fio') /\ fio.at # "off" /\ fio'.at # "off"
  <2>1. fio.at # "off" /\ fio'.at # "off"
    BY <1>23, Zenon DEF CleanDevice, FioType, FioOK, FioPlaces, Op, Refuse, Failed, Preserve
  <2>2. \/ \E at \in FioPlaces : fio' = [fio EXCEPT !.at = at]
        \/ fio' = Refuse(identity)
        \/ fio' = Preserve
    BY <1>23 DEF CleanDevice, FioPlaces
  <2>3. FioOK(fio) /\ "fail" \in FioPlaces
    BY DEF FioType, FioPlaces
  <2>4. /\ \A at \in FioPlaces : FioOK([fio EXCEPT !.at = at])
        /\ FioOK(Refuse(identity))
        /\ FioOK(Preserve)
    BY <2>3, FioFields, RefuseOK, Zenon DEF Preserve
  <2>5. FioOK(fio')
    BY <2>2, <2>4, Zenon
  <2> QED BY <2>1, <2>5
<1>24. CASE CleanDeleted
  <2>1. fio.at # "off" /\ fio'.at # "off"
    BY <1>24 DEF CleanDeleted, FioType, FioOK, FioPlaces, Op, Advance, Failed, Refuse, Preserve
  <2>2. FioOK(fio')
    BY <1>24, FioFields, RefuseOK, Zenon DEF CleanDeleted, FioType, FioPlaces, Preserve
  <2> QED BY <2>1, <2>2
<1>25. ASSUME NEW reaped \in BOOLEAN, CleanDeleteFails(reaped)
      PROVE  FioOK(fio') /\ fio.at # "off" /\ fio'.at # "off"
  <2>1. fio.at # "off" /\ fio'.at # "off"
    BY <1>25 DEF CleanDeleteFails, FioType, FioOK, FioPlaces, Op, Advance, Failed, Refuse, Preserve
  <2>2. FioOK(fio')
    BY <1>25, FioFields, RefuseOK, Zenon DEF CleanDeleteFails, FioType, FioPlaces, Preserve
  <2> QED BY <2>1, <2>2
<1>26. ASSUME NEW disappeared \in BOOLEAN, CleanGone(disappeared)
      PROVE  FioOK(fio') /\ fio.at # "off" /\ fio'.at # "off"
  <2>1. fio.at # "off" /\ fio'.at # "off"
    BY <1>26 DEF CleanGone, FioType, FioOK, FioPlaces, Op, Advance, Failed, Refuse, Preserve
  <2>2. FioOK(fio')
    BY <1>26, FioFields, RefuseOK, Zenon DEF CleanGone, FioType, FioPlaces, Preserve
  <2> QED BY <2>1, <2>2
<1>27. ASSUME NEW valid \in BOOLEAN, NEW removed \in BOOLEAN, NEW imageLeft \in BOOLEAN,
              CleanFiles(valid, removed, imageLeft)
      PROVE  FioOK(fio') /\ fio.at # "off" /\ fio'.at # "off"
  <2>1. fio.at # "off" /\ fio'.at # "off"
    BY <1>27 DEF CleanFiles, FioType, FioOK, FioPlaces, Op, Advance, Failed, Refuse, Preserve
  <2>2. FioOK(fio')
    BY <1>27, FioFields, RefuseOK, Zenon DEF CleanFiles, FioType, FioPlaces, Preserve
  <2> QED BY <2>1, <2>2
<1> QED
  BY <1>1, <1>2, <1>3, <1>4, <1>5, <1>6, <1>7, <1>8, <1>9, <1>10, <1>11, <1>12, <1>13, <1>14, <1>15,
     <1>16, <1>17, <1>18, <1>19, <1>20, <1>21, <1>22, <1>23, <1>24, <1>25, <1>26, <1>27 DEF FioNext

\* How far a finish that fails gets.
FinishStages == {"before", "ledger", "after"}

\* What the SQLite suite does besides the steps of every filesystem suite.
SqliteOnly ==
  \/ SqliteTimeout
  \/ SqliteNew
  \/ \E left \in BOOLEAN : SqliteNewFails(left)
  \/ \E done, reaped \in BOOLEAN : SqlitePreflight(done, reaped)
  \/ \E speedtest \in BOOLEAN : SqliteSetup(speedtest)
  \/ SqliteInitialized
  \/ SqliteDrainStart
  \/ SqliteDrainEnd
  \/ SqliteWorkload
  \/ SqliteVerify
  \/ SqliteVerified
  \/ \E reaped \in BOOLEAN : SqliteFilesFail(reaped)
  \/ SqliteFinish
  \/ \E stage \in FinishStages, imageLeft \in BOOLEAN : SqliteFinishFails(stage, imageLeft)
  \/ \E written \in BOOLEAN : SqliteResult(written)
  \/ \E written \in BOOLEAN : SqliteSummary(written)
  \/ \E written \in BOOLEAN : SqliteFailed(written)

\* A step of the SQLite suite is one of every filesystem suite, one of its own or a count.
LEMMA SqliteSplit ==
  ASSUME SqliteNext
  PROVE  FsNext \/ SqliteOnly \/ CountersNext
BY Zenon DEF SqliteNext, FsNext, SqliteOnly, FinishStages, SqliteFormat, SqliteStart, SqliteMounted,
   SqliteStop, SqliteGone, SqliteRecoverDaemon

\* What can become of a filesystem suite's state.
LEMMA FsFields ==
  ASSUME NEW r, FsOK(r)
  PROVE  /\ \A at \in FsPlaces : FsOK([r EXCEPT !.at = at])
         /\ \A at \in FsPlaces : FsOK([r EXCEPT !.at = at, !.daemon = TRUE])
         /\ \A at \in FsPlaces, b \in BOOLEAN : FsOK([r EXCEPT !.at = at, !.daemon = b])
         /\ \A at \in FsPlaces : FsOK([r EXCEPT !.at = at, !.recovering = TRUE])
         /\ \A at \in FsPlaces, b \in BOOLEAN :
              FsOK([r EXCEPT !.at = at, !.command = TRUE, !.attempted = b])
         /\ \A b \in BOOLEAN : FsOK([r EXCEPT !.command = b])
         /\ FsOK([r EXCEPT !.attempted = FALSE])
         /\ FsOK([r EXCEPT !.formats = TRUE])
         /\ FsOK([r EXCEPT !.daemon = FALSE, !.device = Unrecorded])
         /\ r.round # FsRounds => FsOK([r EXCEPT !.step = 1, !.round = r.round + 1])
         /\ \A at \in FsPlaces : r.round # FsRounds => FsOK([r EXCEPT !.at = at, !.step = 1,
              !.round = r.round + 1])
         /\ FsOK(Proceed(r))
         /\ FsOK(Fails(r))
<1>1. Unrecorded \in Records
  BY DEF Unrecorded, Records, IdsOrNone
<1>2. r.step + 1 \in Nat
  BY DEF FsOK
<1>3. {"script", "drop", "failed"} \subseteq FsPlaces
  BY DEF FsPlaces
<1>4. ASSUME NEW at \in FsPlaces, NEW b \in BOOLEAN
      PROVE  /\ FsOK([r EXCEPT !.at = at])
             /\ FsOK([r EXCEPT !.at = at, !.daemon = TRUE])
             /\ FsOK([r EXCEPT !.at = at, !.daemon = b])
             /\ FsOK([r EXCEPT !.at = at, !.recovering = TRUE])
             /\ FsOK([r EXCEPT !.at = at, !.command = TRUE, !.attempted = b])
             /\ FsOK([r EXCEPT !.command = b])
             /\ FsOK([r EXCEPT !.attempted = FALSE])
             /\ FsOK([r EXCEPT !.formats = TRUE])
  BY DEF FsOK
<1>5. FsOK([r EXCEPT !.daemon = FALSE, !.device = Unrecorded])
  BY <1>1 DEF FsOK
<1>6. ASSUME r.round # FsRounds, NEW at \in FsPlaces
      PROVE  /\ FsOK([r EXCEPT !.step = 1, !.round = r.round + 1])
             /\ FsOK([r EXCEPT !.at = at, !.step = 1, !.round = r.round + 1])
  <2>1. r.round + 1 \in 1..FsRounds
    BY <1>6, FsRoundsAssumption DEF FsOK
  <2> QED BY <2>1 DEF FsOK
<1>7. FsOK(Proceed(r))
  BY <1>2, <1>3 DEF FsOK, Proceed
<1>8. FsOK(Fails(r))
  BY <1>3, <1>4, Zenon DEF Fails
<1> QED BY <1>3, <1>4, <1>5, <1>6, <1>7, <1>8, Zenon

\* Going on and failing do not end the suite.
LEMMA FsMoves ==
  /\ \A r : FsOK(r) => Proceed(r).at # "off" /\ Fails(r).at # "off"
  /\ \A b \in BOOLEAN : FsOK(fs) => FsOK(AfterCleanup(b))
<1>1. \A r : FsOK(r) => Proceed(r).at # "off" /\ Fails(r).at # "off"
  BY DEF FsOK, Proceed, Fails
<1>2. \A b \in BOOLEAN : FsOK(fs) => FsOK(AfterCleanup(b))
  BY FsFields, Zenon DEF AfterCleanup
<1> QED BY <1>1, <1>2

\* A filesystem suite keeps the machine's types.
LEMMA FsWorldTypes ==
  ASSUME KernelType, ProcessType, FileType, FsNext
  PROVE  WorldType'
<1>1. ASSUME NEW reaped \in BOOLEAN, FsHelperFails(reaped)
      PROVE  WorldType'
  <2>1. KernelType'
    BY <1>1 DEF FsHelperFails, KernelType, kernelVars, processVars, fileVars, worldVars
  <2>2. ProcessType'
    BY <1>1 DEF FsHelperFails, ProcessType, kernelVars, processVars, fileVars, worldVars
  <2>3. FileType'
    BY <1>1 DEF FsHelperFails, FileType, kernelVars, processVars, fileVars, worldVars
  <2> QED BY <2>1, <2>2, <2>3 DEF WorldType
<1>2. ASSUME NEW reaped \in BOOLEAN, FsCommandFails(reaped)
      PROVE  WorldType'
  <2>1. KernelType'
    BY <1>2 DEF FsCommandFails, KernelType, kernelVars, processVars, fileVars, worldVars
  <2>2. ProcessType'
    BY <1>2 DEF FsCommandFails, ProcessType, kernelVars, processVars, fileVars, worldVars
  <2>3. FileType'
    BY <1>2 DEF FsCommandFails, FileType, kernelVars, processVars, fileVars, worldVars
  <2> QED BY <2>1, <2>2, <2>3 DEF WorldType
<1>3. ASSUME NEW accepted \in BOOLEAN, FsReady(accepted)
      PROVE  WorldType'
  <2>1. KernelType'
    <3>1. daemon.id \in Ids
      BY <1>3 DEF FsReady, ProcessType, DaemonOK
    <3> DEFINE d == devices[daemon.id]
    <3>2. devices' = [devices EXCEPT ![daemon.id] = [d EXCEPT !.known = d.known \/ d.owner = "lab"]]
      BY <1>3 DEF FsReady
    <3>3. DeviceOK(d) /\ d # NoDevice
      BY <1>3, <3>1 DEF FsReady, KernelType, NoDevice
    <3> HIDE DEF d
    <3>4. DeviceOK([d EXCEPT !.known = d.known \/ d.owner = "lab"])
      BY <3>3, DeviceStates
    <3> QED BY <1>3, <3>1, <3>2, <3>4, SetDevice DEF FsReady, KernelType
  <2>2. ProcessType'
    BY <1>3 DEF FsReady, ProcessType, kernelVars, processVars, fileVars, worldVars
  <2>3. FileType'
    BY <1>3 DEF FsReady, FileType, kernelVars, processVars, fileVars, worldVars
  <2> QED BY <2>1, <2>2, <2>3 DEF WorldType
<1>4. CASE FsCheck
  <2>1. KernelType'
    BY <1>4 DEF FsCheck, KernelType, kernelVars, processVars, fileVars, worldVars
  <2>2. ProcessType'
    BY <1>4 DEF FsCheck, ProcessType, kernelVars, processVars, fileVars, worldVars
  <2>3. FileType'
    BY <1>4 DEF FsCheck, FileType, kernelVars, processVars, fileVars, worldVars
  <2> QED BY <2>1, <2>2, <2>3 DEF WorldType
<1>5. CASE FsFormatXfs
  <2>1. KernelType'
    BY <1>5 DEF FsFormatXfs, KernelType, kernelVars, processVars, fileVars, worldVars
  <2>2. ProcessType'
    BY <1>5 DEF FsFormatXfs, ProcessType, kernelVars, processVars, fileVars, worldVars
  <2>3. FileType'
    BY <1>5 DEF FsFormatXfs, FileType, kernelVars, processVars, fileVars, worldVars
  <2> QED BY <2>1, <2>2, <2>3 DEF WorldType
<1>6. CASE FsFormattedXfs
  <2>1. KernelType'
    BY <1>6 DEF FsFormattedXfs, KernelType, kernelVars, processVars, fileVars, worldVars
  <2>2. ProcessType'
    BY <1>6 DEF FsFormattedXfs, ProcessType, kernelVars, processVars, fileVars, worldVars
  <2>3. FileType'
    BY <1>6 DEF FsFormattedXfs, FileType, kernelVars, processVars, fileVars, worldVars
  <2> QED BY <2>1, <2>2, <2>3 DEF WorldType
<1>7. CASE FsMount
  <2>1. KernelType'
    BY <1>7 DEF FsMount, KernelType, kernelVars, processVars, fileVars, worldVars
  <2>2. ProcessType'
    BY <1>7 DEF FsMount, ProcessType, kernelVars, processVars, fileVars, worldVars
  <2>3. FileType'
    BY <1>7 DEF FsMount, FileType, kernelVars, processVars, fileVars, worldVars
  <2> QED BY <2>1, <2>2, <2>3 DEF WorldType
<1>8. CASE FsUnmount
  <2>1. KernelType'
    BY <1>8 DEF FsUnmount, KernelType, kernelVars, processVars, fileVars, worldVars
  <2>2. ProcessType'
    BY <1>8 DEF FsUnmount, ProcessType, kernelVars, processVars, fileVars, worldVars
  <2>3. FileType'
    BY <1>8 DEF FsUnmount, FileType, kernelVars, processVars, fileVars, worldVars
  <2> QED BY <2>1, <2>2, <2>3 DEF WorldType
<1>9. ASSUME NEW verified \in BOOLEAN, FsUnmounted(verified)
      PROVE  WorldType'
  <2>1. KernelType'
    BY <1>9 DEF FsUnmounted, KernelType, kernelVars, processVars, fileVars, worldVars
  <2>2. ProcessType'
    BY <1>9 DEF FsUnmounted, ProcessType, kernelVars, processVars, fileVars, worldVars
  <2>3. FileType'
    BY <1>9 DEF FsUnmounted, FileType, kernelVars, processVars, fileVars, worldVars
  <2> QED BY <2>1, <2>2, <2>3 DEF WorldType
<1>10. CASE FsTerminate
  <2>1. KernelType'
    BY <1>10 DEF FsTerminate, KernelType, kernelVars, processVars, fileVars, worldVars
  <2>2. ProcessType'
    BY <1>10, SignalOK DEF FsTerminate, ProcessType, Signals
  <2>3. FileType'
    BY <1>10 DEF FsTerminate, FileType, kernelVars, processVars, fileVars, worldVars
  <2> QED BY <2>1, <2>2, <2>3 DEF WorldType
<1>11. CASE FsExited
  <2>1. KernelType'
    BY <1>11 DEF FsExited, KernelType, kernelVars, processVars, fileVars, worldVars
  <2>2. ProcessType'
    BY <1>11, SignalOK DEF FsExited, BeginCleanup, ProcessType, Signals, ReapStates
  <2>3. FileType'
    BY <1>11 DEF FsExited, FileType, kernelVars, processVars, fileVars, worldVars
  <2> QED BY <2>1, <2>2, <2>3 DEF WorldType
<1>12. CASE FsReaped
  <2>1. KernelType'
    BY <1>12 DEF FsReaped, KernelType, kernelVars, processVars, fileVars, worldVars
  <2>2. ProcessType'
    BY <1>12 DEF FsReaped, ProcessType, ReapStates
  <2>3. FileType'
    BY <1>12 DEF FsReaped, FileType, kernelVars, processVars, fileVars, worldVars
  <2> QED BY <2>1, <2>2, <2>3 DEF WorldType
<1>13. ASSUME NEW reaped \in BOOLEAN, FsRecover(reaped)
      PROVE  WorldType'
  <2>1. KernelType'
    BY <1>13 DEF FsRecover, KernelType, kernelVars, processVars, fileVars, worldVars
  <2>2. ProcessType'
    BY <1>13 DEF FsRecover, ProcessType, kernelVars, processVars, fileVars, worldVars
  <2>3. FileType'
    BY <1>13 DEF FsRecover, FileType, kernelVars, processVars, fileVars, worldVars
  <2> QED BY <2>1, <2>2, <2>3 DEF WorldType
<1>14. CASE FsRecoverReaped
  <2>1. KernelType'
    BY <1>14 DEF FsRecoverReaped, KernelType, kernelVars, processVars, fileVars, worldVars
  <2>2. ProcessType'
    BY <1>14 DEF FsRecoverReaped, ProcessType, ReapStates
  <2>3. FileType'
    BY <1>14 DEF FsRecoverReaped, FileType, kernelVars, processVars, fileVars, worldVars
  <2> QED BY <2>1, <2>2, <2>3 DEF WorldType
<1>15. CASE FsRecoverDevice
  <2>1. KernelType'
    BY <1>15 DEF FsRecoverDevice, KernelType, kernelVars, processVars, fileVars, worldVars
  <2>2. ProcessType'
    BY <1>15 DEF FsRecoverDevice, ProcessType, kernelVars, processVars, fileVars, worldVars
  <2>3. FileType'
    BY <1>15 DEF FsRecoverDevice, FileType, kernelVars, processVars, fileVars, worldVars
  <2> QED BY <2>1, <2>2, <2>3 DEF WorldType
<1>16. CASE FsUnrecoverable
  <2>1. KernelType'
    BY <1>16 DEF FsUnrecoverable, KernelType, kernelVars, processVars, fileVars, worldVars
  <2>2. ProcessType'
    BY <1>16 DEF FsUnrecoverable, ProcessType, kernelVars, processVars, fileVars, worldVars
  <2>3. FileType'
    BY <1>16 DEF FsUnrecoverable, FileType, kernelVars, processVars, fileVars, worldVars
  <2> QED BY <2>1, <2>2, <2>3 DEF WorldType
<1>17. ASSUME NEW done \in BOOLEAN, FsFormat(done)
      PROVE  WorldType'
  <2>1. KernelType'
    BY <1>17 DEF FsFormat, KernelType, kernelVars, processVars, fileVars, worldVars
  <2>2. ProcessType'
    BY <1>17 DEF FsFormat, ProcessType, kernelVars, processVars, fileVars, worldVars
  <2>3. FileType'
    BY <1>17 DEF FsFormat, FileType
  <2> QED BY <2>1, <2>2, <2>3 DEF WorldType
<1>18. CASE FsStart
  <2>1. KernelType'
    BY <1>18 DEF FsStart, KernelType, kernelVars, processVars, fileVars, worldVars
  <2>2. ProcessType'
    <3>1. DaemonOK(daemon')
      BY <1>18, DaemonValues, Zenon DEF FsStart, Spawn
    <3> QED BY <1>18, <3>1 DEF FsStart, ProcessType
  <2>3. FileType'
    BY <1>18 DEF FsStart, FileType, kernelVars, processVars, fileVars, worldVars
  <2> QED BY <2>1, <2>2, <2>3 DEF WorldType
<1>19. ASSUME NEW verified \in BOOLEAN, FsMounted(verified)
      PROVE  WorldType'
  <2>1. KernelType'
    BY <1>19 DEF FsMounted, KernelType, kernelVars, processVars, fileVars, worldVars
  <2>2. ProcessType'
    BY <1>19 DEF FsMounted, ProcessType, kernelVars, processVars, fileVars, worldVars
  <2>3. FileType'
    BY <1>19 DEF FsMounted, FileType, kernelVars, processVars, fileVars, worldVars
  <2> QED BY <2>1, <2>2, <2>3 DEF WorldType
<1>20. CASE FsFiles
  <2>1. KernelType'
    BY <1>20 DEF FsFiles, KernelType, kernelVars, processVars, fileVars, worldVars
  <2>2. ProcessType'
    BY <1>20 DEF FsFiles, ProcessType, kernelVars, processVars, fileVars, worldVars
  <2>3. FileType'
    BY <1>20 DEF FsFiles, FileType, kernelVars, processVars, fileVars, worldVars
  <2> QED BY <2>1, <2>2, <2>3 DEF WorldType
<1>21. CASE FsStop
  <2>1. KernelType'
    BY <1>21 DEF FsStop, KernelType, kernelVars, processVars, fileVars, worldVars
  <2>2. ProcessType'
    BY <1>21 DEF FsStop, ProcessType, kernelVars, processVars, fileVars, worldVars
  <2>3. FileType'
    BY <1>21 DEF FsStop, FileType, kernelVars, processVars, fileVars, worldVars
  <2> QED BY <2>1, <2>2, <2>3 DEF WorldType
<1>22. ASSUME NEW logged \in BOOLEAN, FsGone(logged)
      PROVE  WorldType'
  <2>1. KernelType'
    BY <1>22 DEF FsGone, KernelType, kernelVars, processVars, fileVars, worldVars
  <2>2. ProcessType'
    BY <1>22 DEF FsGone, ProcessType, kernelVars, processVars, fileVars, worldVars
  <2>3. FileType'
    BY <1>22 DEF FsGone, FileType, kernelVars, processVars, fileVars, worldVars
  <2> QED BY <2>1, <2>2, <2>3 DEF WorldType
<1>23. CASE FsFinish
  <2>1. KernelType'
    BY <1>23 DEF FsFinish, RemoveFixture, KernelType, kernelVars, processVars, fileVars, worldVars
  <2>2. ProcessType'
    BY <1>23 DEF FsFinish, RemoveFixture, ProcessType, kernelVars, processVars, fileVars, worldVars
  <2>3. FileType'
    BY <1>23 DEF FsFinish, RemoveFixture, FileType, kernelVars, processVars, fileVars, worldVars
  <2> QED BY <2>1, <2>2, <2>3 DEF WorldType
<1>24. ASSUME NEW imageLeft \in BOOLEAN, FsFinishFails(imageLeft)
      PROVE  WorldType'
  <2>1. KernelType'
    BY <1>24 DEF FsFinishFails, KernelType, kernelVars, processVars, fileVars, worldVars
  <2>2. ProcessType'
    BY <1>24 DEF FsFinishFails, ProcessType, kernelVars, processVars, fileVars, worldVars
  <2>3. FileType'
    BY <1>24 DEF FsFinishFails, FileType, kernelVars, processVars, fileVars, worldVars
  <2> QED BY <2>1, <2>2, <2>3 DEF WorldType
<1>25. CASE FsError
  <2>1. KernelType'
    BY <1>25 DEF FsError, KernelType, kernelVars, processVars, fileVars, worldVars
  <2>2. ProcessType'
    BY <1>25 DEF FsError, ProcessType, kernelVars, processVars, fileVars, worldVars
  <2>3. FileType'
    BY <1>25 DEF FsError, FileType, kernelVars, processVars, fileVars, worldVars
  <2> QED BY <2>1, <2>2, <2>3 DEF WorldType
<1>26. CASE FsRecoverDaemon
  <2>1. KernelType'
    BY <1>26 DEF FsRecoverDaemon, KernelType, kernelVars, processVars, fileVars, worldVars
  <2>2. ProcessType'
    <3>1. CASE fs.daemon /\ ~Alive
      BY <1>26, <3>1, SignalOK DEF FsRecoverDaemon, BeginCleanup, ProcessType, Signals, ReapStates
    <3>2. CASE ~(fs.daemon /\ ~Alive)
      BY <1>26, <3>2 DEF FsRecoverDaemon, ProcessType
    <3> QED BY <3>1, <3>2
  <2>3. FileType'
    BY <1>26 DEF FsRecoverDaemon, FileType, kernelVars, processVars, fileVars, worldVars
  <2> QED BY <2>1, <2>2, <2>3 DEF WorldType
<1>27. CASE FsDrop
  <2>1. KernelType'
    BY <1>27 DEF FsDrop, KernelType, kernelVars, processVars, fileVars, worldVars
  <2>2. ProcessType'
    BY <1>27 DEF FsDrop, ProcessType, kernelVars, processVars, fileVars, worldVars
  <2>3. FileType'
    BY <1>27 DEF FsDrop, FileType, kernelVars, processVars, fileVars, worldVars
  <2> QED BY <2>1, <2>2, <2>3 DEF WorldType
<1>28. ASSUME NEW created \in BOOLEAN, NEW reaped \in BOOLEAN, FsFormatFails(created, reaped)
      PROVE  WorldType'
  <2>1. KernelType'
    BY <1>28 DEF FsFormatFails, KernelType, kernelVars
  <2>2. ProcessType'
    BY <1>28 DEF FsFormatFails, ProcessType, processVars
  <2>3. FileType'
    BY <1>28 DEF FsFormatFails, FileType
  <2> QED BY <2>1, <2>2, <2>3 DEF WorldType
<1> QED
  BY <1>1, <1>2, <1>3, <1>4, <1>5, <1>6, <1>7, <1>8, <1>9, <1>10, <1>11, <1>12, <1>13, <1>14, <1>15,
     <1>16, <1>17, <1>18, <1>19, <1>20, <1>21, <1>22, <1>23, <1>24, <1>25, <1>26, <1>27, <1>28
     DEF FsNext, FsCommonNext

\* The SQLite suite keeps the machine's types.
LEMMA SqliteWorldTypes ==
  ASSUME KernelType, ProcessType, FileType, SqliteOnly
  PROVE  WorldType'
<1>1. CASE SqliteTimeout
  <2>1. KernelType'
    BY <1>1 DEF SqliteTimeout, KernelType, kernelVars, processVars, fileVars, worldVars
  <2>2. ProcessType'
    BY <1>1 DEF SqliteTimeout, ProcessType, kernelVars, processVars, fileVars, worldVars
  <2>3. FileType'
    BY <1>1 DEF SqliteTimeout, FileType, kernelVars, processVars, fileVars, worldVars
  <2> QED BY <2>1, <2>2, <2>3 DEF WorldType
<1>2. CASE SqliteNew
  <2>1. KernelType'
    BY <1>2 DEF SqliteNew, KernelType, kernelVars, processVars, fileVars, worldVars
  <2>2. ProcessType'
    BY <1>2 DEF SqliteNew, ProcessType, kernelVars, processVars, fileVars, worldVars
  <2>3. FileType'
    BY <1>2 DEF SqliteNew, FileType, kernelVars, processVars, fileVars, worldVars
  <2> QED BY <2>1, <2>2, <2>3 DEF WorldType
<1>3. ASSUME NEW left \in BOOLEAN, SqliteNewFails(left)
      PROVE  WorldType'
  <2>1. KernelType'
    BY <1>3 DEF SqliteNewFails, KernelType, kernelVars, processVars, fileVars, worldVars
  <2>2. ProcessType'
    BY <1>3 DEF SqliteNewFails, ProcessType, kernelVars, processVars, fileVars, worldVars
  <2>3. FileType'
    BY <1>3 DEF SqliteNewFails, FileType, kernelVars, processVars, fileVars, worldVars
  <2> QED BY <2>1, <2>2, <2>3 DEF WorldType
<1>4. ASSUME NEW done \in BOOLEAN, NEW reaped \in BOOLEAN, SqlitePreflight(done, reaped)
      PROVE  WorldType'
  <2>1. KernelType'
    BY <1>4 DEF SqlitePreflight, KernelType, kernelVars, processVars, fileVars, worldVars
  <2>2. ProcessType'
    BY <1>4 DEF SqlitePreflight, ProcessType, kernelVars, processVars, fileVars, worldVars
  <2>3. FileType'
    BY <1>4 DEF SqlitePreflight, FileType, kernelVars, processVars, fileVars, worldVars
  <2> QED BY <2>1, <2>2, <2>3 DEF WorldType
<1>5. ASSUME NEW speedtest \in BOOLEAN, SqliteSetup(speedtest)
      PROVE  WorldType'
  <2>1. KernelType'
    BY <1>5 DEF SqliteSetup, KernelType, kernelVars, processVars, fileVars, worldVars
  <2>2. ProcessType'
    BY <1>5 DEF SqliteSetup, ProcessType, kernelVars, processVars, fileVars, worldVars
  <2>3. FileType'
    BY <1>5 DEF SqliteSetup, FileType, kernelVars, processVars, fileVars, worldVars
  <2> QED BY <2>1, <2>2, <2>3 DEF WorldType
<1>6. CASE SqliteInitialized
  <2>1. KernelType'
    BY <1>6 DEF SqliteInitialized, KernelType, kernelVars, processVars, fileVars, worldVars
  <2>2. ProcessType'
    BY <1>6 DEF SqliteInitialized, ProcessType, kernelVars, processVars, fileVars, worldVars
  <2>3. FileType'
    BY <1>6 DEF SqliteInitialized, FileType, kernelVars, processVars, fileVars, worldVars
  <2> QED BY <2>1, <2>2, <2>3 DEF WorldType
<1>7. CASE SqliteDrainStart
  <2>1. KernelType'
    BY <1>7 DEF SqliteDrainStart, KernelType, kernelVars, processVars, fileVars, worldVars
  <2>2. ProcessType'
    BY <1>7 DEF SqliteDrainStart, ProcessType, kernelVars, processVars, fileVars, worldVars
  <2>3. FileType'
    BY <1>7 DEF SqliteDrainStart, FileType, kernelVars, processVars, fileVars, worldVars
  <2> QED BY <2>1, <2>2, <2>3 DEF WorldType
<1>8. CASE SqliteDrainEnd
  <2>1. KernelType'
    BY <1>8 DEF SqliteDrainEnd, KernelType, kernelVars, processVars, fileVars, worldVars
  <2>2. ProcessType'
    BY <1>8 DEF SqliteDrainEnd, ProcessType, kernelVars, processVars, fileVars, worldVars
  <2>3. FileType'
    BY <1>8 DEF SqliteDrainEnd, FileType, kernelVars, processVars, fileVars, worldVars
  <2> QED BY <2>1, <2>2, <2>3 DEF WorldType
<1>9. CASE SqliteWorkload
  <2>1. KernelType'
    BY <1>9 DEF SqliteWorkload, KernelType, kernelVars, processVars, fileVars, worldVars
  <2>2. ProcessType'
    BY <1>9 DEF SqliteWorkload, ProcessType, kernelVars, processVars, fileVars, worldVars
  <2>3. FileType'
    BY <1>9 DEF SqliteWorkload, FileType, kernelVars, processVars, fileVars, worldVars
  <2> QED BY <2>1, <2>2, <2>3 DEF WorldType
<1>10. CASE SqliteVerify
  <2>1. KernelType'
    BY <1>10 DEF SqliteVerify, KernelType, kernelVars, processVars, fileVars, worldVars
  <2>2. ProcessType'
    BY <1>10 DEF SqliteVerify, ProcessType, kernelVars, processVars, fileVars, worldVars
  <2>3. FileType'
    BY <1>10 DEF SqliteVerify, FileType, kernelVars, processVars, fileVars, worldVars
  <2> QED BY <2>1, <2>2, <2>3 DEF WorldType
<1>11. CASE SqliteVerified
  <2>1. KernelType'
    BY <1>11 DEF SqliteVerified, KernelType, kernelVars, processVars, fileVars, worldVars
  <2>2. ProcessType'
    BY <1>11 DEF SqliteVerified, ProcessType, kernelVars, processVars, fileVars, worldVars
  <2>3. FileType'
    BY <1>11 DEF SqliteVerified, FileType, kernelVars, processVars, fileVars, worldVars
  <2> QED BY <2>1, <2>2, <2>3 DEF WorldType
<1>12. ASSUME NEW reaped \in BOOLEAN, SqliteFilesFail(reaped)
      PROVE  WorldType'
  <2>1. KernelType'
    BY <1>12 DEF SqliteFilesFail, KernelType, kernelVars, processVars, fileVars, worldVars
  <2>2. ProcessType'
    BY <1>12 DEF SqliteFilesFail, ProcessType, kernelVars, processVars, fileVars, worldVars
  <2>3. FileType'
    BY <1>12 DEF SqliteFilesFail, FileType, kernelVars, processVars, fileVars, worldVars
  <2> QED BY <2>1, <2>2, <2>3 DEF WorldType
<1>13. CASE SqliteFinish
  <2>1. KernelType'
    BY <1>13 DEF SqliteFinish, RemoveFixture, KernelType, kernelVars, processVars, fileVars,
       worldVars
  <2>2. ProcessType'
    BY <1>13 DEF SqliteFinish, RemoveFixture, ProcessType, kernelVars, processVars, fileVars,
       worldVars
  <2>3. FileType'
    BY <1>13 DEF SqliteFinish, RemoveFixture, FileType, kernelVars, processVars, fileVars, worldVars
  <2> QED BY <2>1, <2>2, <2>3 DEF WorldType
<1>14. ASSUME NEW stage \in FinishStages, NEW imageLeft \in BOOLEAN, SqliteFinishFails(stage,
              imageLeft)
      PROVE  WorldType'
  <2>1. KernelType'
    BY <1>14 DEF SqliteFinishFails, KernelType, kernelVars, processVars, fileVars, worldVars
  <2>2. ProcessType'
    BY <1>14 DEF SqliteFinishFails, ProcessType, kernelVars, processVars, fileVars, worldVars
  <2>3. FileType'
    BY <1>14 DEF SqliteFinishFails, FileType, kernelVars, processVars, fileVars, worldVars
  <2> QED BY <2>1, <2>2, <2>3 DEF WorldType
<1>15. ASSUME NEW written \in BOOLEAN, SqliteResult(written)
      PROVE  WorldType'
  <2>1. KernelType'
    BY <1>15 DEF SqliteResult, KernelType, kernelVars, processVars, fileVars, worldVars
  <2>2. ProcessType'
    BY <1>15 DEF SqliteResult, ProcessType, kernelVars, processVars, fileVars, worldVars
  <2>3. FileType'
    BY <1>15 DEF SqliteResult, FileType, kernelVars, processVars, fileVars, worldVars
  <2> QED BY <2>1, <2>2, <2>3 DEF WorldType
<1>16. ASSUME NEW written \in BOOLEAN, SqliteSummary(written)
      PROVE  WorldType'
  <2>1. KernelType'
    BY <1>16 DEF SqliteSummary, KernelType, kernelVars, processVars, fileVars, worldVars
  <2>2. ProcessType'
    BY <1>16 DEF SqliteSummary, ProcessType, kernelVars, processVars, fileVars, worldVars
  <2>3. FileType'
    BY <1>16 DEF SqliteSummary, FileType, kernelVars, processVars, fileVars, worldVars
  <2> QED BY <2>1, <2>2, <2>3 DEF WorldType
<1>17. ASSUME NEW written \in BOOLEAN, SqliteFailed(written)
      PROVE  WorldType'
  <2>1. KernelType'
    BY <1>17 DEF SqliteFailed, KernelType, kernelVars, processVars, fileVars, worldVars
  <2>2. ProcessType'
    BY <1>17 DEF SqliteFailed, ProcessType, kernelVars, processVars, fileVars, worldVars
  <2>3. FileType'
    BY <1>17 DEF SqliteFailed, FileType, kernelVars, processVars, fileVars, worldVars
  <2> QED BY <2>1, <2>2, <2>3 DEF WorldType
<1> QED
  BY <1>1, <1>2, <1>3, <1>4, <1>5, <1>6, <1>7, <1>8, <1>9, <1>10, <1>11, <1>12, <1>13, <1>14, <1>15,
     <1>16, <1>17 DEF SqliteOnly

\* A filesystem suite keeps its types.
LEMMA FsSuiteTypes ==
  ASSUME KernelType, ProcessType, FsType, FsNext
  PROVE  FsOK(fs') /\ fs.at # "off" /\ fs'.at # "off"
<1>1. ASSUME NEW reaped \in BOOLEAN, FsHelperFails(reaped)
      PROVE  FsOK(fs') /\ fs.at # "off" /\ fs'.at # "off"
  <2>1. fs.at # "off"
    BY <1>1 DEF FsHelperFails, Step, HelperSucceeded, RemoveFixture
  <2>2. FsOK(fs) /\ FsOK(fs')
    BY <1>1, FsFields, FsMoves, Zenon
       DEF FsHelperFails, FsType, FsPlaces, RunHelper, HelperSucceeded
  <2>3. fs'.at # "off"
    BY <1>1, <2>1, <2>2 DEF FsHelperFails, FsOK, Proceed, Fails, AfterCleanup, RunHelper,
       HelperSucceeded
  <2> QED BY <2>1, <2>2, <2>3
<1>2. ASSUME NEW reaped \in BOOLEAN, FsCommandFails(reaped)
      PROVE  FsOK(fs') /\ fs.at # "off" /\ fs'.at # "off"
  <2>1. fs.at # "off"
    BY <1>2 DEF FsCommandFails, Step, HelperSucceeded, RemoveFixture
  <2>2. FsOK(fs) /\ FsOK(fs')
    BY <1>2, FsFields, FsMoves, Zenon
       DEF FsCommandFails, FsType, FsPlaces, RunHelper, HelperSucceeded
  <2>3. fs'.at # "off"
    BY <1>2, <2>1, <2>2 DEF FsCommandFails, FsOK, Proceed, Fails, AfterCleanup, RunHelper,
       HelperSucceeded
  <2> QED BY <2>1, <2>2, <2>3
<1>3. ASSUME NEW accepted \in BOOLEAN, FsReady(accepted)
      PROVE  FsOK(fs') /\ fs.at # "off" /\ fs'.at # "off"
  <2>1. daemon.id \in Ids
    BY <1>3 DEF FsReady, ProcessType, DaemonOK
  <2>2. Record(daemon.id) \in Records /\ Record(daemon.id).id \in Ids
    BY <2>1 DEF Record, Records, KernelType, Device, IdsOrNone
  <2> DEFINE r == [fs EXCEPT !.device = Record(daemon.id)]
  <2>3. FsOK(r)
    BY <2>2 DEF FsOK, FsType
  <2>4. fs' = Proceed(r) \/ fs' = Fails(r)
    BY <1>3 DEF FsReady
  <2>5. fs.at # "off"
    BY <1>3 DEF FsReady
  <2> HIDE DEF r
  <2> QED BY <2>3, <2>4, <2>5, FsFields, FsMoves, Zenon
<1>4. CASE FsCheck
  <2>1. fs.at # "off"
    BY <1>4 DEF FsCheck, Step, HelperSucceeded, RemoveFixture
  <2>2. FsOK(fs) /\ FsOK(fs')
    BY <1>4, FsFields, FsMoves, Zenon DEF FsCheck, FsType, FsPlaces, RunHelper, HelperSucceeded
  <2>3. fs'.at # "off"
    BY <1>4, <2>1, <2>2 DEF FsCheck, FsOK, Proceed, Fails, AfterCleanup, RunHelper, HelperSucceeded
  <2> QED BY <2>1, <2>2, <2>3
<1>5. CASE FsFormatXfs
  <2>1. fs.at # "off"
    BY <1>5 DEF FsFormatXfs, Step, HelperSucceeded, RemoveFixture
  <2>2. FsOK(fs) /\ FsOK(fs')
    BY <1>5, FsFields, FsMoves, Zenon DEF FsFormatXfs, FsType, FsPlaces, RunHelper, HelperSucceeded
  <2>3. fs'.at # "off"
    BY <1>5, <2>1, <2>2 DEF FsFormatXfs, FsOK, Proceed, Fails, AfterCleanup, RunHelper,
       HelperSucceeded
  <2> QED BY <2>1, <2>2, <2>3
<1>6. CASE FsFormattedXfs
  <2>1. fs.at # "off"
    BY <1>6 DEF FsFormattedXfs, Step, HelperSucceeded, RemoveFixture
  <2>2. FsOK(fs) /\ FsOK(fs')
    BY <1>6, FsFields, FsMoves, Zenon
       DEF FsFormattedXfs, FsType, FsPlaces, RunHelper, HelperSucceeded
  <2>3. fs'.at # "off"
    BY <1>6, <2>1, <2>2 DEF FsFormattedXfs, FsOK, Proceed, Fails, AfterCleanup, RunHelper,
       HelperSucceeded
  <2> QED BY <2>1, <2>2, <2>3
<1>7. CASE FsMount
  <2>1. fs.at # "off"
    BY <1>7 DEF FsMount, Step, HelperSucceeded, RemoveFixture
  <2>2. FsOK(fs) /\ FsOK(fs')
    BY <1>7, FsFields, FsMoves, Zenon DEF FsMount, FsType, FsPlaces, RunHelper, HelperSucceeded
  <2>3. fs'.at # "off"
    BY <1>7, <2>1, <2>2 DEF FsMount, FsOK, Proceed, Fails, AfterCleanup, RunHelper, HelperSucceeded
  <2> QED BY <2>1, <2>2, <2>3
<1>8. CASE FsUnmount
  <2>1. fs.at # "off"
    BY <1>8 DEF FsUnmount, Step, HelperSucceeded, RemoveFixture
  <2>2. FsOK(fs) /\ FsOK(fs')
    BY <1>8, FsFields, FsMoves, Zenon DEF FsUnmount, FsType, FsPlaces, RunHelper, HelperSucceeded
  <2>3. fs'.at # "off"
    BY <1>8, <2>1, <2>2 DEF FsUnmount, FsOK, Proceed, Fails, AfterCleanup, RunHelper,
       HelperSucceeded
  <2> QED BY <2>1, <2>2, <2>3
<1>9. ASSUME NEW verified \in BOOLEAN, FsUnmounted(verified)
      PROVE  FsOK(fs') /\ fs.at # "off" /\ fs'.at # "off"
  <2>1. fs.at # "off"
    BY <1>9 DEF FsUnmounted, Step, HelperSucceeded, RemoveFixture
  <2>2. FsOK(fs) /\ FsOK(fs')
    BY <1>9, FsFields, FsMoves, Zenon DEF FsUnmounted, FsType, FsPlaces, RunHelper, HelperSucceeded
  <2>3. fs'.at # "off"
    BY <1>9, <2>1, <2>2 DEF FsUnmounted, FsOK, Proceed, Fails, AfterCleanup, RunHelper,
       HelperSucceeded
  <2> QED BY <2>1, <2>2, <2>3
<1>10. CASE FsTerminate
  <2>1. fs.at # "off"
    BY <1>10 DEF FsTerminate, Step, HelperSucceeded, RemoveFixture
  <2>2. FsOK(fs) /\ FsOK(fs')
    BY <1>10, FsFields, FsMoves, Zenon DEF FsTerminate, FsType, FsPlaces, RunHelper, HelperSucceeded
  <2>3. fs'.at # "off"
    BY <1>10, <2>1, <2>2 DEF FsTerminate, FsOK, Proceed, Fails, AfterCleanup, RunHelper,
       HelperSucceeded
  <2> QED BY <2>1, <2>2, <2>3
<1>11. CASE FsExited
  <2>1. fs.at # "off"
    BY <1>11 DEF FsExited, Step, HelperSucceeded, RemoveFixture
  <2>2. FsOK(fs) /\ FsOK(fs')
    BY <1>11, FsFields, FsMoves, Zenon DEF FsExited, FsType, FsPlaces, RunHelper, HelperSucceeded
  <2>3. fs'.at # "off"
    BY <1>11, <2>1, <2>2 DEF FsExited, FsOK, Proceed, Fails, AfterCleanup, RunHelper,
       HelperSucceeded
  <2> QED BY <2>1, <2>2, <2>3
<1>12. CASE FsReaped
  <2>1. fs.at # "off"
    BY <1>12 DEF FsReaped, Step, HelperSucceeded, RemoveFixture
  <2>2. FsOK(fs) /\ FsOK(fs')
    BY <1>12, FsFields, FsMoves, Zenon DEF FsReaped, FsType, FsPlaces, RunHelper, HelperSucceeded
  <2>3. fs'.at # "off"
    BY <1>12, <2>1, <2>2 DEF FsReaped, FsOK, Proceed, Fails, AfterCleanup, RunHelper,
       HelperSucceeded
  <2> QED BY <2>1, <2>2, <2>3
<1>13. ASSUME NEW reaped \in BOOLEAN, FsRecover(reaped)
      PROVE  FsOK(fs') /\ fs.at # "off" /\ fs'.at # "off"
  <2>1. fs.at # "off"
    BY <1>13 DEF FsRecover, Step, HelperSucceeded, RemoveFixture
  <2>2. FsOK(fs) /\ FsOK(fs')
    BY <1>13, FsFields, FsMoves, Zenon DEF FsRecover, FsType, FsPlaces, RunHelper, HelperSucceeded
  <2>3. fs'.at # "off"
    BY <1>13, <2>1, <2>2 DEF FsRecover, FsOK, Proceed, Fails, AfterCleanup, RunHelper,
       HelperSucceeded
  <2> QED BY <2>1, <2>2, <2>3
<1>14. CASE FsRecoverReaped
  <2>1. fs.at # "off"
    BY <1>14 DEF FsRecoverReaped, Step, HelperSucceeded, RemoveFixture
  <2>2. FsOK(fs) /\ FsOK(fs')
    BY <1>14, FsFields, FsMoves, Zenon
       DEF FsRecoverReaped, FsType, FsPlaces, RunHelper, HelperSucceeded
  <2>3. fs'.at # "off"
    BY <1>14, <2>1, <2>2 DEF FsRecoverReaped, FsOK, Proceed, Fails, AfterCleanup, RunHelper,
       HelperSucceeded
  <2> QED BY <2>1, <2>2, <2>3
<1>15. CASE FsRecoverDevice
  <2>1. fs.at # "off"
    BY <1>15 DEF FsRecoverDevice, Step, HelperSucceeded, RemoveFixture
  <2>2. FsOK(fs) /\ FsOK(fs')
    BY <1>15, FsFields, FsMoves, Zenon
       DEF FsRecoverDevice, FsType, FsPlaces, RunHelper, HelperSucceeded
  <2>3. fs'.at # "off"
    BY <1>15, <2>1, <2>2 DEF FsRecoverDevice, FsOK, Proceed, Fails, AfterCleanup, RunHelper,
       HelperSucceeded
  <2> QED BY <2>1, <2>2, <2>3
<1>16. CASE FsUnrecoverable
  <2>1. fs.at # "off"
    BY <1>16 DEF FsUnrecoverable, Step, HelperSucceeded, RemoveFixture
  <2>2. FsOK(fs) /\ FsOK(fs')
    BY <1>16, FsFields, FsMoves, Zenon
       DEF FsUnrecoverable, FsType, FsPlaces, RunHelper, HelperSucceeded
  <2>3. fs'.at # "off"
    BY <1>16, <2>1, <2>2 DEF FsUnrecoverable, FsOK, Proceed, Fails, AfterCleanup, RunHelper,
       HelperSucceeded
  <2> QED BY <2>1, <2>2, <2>3
<1>17. ASSUME NEW done \in BOOLEAN, FsFormat(done)
      PROVE  FsOK(fs') /\ fs.at # "off" /\ fs'.at # "off"
  <2>1. fs.at # "off"
    BY <1>17 DEF FsFormat, Step, HelperSucceeded, RemoveFixture
  <2>2. FsOK(fs) /\ FsOK(fs')
    BY <1>17, FsFields, FsMoves, Zenon DEF FsFormat, FsType, FsPlaces, RunHelper, HelperSucceeded
  <2>3. fs'.at # "off"
    BY <1>17, <2>1, <2>2 DEF FsFormat, FsOK, Proceed, Fails, AfterCleanup, RunHelper,
       HelperSucceeded
  <2> QED BY <2>1, <2>2, <2>3
<1>18. CASE FsStart
  <2>1. fs.at # "off"
    BY <1>18 DEF FsStart, Step, HelperSucceeded, RemoveFixture
  <2>2. FsOK(fs) /\ FsOK(fs')
    BY <1>18, FsFields, FsMoves, Zenon DEF FsStart, FsType, FsPlaces, RunHelper, HelperSucceeded
  <2>3. fs'.at # "off"
    BY <1>18, <2>1, <2>2 DEF FsStart, FsOK, Proceed, Fails, AfterCleanup, RunHelper, HelperSucceeded
  <2> QED BY <2>1, <2>2, <2>3
<1>19. ASSUME NEW verified \in BOOLEAN, FsMounted(verified)
      PROVE  FsOK(fs') /\ fs.at # "off" /\ fs'.at # "off"
  <2>1. fs.at # "off"
    BY <1>19 DEF FsMounted, Step, HelperSucceeded, RemoveFixture
  <2>2. FsOK(fs) /\ FsOK(fs')
    BY <1>19, FsFields, FsMoves, Zenon DEF FsMounted, FsType, FsPlaces, RunHelper, HelperSucceeded
  <2>3. fs'.at # "off"
    BY <1>19, <2>1, <2>2 DEF FsMounted, FsOK, Proceed, Fails, AfterCleanup, RunHelper,
       HelperSucceeded
  <2> QED BY <2>1, <2>2, <2>3
<1>20. CASE FsFiles
  <2>1. fs.at # "off"
    BY <1>20 DEF FsFiles, Step, HelperSucceeded, RemoveFixture
  <2>2. FsOK(fs) /\ FsOK(fs')
    BY <1>20, FsFields, FsMoves, Zenon DEF FsFiles, FsType, FsPlaces, RunHelper, HelperSucceeded
  <2>3. fs'.at # "off"
    BY <1>20, <2>1, <2>2 DEF FsFiles, FsOK, Proceed, Fails, AfterCleanup, RunHelper, HelperSucceeded
  <2> QED BY <2>1, <2>2, <2>3
<1>21. CASE FsStop
  <2>1. fs.at # "off"
    BY <1>21 DEF FsStop, Step, HelperSucceeded, RemoveFixture
  <2>2. FsOK(fs) /\ FsOK(fs')
    BY <1>21, FsFields, FsMoves, Zenon DEF FsStop, FsType, FsPlaces, RunHelper, HelperSucceeded
  <2>3. fs'.at # "off"
    BY <1>21, <2>1, <2>2 DEF FsStop, FsOK, Proceed, Fails, AfterCleanup, RunHelper, HelperSucceeded
  <2> QED BY <2>1, <2>2, <2>3
<1>22. ASSUME NEW logged \in BOOLEAN, FsGone(logged)
      PROVE  FsOK(fs') /\ fs.at # "off" /\ fs'.at # "off"
  <2>1. fs.at # "off"
    BY <1>22 DEF FsGone, Step, HelperSucceeded, RemoveFixture
  <2>2. FsOK(fs) /\ FsOK(fs')
    BY <1>22, FsFields, FsMoves, Zenon DEF FsGone, FsType, FsPlaces, RunHelper, HelperSucceeded
  <2>3. fs'.at # "off"
    BY <1>22, <2>1, <2>2 DEF FsGone, FsOK, Proceed, Fails, AfterCleanup, RunHelper, HelperSucceeded
  <2> QED BY <2>1, <2>2, <2>3
<1>23. CASE FsFinish
  <2>1. fs.at # "off"
    BY <1>23 DEF FsFinish, Step, HelperSucceeded, RemoveFixture
  <2>2. FsOK(fs) /\ FsOK(fs')
    BY <1>23, FsFields, FsMoves, Zenon DEF FsFinish, FsType, FsPlaces, RunHelper, HelperSucceeded
  <2>3. fs'.at # "off"
    BY <1>23, <2>1, <2>2 DEF FsFinish, FsOK, Proceed, Fails, AfterCleanup, RunHelper,
       HelperSucceeded
  <2> QED BY <2>1, <2>2, <2>3
<1>24. ASSUME NEW imageLeft \in BOOLEAN, FsFinishFails(imageLeft)
      PROVE  FsOK(fs') /\ fs.at # "off" /\ fs'.at # "off"
  <2>1. fs.at # "off"
    BY <1>24 DEF FsFinishFails, Step, HelperSucceeded, RemoveFixture
  <2>2. FsOK(fs) /\ FsOK(fs')
    BY <1>24, FsFields, FsMoves, Zenon
       DEF FsFinishFails, FsType, FsPlaces, RunHelper, HelperSucceeded
  <2>3. fs'.at # "off"
    BY <1>24, <2>1, <2>2 DEF FsFinishFails, FsOK, Proceed, Fails, AfterCleanup, RunHelper,
       HelperSucceeded
  <2> QED BY <2>1, <2>2, <2>3
<1>25. CASE FsError
  <2>1. fs.at # "off"
    BY <1>25 DEF FsError, Step, HelperSucceeded, RemoveFixture
  <2>2. FsOK(fs) /\ FsOK(fs')
    BY <1>25, FsFields, FsMoves, Zenon DEF FsError, FsType, FsPlaces, RunHelper, HelperSucceeded
  <2>3. fs'.at # "off"
    BY <1>25, <2>1, <2>2 DEF FsError, FsOK, Proceed, Fails, AfterCleanup, RunHelper, HelperSucceeded
  <2> QED BY <2>1, <2>2, <2>3
<1>26. CASE FsRecoverDaemon
  <2>1. fs.at # "off" /\ fs'.at # "off"
    BY <1>26 DEF FsRecoverDaemon, FsType, FsOK
  <2>2. \E at \in FsPlaces : fs' = [fs EXCEPT !.at = at]
    BY <1>26 DEF FsRecoverDaemon, FsPlaces
  <2>3. \A at \in FsPlaces : FsOK([fs EXCEPT !.at = at])
    BY FsFields, Zenon DEF FsType
  <2>4. FsOK(fs')
    BY <2>2, <2>3, Zenon
  <2> QED BY <2>1, <2>4
<1>27. CASE FsDrop
  <2>1. fs.at # "off"
    BY <1>27 DEF FsDrop, Step, HelperSucceeded, RemoveFixture
  <2>2. FsOK(fs) /\ FsOK(fs')
    BY <1>27, FsFields, FsMoves, Zenon DEF FsDrop, FsType, FsPlaces, RunHelper, HelperSucceeded
  <2>3. fs'.at # "off"
    BY <1>27, <2>1, <2>2 DEF FsDrop, FsOK, Proceed, Fails, AfterCleanup, RunHelper, HelperSucceeded
  <2> QED BY <2>1, <2>2, <2>3
<1>28. ASSUME NEW created \in BOOLEAN, NEW reaped \in BOOLEAN, FsFormatFails(created, reaped)
      PROVE  FsOK(fs') /\ fs.at # "off" /\ fs'.at # "off"
  <2>1. fs.at # "off"
    BY <1>28 DEF FsFormatFails, Step
  <2>2. FsOK(Fails(AfterCleanup(reaped)))
    BY FsFields, FsMoves, Zenon DEF FsType
  <2>3. FsOK(fs')
    BY <1>28, <2>2, FsFields, Zenon DEF FsFormatFails
  <2>4. fs'.at = Fails(AfterCleanup(reaped)).at
    BY <1>28, <2>2 DEF FsFormatFails, FsOK
  <2>5. Fails(AfterCleanup(reaped)).at # "off"
    BY FsMoves DEF FsType
  <2> QED BY <2>1, <2>3, <2>4, <2>5
<1> QED
  BY <1>1, <1>2, <1>3, <1>4, <1>5, <1>6, <1>7, <1>8, <1>9, <1>10, <1>11, <1>12, <1>13, <1>14, <1>15,
     <1>16, <1>17, <1>18, <1>19, <1>20, <1>21, <1>22, <1>23, <1>24, <1>25, <1>26, <1>27, <1>28
     DEF FsNext, FsCommonNext

\* The SQLite suite keeps its types.
LEMMA SqliteSuiteTypes ==
  ASSUME KernelType, ProcessType, FsType, SqliteOnly
  PROVE  FsOK(fs') /\ fs.at # "off" /\ fs'.at # "off"
<1>1. CASE SqliteTimeout
  <2>1. fs.at # "off"
    BY <1>1 DEF SqliteTimeout, Step, HelperSucceeded, RemoveFixture
  <2>2. FsOK(fs) /\ FsOK(fs')
    BY <1>1, FsFields, FsMoves, Zenon
       DEF SqliteTimeout, FsType, FsPlaces, RunHelper, HelperSucceeded
  <2>3. fs'.at # "off"
    BY <1>1, <2>1, <2>2 DEF SqliteTimeout, FsOK, Proceed, Fails, AfterCleanup, RunHelper,
       HelperSucceeded
  <2> QED BY <2>1, <2>2, <2>3
<1>2. CASE SqliteNew
  <2>1. fs.at # "off"
    BY <1>2 DEF SqliteNew, Step, HelperSucceeded, RemoveFixture
  <2>2. FsOK(fs) /\ FsOK(fs')
    BY <1>2, FsFields, FsMoves, Zenon DEF SqliteNew, FsType, FsPlaces, RunHelper, HelperSucceeded
  <2>3. fs'.at # "off"
    BY <1>2, <2>1, <2>2 DEF SqliteNew, FsOK, Proceed, Fails, AfterCleanup, RunHelper,
       HelperSucceeded
  <2> QED BY <2>1, <2>2, <2>3
<1>3. ASSUME NEW left \in BOOLEAN, SqliteNewFails(left)
      PROVE  FsOK(fs') /\ fs.at # "off" /\ fs'.at # "off"
  <2>1. fs.at # "off"
    BY <1>3 DEF SqliteNewFails, Step, HelperSucceeded, RemoveFixture
  <2>2. FsOK(fs) /\ FsOK(fs')
    BY <1>3, FsFields, FsMoves, Zenon
       DEF SqliteNewFails, FsType, FsPlaces, RunHelper, HelperSucceeded
  <2>3. fs'.at # "off"
    BY <1>3, <2>1, <2>2 DEF SqliteNewFails, FsOK, Proceed, Fails, AfterCleanup, RunHelper,
       HelperSucceeded
  <2> QED BY <2>1, <2>2, <2>3
<1>4. ASSUME NEW done \in BOOLEAN, NEW reaped \in BOOLEAN, SqlitePreflight(done, reaped)
      PROVE  FsOK(fs') /\ fs.at # "off" /\ fs'.at # "off"
  <2>1. fs.at # "off"
    BY <1>4 DEF SqlitePreflight, Step, HelperSucceeded, RemoveFixture
  <2>2. FsOK(fs) /\ FsOK(fs')
    BY <1>4, FsFields, FsMoves, Zenon
       DEF SqlitePreflight, FsType, FsPlaces, RunHelper, HelperSucceeded
  <2>3. fs'.at # "off"
    BY <1>4, <2>1, <2>2 DEF SqlitePreflight, FsOK, Proceed, Fails, AfterCleanup, RunHelper,
       HelperSucceeded
  <2> QED BY <2>1, <2>2, <2>3
<1>5. ASSUME NEW speedtest \in BOOLEAN, SqliteSetup(speedtest)
      PROVE  FsOK(fs') /\ fs.at # "off" /\ fs'.at # "off"
  <2>1. fs.at # "off"
    BY <1>5 DEF SqliteSetup, Step, HelperSucceeded, RemoveFixture
  <2>2. FsOK(fs) /\ FsOK(fs')
    BY <1>5, FsFields, FsMoves, Zenon DEF SqliteSetup, FsType, FsPlaces, RunHelper, HelperSucceeded
  <2>3. fs'.at # "off"
    BY <1>5, <2>1, <2>2 DEF SqliteSetup, FsOK, Proceed, Fails, AfterCleanup, RunHelper,
       HelperSucceeded
  <2> QED BY <2>1, <2>2, <2>3
<1>6. CASE SqliteInitialized
  <2>1. fs.at # "off"
    BY <1>6 DEF SqliteInitialized, Step, HelperSucceeded, RemoveFixture
  <2>2. FsOK(fs) /\ FsOK(fs')
    BY <1>6, FsFields, FsMoves, Zenon
       DEF SqliteInitialized, FsType, FsPlaces, RunHelper, HelperSucceeded
  <2>3. fs'.at # "off"
    BY <1>6, <2>1, <2>2 DEF SqliteInitialized, FsOK, Proceed, Fails, AfterCleanup, RunHelper,
       HelperSucceeded
  <2> QED BY <2>1, <2>2, <2>3
<1>7. CASE SqliteDrainStart
  <2>1. fs.at # "off"
    BY <1>7 DEF SqliteDrainStart, Step, HelperSucceeded, RemoveFixture
  <2>2. FsOK(fs) /\ FsOK(fs')
    BY <1>7, FsFields, FsMoves, Zenon
       DEF SqliteDrainStart, FsType, FsPlaces, RunHelper, HelperSucceeded
  <2>3. fs'.at # "off"
    BY <1>7, <2>1, <2>2 DEF SqliteDrainStart, FsOK, Proceed, Fails, AfterCleanup, RunHelper,
       HelperSucceeded
  <2> QED BY <2>1, <2>2, <2>3
<1>8. CASE SqliteDrainEnd
  <2>1. fs.at # "off"
    BY <1>8 DEF SqliteDrainEnd, Step, HelperSucceeded, RemoveFixture
  <2>2. FsOK(fs) /\ FsOK(fs')
    BY <1>8, FsFields, FsMoves, Zenon
       DEF SqliteDrainEnd, FsType, FsPlaces, RunHelper, HelperSucceeded
  <2>3. fs'.at # "off"
    BY <1>8, <2>1, <2>2 DEF SqliteDrainEnd, FsOK, Proceed, Fails, AfterCleanup, RunHelper,
       HelperSucceeded
  <2> QED BY <2>1, <2>2, <2>3
<1>9. CASE SqliteWorkload
  <2>1. fs.at # "off"
    BY <1>9 DEF SqliteWorkload, Step, HelperSucceeded, RemoveFixture
  <2>2. FsOK(fs) /\ FsOK(fs')
    BY <1>9, FsFields, FsMoves, Zenon
       DEF SqliteWorkload, FsType, FsPlaces, RunHelper, HelperSucceeded
  <2>3. fs'.at # "off"
    BY <1>9, <2>1, <2>2 DEF SqliteWorkload, FsOK, Proceed, Fails, AfterCleanup, RunHelper,
       HelperSucceeded
  <2> QED BY <2>1, <2>2, <2>3
<1>10. CASE SqliteVerify
  <2>1. fs.at # "off"
    BY <1>10 DEF SqliteVerify, Step, HelperSucceeded, RemoveFixture
  <2>2. FsOK(fs) /\ FsOK(fs')
    BY <1>10, FsFields, FsMoves, Zenon
       DEF SqliteVerify, FsType, FsPlaces, RunHelper, HelperSucceeded
  <2>3. fs'.at # "off"
    BY <1>10, <2>1, <2>2 DEF SqliteVerify, FsOK, Proceed, Fails, AfterCleanup, RunHelper,
       HelperSucceeded
  <2> QED BY <2>1, <2>2, <2>3
<1>11. CASE SqliteVerified
  <2>1. fs.at # "off"
    BY <1>11 DEF SqliteVerified, Step, HelperSucceeded, RemoveFixture
  <2>2. FsOK(fs) /\ FsOK(fs')
    BY <1>11, FsFields, FsMoves, Zenon
       DEF SqliteVerified, FsType, FsPlaces, RunHelper, HelperSucceeded
  <2>3. fs'.at # "off"
    BY <1>11, <2>1, <2>2 DEF SqliteVerified, FsOK, Proceed, Fails, AfterCleanup, RunHelper,
       HelperSucceeded
  <2> QED BY <2>1, <2>2, <2>3
<1>12. ASSUME NEW reaped \in BOOLEAN, SqliteFilesFail(reaped)
      PROVE  FsOK(fs') /\ fs.at # "off" /\ fs'.at # "off"
  <2>1. fs.at # "off"
    BY <1>12 DEF SqliteFilesFail, Step, HelperSucceeded, RemoveFixture
  <2>2. FsOK(fs) /\ FsOK(fs')
    BY <1>12, FsFields, FsMoves, Zenon
       DEF SqliteFilesFail, FsType, FsPlaces, RunHelper, HelperSucceeded
  <2>3. fs'.at # "off"
    BY <1>12, <2>1, <2>2 DEF SqliteFilesFail, FsOK, Proceed, Fails, AfterCleanup, RunHelper,
       HelperSucceeded
  <2> QED BY <2>1, <2>2, <2>3
<1>13. CASE SqliteFinish
  <2>1. fs.at # "off"
    BY <1>13 DEF SqliteFinish, Step, HelperSucceeded, RemoveFixture
  <2>2. FsOK(fs) /\ FsOK(fs')
    BY <1>13, FsFields, FsMoves, Zenon
       DEF SqliteFinish, FsType, FsPlaces, RunHelper, HelperSucceeded
  <2>3. fs'.at # "off"
    BY <1>13, <2>1, <2>2 DEF SqliteFinish, FsOK, Proceed, Fails, AfterCleanup, RunHelper,
       HelperSucceeded
  <2> QED BY <2>1, <2>2, <2>3
<1>14. ASSUME NEW stage \in FinishStages, NEW imageLeft \in BOOLEAN, SqliteFinishFails(stage,
              imageLeft)
      PROVE  FsOK(fs') /\ fs.at # "off" /\ fs'.at # "off"
  <2>1. fs.at # "off"
    BY <1>14 DEF SqliteFinishFails, Step, HelperSucceeded, RemoveFixture
  <2>2. FsOK(fs) /\ FsOK(fs')
    BY <1>14, FsFields, FsMoves, Zenon
       DEF SqliteFinishFails, FsType, FsPlaces, RunHelper, HelperSucceeded
  <2>3. fs'.at # "off"
    BY <1>14, <2>1, <2>2 DEF SqliteFinishFails, FsOK, Proceed, Fails, AfterCleanup, RunHelper,
       HelperSucceeded
  <2> QED BY <2>1, <2>2, <2>3
<1>15. ASSUME NEW written \in BOOLEAN, SqliteResult(written)
      PROVE  FsOK(fs') /\ fs.at # "off" /\ fs'.at # "off"
  <2>1. fs.at # "off"
    BY <1>15 DEF SqliteResult, Step, HelperSucceeded, RemoveFixture
  <2>2. FsOK(fs) /\ FsOK(fs')
    BY <1>15, FsFields, FsMoves, Zenon
       DEF SqliteResult, FsType, FsPlaces, RunHelper, HelperSucceeded
  <2>3. fs'.at # "off"
    BY <1>15, <2>1, <2>2 DEF SqliteResult, FsOK, Proceed, Fails, AfterCleanup, RunHelper,
       HelperSucceeded
  <2> QED BY <2>1, <2>2, <2>3
<1>16. ASSUME NEW written \in BOOLEAN, SqliteSummary(written)
      PROVE  FsOK(fs') /\ fs.at # "off" /\ fs'.at # "off"
  <2>1. fs.at # "off"
    BY <1>16 DEF SqliteSummary, Step, HelperSucceeded, RemoveFixture
  <2>2. FsOK(fs) /\ FsOK(fs')
    BY <1>16, FsFields, FsMoves, Zenon
       DEF SqliteSummary, FsType, FsPlaces, RunHelper, HelperSucceeded
  <2>3. fs'.at # "off"
    BY <1>16, <2>1, <2>2 DEF SqliteSummary, FsOK, Proceed, Fails, AfterCleanup, RunHelper,
       HelperSucceeded
  <2> QED BY <2>1, <2>2, <2>3
<1>17. ASSUME NEW written \in BOOLEAN, SqliteFailed(written)
      PROVE  FsOK(fs') /\ fs.at # "off" /\ fs'.at # "off"
  <2>1. fs.at # "off"
    BY <1>17 DEF SqliteFailed, Step, HelperSucceeded, RemoveFixture
  <2>2. FsOK(fs) /\ FsOK(fs')
    BY <1>17, FsFields, FsMoves, Zenon
       DEF SqliteFailed, FsType, FsPlaces, RunHelper, HelperSucceeded
  <2>3. fs'.at # "off"
    BY <1>17, <2>1, <2>2 DEF SqliteFailed, FsOK, Proceed, Fails, AfterCleanup, RunHelper,
       HelperSucceeded
  <2> QED BY <2>1, <2>2, <2>3
<1> QED
  BY <1>1, <1>2, <1>3, <1>4, <1>5, <1>6, <1>7, <1>8, <1>9, <1>10, <1>11, <1>12, <1>13, <1>14, <1>15,
     <1>16, <1>17 DEF SqliteOnly

\* The helper keeps its types.
LEMMA HelperTypes ==
  ASSUME HelperType, HelperNext
  PROVE  HelperType'
<1>1. CASE HelperFormats
  BY <1>1 DEF HelperFormats, HelperType, HelperStage, mountVars
<1>2. CASE HelperMounts
  BY <1>2 DEF HelperMounts, HelperType, HelperStage, mountVars
<1>3. ASSUME NEW made \in BOOLEAN, HelperPrepares(made)
      PROVE  HelperType'
  BY <1>3 DEF HelperPrepares, HelperType, HelperStage, mountVars
<1>4. ASSUME NEW owned \in BOOLEAN, NEW done \in BOOLEAN, HelperChowns(owned, done)
      PROVE  HelperType'
  BY <1>4 DEF HelperChowns, HelperType, HelperStage, mountVars
<1>5. ASSUME NEW done \in BOOLEAN, HelperRollsBack(done)
      PROVE  HelperType'
  BY <1>5 DEF HelperRollsBack, HelperType, HelperStage, mountVars
<1>6. CASE HelperUnmounts
  BY <1>6 DEF HelperUnmounts, HelperType, HelperStage, mountVars
<1>7. CASE HelperEnds
  BY <1>7 DEF HelperEnds, HelperType, HelperStage, mountVars
<1>8. CASE ForeignMounts
  BY <1>8 DEF ForeignMounts, HelperType, HelperStage, mountVars
<1> QED
  BY <1>1, <1>2, <1>3, <1>4, <1>5, <1>6, <1>7, <1>8 DEF HelperNext

\* A filesystem suite keeps the helper's types.
LEMMA FsHelperTypes ==
  ASSUME HelperType, FsNext
  PROVE  HelperType'
<1>1. ASSUME NEW reaped \in BOOLEAN, FsHelperFails(reaped)
      PROVE  HelperType'
  BY <1>1 DEF FsHelperFails, HelperType, NoHelper, mountVars, helperVars, RunHelper,
     HelperSucceeded, RemoveFixture
<1>2. ASSUME NEW reaped \in BOOLEAN, FsCommandFails(reaped)
      PROVE  HelperType'
  BY <1>2 DEF FsCommandFails, HelperType, NoHelper, mountVars, helperVars, RunHelper,
     HelperSucceeded, RemoveFixture
<1>3. ASSUME NEW accepted \in BOOLEAN, FsReady(accepted)
      PROVE  HelperType'
  BY <1>3 DEF FsReady, HelperType, NoHelper, mountVars, helperVars, RunHelper, HelperSucceeded,
     RemoveFixture
<1>4. CASE FsCheck
  BY <1>4 DEF FsCheck, HelperType, NoHelper, mountVars, helperVars, RunHelper, HelperSucceeded,
     RemoveFixture
<1>5. CASE FsFormatXfs
  BY <1>5 DEF FsFormatXfs, HelperType, NoHelper, mountVars, helperVars, RunHelper, HelperSucceeded,
     RemoveFixture
<1>6. CASE FsFormattedXfs
  BY <1>6 DEF FsFormattedXfs, HelperType, NoHelper, mountVars, helperVars, RunHelper,
     HelperSucceeded, RemoveFixture
<1>7. CASE FsMount
  BY <1>7 DEF FsMount, HelperType, NoHelper, mountVars, helperVars, RunHelper, HelperSucceeded,
     RemoveFixture
<1>8. CASE FsUnmount
  BY <1>8 DEF FsUnmount, HelperType, NoHelper, mountVars, helperVars, RunHelper, HelperSucceeded,
     RemoveFixture
<1>9. ASSUME NEW verified \in BOOLEAN, FsUnmounted(verified)
      PROVE  HelperType'
  BY <1>9 DEF FsUnmounted, HelperType, NoHelper, mountVars, helperVars, RunHelper, HelperSucceeded,
     RemoveFixture
<1>10. CASE FsTerminate
  BY <1>10 DEF FsTerminate, HelperType, NoHelper, mountVars, helperVars, RunHelper, HelperSucceeded,
     RemoveFixture
<1>11. CASE FsExited
  BY <1>11 DEF FsExited, HelperType, NoHelper, mountVars, helperVars, RunHelper, HelperSucceeded,
     RemoveFixture
<1>12. CASE FsReaped
  BY <1>12 DEF FsReaped, HelperType, NoHelper, mountVars, helperVars, RunHelper, HelperSucceeded,
     RemoveFixture
<1>13. ASSUME NEW reaped \in BOOLEAN, FsRecover(reaped)
      PROVE  HelperType'
  BY <1>13 DEF FsRecover, HelperType, NoHelper, mountVars, helperVars, RunHelper, HelperSucceeded,
     RemoveFixture
<1>14. CASE FsRecoverReaped
  BY <1>14 DEF FsRecoverReaped, HelperType, NoHelper, mountVars, helperVars, RunHelper,
     HelperSucceeded, RemoveFixture
<1>15. CASE FsRecoverDevice
  BY <1>15 DEF FsRecoverDevice, HelperType, NoHelper, mountVars, helperVars, RunHelper,
     HelperSucceeded, RemoveFixture
<1>16. CASE FsUnrecoverable
  BY <1>16 DEF FsUnrecoverable, HelperType, NoHelper, mountVars, helperVars, RunHelper,
     HelperSucceeded, RemoveFixture
<1>17. ASSUME NEW done \in BOOLEAN, FsFormat(done)
      PROVE  HelperType'
  BY <1>17 DEF FsFormat, HelperType, NoHelper, mountVars, helperVars, RunHelper, HelperSucceeded,
     RemoveFixture
<1>18. CASE FsStart
  BY <1>18 DEF FsStart, HelperType, NoHelper, mountVars, helperVars, RunHelper, HelperSucceeded,
     RemoveFixture
<1>19. ASSUME NEW verified \in BOOLEAN, FsMounted(verified)
      PROVE  HelperType'
  BY <1>19 DEF FsMounted, HelperType, NoHelper, mountVars, helperVars, RunHelper, HelperSucceeded,
     RemoveFixture
<1>20. CASE FsFiles
  BY <1>20 DEF FsFiles, HelperType, NoHelper, mountVars, helperVars, RunHelper, HelperSucceeded,
     RemoveFixture
<1>21. CASE FsStop
  BY <1>21 DEF FsStop, HelperType, NoHelper, mountVars, helperVars, RunHelper, HelperSucceeded,
     RemoveFixture
<1>22. ASSUME NEW logged \in BOOLEAN, FsGone(logged)
      PROVE  HelperType'
  BY <1>22 DEF FsGone, HelperType, NoHelper, mountVars, helperVars, RunHelper, HelperSucceeded,
     RemoveFixture
<1>23. CASE FsFinish
  BY <1>23 DEF FsFinish, HelperType, NoHelper, mountVars, helperVars, RunHelper, HelperSucceeded,
     RemoveFixture
<1>24. ASSUME NEW imageLeft \in BOOLEAN, FsFinishFails(imageLeft)
      PROVE  HelperType'
  BY <1>24 DEF FsFinishFails, HelperType, NoHelper, mountVars, helperVars, RunHelper,
     HelperSucceeded, RemoveFixture
<1>25. CASE FsError
  BY <1>25 DEF FsError, HelperType, NoHelper, mountVars, helperVars, RunHelper, HelperSucceeded,
     RemoveFixture
<1>26. CASE FsRecoverDaemon
  BY <1>26 DEF FsRecoverDaemon, HelperType, NoHelper, mountVars, helperVars, RunHelper,
     HelperSucceeded, RemoveFixture
<1>27. CASE FsDrop
  BY <1>27 DEF FsDrop, HelperType, NoHelper, mountVars, helperVars, RunHelper, HelperSucceeded,
     RemoveFixture
<1>28. ASSUME NEW created \in BOOLEAN, NEW reaped \in BOOLEAN, FsFormatFails(created, reaped)
      PROVE  HelperType'
  BY <1>28 DEF FsFormatFails, HelperType, mountVars, helperVars
<1> QED
  BY <1>1, <1>2, <1>3, <1>4, <1>5, <1>6, <1>7, <1>8, <1>9, <1>10, <1>11, <1>12, <1>13, <1>14, <1>15,
     <1>16, <1>17, <1>18, <1>19, <1>20, <1>21, <1>22, <1>23, <1>24, <1>25, <1>26, <1>27, <1>28
     DEF FsNext, FsCommonNext

\* The SQLite suite keeps the helper's types.
LEMMA SqliteHelperTypes ==
  ASSUME HelperType, SqliteOnly
  PROVE  HelperType'
<1>1. CASE SqliteTimeout
  BY <1>1 DEF SqliteTimeout, HelperType, NoHelper, mountVars, helperVars, RunHelper,
     HelperSucceeded, RemoveFixture
<1>2. CASE SqliteNew
  BY <1>2 DEF SqliteNew, HelperType, NoHelper, mountVars, helperVars, RunHelper, HelperSucceeded,
     RemoveFixture
<1>3. ASSUME NEW left \in BOOLEAN, SqliteNewFails(left)
      PROVE  HelperType'
  BY <1>3 DEF SqliteNewFails, HelperType, NoHelper, mountVars, helperVars, RunHelper,
     HelperSucceeded, RemoveFixture
<1>4. ASSUME NEW done \in BOOLEAN, NEW reaped \in BOOLEAN, SqlitePreflight(done, reaped)
      PROVE  HelperType'
  BY <1>4 DEF SqlitePreflight, HelperType, NoHelper, mountVars, helperVars, RunHelper,
     HelperSucceeded, RemoveFixture
<1>5. ASSUME NEW speedtest \in BOOLEAN, SqliteSetup(speedtest)
      PROVE  HelperType'
  BY <1>5 DEF SqliteSetup, HelperType, NoHelper, mountVars, helperVars, RunHelper, HelperSucceeded,
     RemoveFixture
<1>6. CASE SqliteInitialized
  BY <1>6 DEF SqliteInitialized, HelperType, NoHelper, mountVars, helperVars, RunHelper,
     HelperSucceeded, RemoveFixture
<1>7. CASE SqliteDrainStart
  BY <1>7 DEF SqliteDrainStart, HelperType, NoHelper, mountVars, helperVars, RunHelper,
     HelperSucceeded, RemoveFixture
<1>8. CASE SqliteDrainEnd
  BY <1>8 DEF SqliteDrainEnd, HelperType, NoHelper, mountVars, helperVars, RunHelper,
     HelperSucceeded, RemoveFixture
<1>9. CASE SqliteWorkload
  BY <1>9 DEF SqliteWorkload, HelperType, NoHelper, mountVars, helperVars, RunHelper,
     HelperSucceeded, RemoveFixture
<1>10. CASE SqliteVerify
  BY <1>10 DEF SqliteVerify, HelperType, NoHelper, mountVars, helperVars, RunHelper,
     HelperSucceeded, RemoveFixture
<1>11. CASE SqliteVerified
  BY <1>11 DEF SqliteVerified, HelperType, NoHelper, mountVars, helperVars, RunHelper,
     HelperSucceeded, RemoveFixture
<1>12. ASSUME NEW reaped \in BOOLEAN, SqliteFilesFail(reaped)
      PROVE  HelperType'
  BY <1>12 DEF SqliteFilesFail, HelperType, NoHelper, mountVars, helperVars, RunHelper,
     HelperSucceeded, RemoveFixture
<1>13. CASE SqliteFinish
  BY <1>13 DEF SqliteFinish, HelperType, NoHelper, mountVars, helperVars, RunHelper,
     HelperSucceeded, RemoveFixture
<1>14. ASSUME NEW stage \in FinishStages, NEW imageLeft \in BOOLEAN, SqliteFinishFails(stage,
              imageLeft)
      PROVE  HelperType'
  BY <1>14 DEF SqliteFinishFails, HelperType, NoHelper, mountVars, helperVars, RunHelper,
     HelperSucceeded, RemoveFixture
<1>15. ASSUME NEW written \in BOOLEAN, SqliteResult(written)
      PROVE  HelperType'
  BY <1>15 DEF SqliteResult, HelperType, NoHelper, mountVars, helperVars, RunHelper,
     HelperSucceeded, RemoveFixture
<1>16. ASSUME NEW written \in BOOLEAN, SqliteSummary(written)
      PROVE  HelperType'
  BY <1>16 DEF SqliteSummary, HelperType, NoHelper, mountVars, helperVars, RunHelper,
     HelperSucceeded, RemoveFixture
<1>17. ASSUME NEW written \in BOOLEAN, SqliteFailed(written)
      PROVE  HelperType'
  BY <1>17 DEF SqliteFailed, HelperType, NoHelper, mountVars, helperVars, RunHelper,
     HelperSucceeded, RemoveFixture
<1> QED
  BY <1>1, <1>2, <1>3, <1>4, <1>5, <1>6, <1>7, <1>8, <1>9, <1>10, <1>11, <1>12, <1>13, <1>14, <1>15,
     <1>16, <1>17 DEF SqliteOnly

\* Every step keeps the types.
LEMMA TypesStep ==
  ASSUME Types, FioPlaced, [Next]_vars
  PROVE  Types'
<1> USE DEF Types, WorldType
<1>1. ASSUME UNCHANGED worldVars
      PROVE  WorldType'
  BY <1>1 DEF worldVars, kernelVars, processVars, fileVars, KernelType, ProcessType, FileType
<1>2. ASSUME UNCHANGED helperVars
      PROVE  HelperType'
  BY <1>2 DEF helperVars, mountVars, HelperType
<1>3. ASSUME UNCHANGED fio
      PROVE  FioType'
  BY <1>3 DEF FioType
<1>4. ASSUME UNCHANGED fs
      PROVE  FsType'
  BY <1>4 DEF FsType
<1>5. CASE WorldNext /\ UNCHANGED <<helperVars, fio, fs, sqliteVars>>
  BY <1>5, <1>2, <1>3, <1>4, WorldTypes
<1>6. CASE OtherNext /\ ~fs.sqlite /\ UNCHANGED <<helperVars, fio, fs, sqliteVars>>
  BY <1>6, <1>2, <1>3, <1>4, OtherTypes
<1>14. CASE SecondNext /\ UNCHANGED <<helperVars, fio, fs, sqliteVars>>
  BY <1>14, <1>2, <1>3, <1>4, SecondTypes
<1>7. CASE HelperNext /\ fio.at = "off" /\ UNCHANGED <<worldVars, fio, fs, sqliteVars>>
  BY <1>7, <1>1, <1>3, <1>4, HelperTypes
<1>8. CASE FioNext /\ UNCHANGED <<helperVars, fs, sqliteVars>>
  <2>1. FioType'
    BY <1>8, FioSuiteTypes DEF FioType
  <2> QED BY <1>8, <1>2, <1>4, <2>1, FioWorldTypes
<1>9. ASSUME FsNext, UNCHANGED fio
      PROVE  Types'
  <2>1. FsType'
    BY <1>9, FsSuiteTypes DEF FsType
  <2> QED BY <1>9, <1>3, <2>1, FsWorldTypes, FsHelperTypes
<1>10. ASSUME SqliteOnly, UNCHANGED fio
       PROVE  Types'
  <2>1. FsType'
    BY <1>10, SqliteSuiteTypes DEF FsType
  <2> QED BY <1>10, <1>3, <2>1, SqliteWorldTypes, SqliteHelperTypes
<1>11. ASSUME CountersNext, UNCHANGED fio
       PROVE  Types'
  BY <1>11, <1>1, <1>2, <1>3, <1>4 DEF CountersNext
<1>12. CASE SqliteNext /\ fs.sqlite /\ UNCHANGED fio
  BY <1>12, <1>9, <1>10, <1>11, SqliteSplit
<1>13. CASE UNCHANGED vars
  BY <1>13, <1>1, <1>2, <1>3, <1>4 DEF vars
<1> QED
  BY <1>5, <1>6, <1>7, <1>8, <1>9, <1>12, <1>13, <1>14 DEF Next

-----------------------------------------------------------------------------
(* What the machine does by itself, and what the lab holds of it.          *)

\* The machine only lets go: it brings no daemon, no recorded device and no file back.
Settles ==
  /\ Alive' => Alive
  /\ daemon = NoDaemon => daemon' = NoDaemon
  /\ daemon.state # "starting" => daemon'.state # "starting"
  /\ \A id \in Ids : devices'[id].known => devices[id].known
  /\ daemon.state # "starting" => OwnDevices' \subseteq OwnDevices
  /\ reap = "idle" /\ OwnDevices \subseteq {daemon.id} => OwnDevices' \subseteq {daemon'.id}
  /\ image' = image /\ dir' = dir
  /\ reap' # "idle" => reap # "idle"
  /\ reap' = "ok" => reap = "ok" \/ daemon' = NoDaemon
  /\ deletion' # NoDeletion => deletion # NoDeletion /\ deletion'.id = deletion.id
  /\ reap = "idle" => daemon'.signal = daemon.signal

\* The devices of the lab, before and after a step.
LEMMA OwnFacts ==
  /\ OwnDevices = {id \in Ids : devices[id].owner = "lab"}
  /\ OwnDevices' = {id \in Ids : devices'[id].owner = "lab"}
BY DEF OwnDevices

\* The machine's own steps settle.
LEMMA WorldSettles ==
  ASSUME WorldType, WorldNext
  PROVE  Settles
<1> USE DEF WorldType
<1>1. ASSUME NEW id \in Ids, DaemonAdds(id)
      PROVE  Settles
  <2>1. /\ devices' = [devices EXCEPT ![id] =
             [owner |-> "lab", gen |-> generation, state |-> "inactive", known |-> FALSE]]
        /\ daemon' = [daemon EXCEPT !.id = id]
        /\ daemon.state = "starting" /\ daemon.id = None
    BY <1>1 DEF DaemonAdds
  <2>2. OwnDevices \subseteq {daemon.id} => OwnDevices' \subseteq {daemon'.id}
    BY <2>1, NoneNotId DEF OwnDevices, KernelType, ProcessType, DaemonOK, Daemons
  <2>3. \A k \in Ids : devices'[k].known => devices[k].known
    BY <2>1 DEF KernelType
  <2> QED
    BY <1>1, <2>1, <2>2, <2>3
    DEF DaemonAdds, Settles, Alive, ProcessType, DaemonOK, Daemons, NoDaemon, fileVars
<1>2. CASE DaemonServes
  <2>1. daemon.id \in Ids
    BY <1>2 DEF DaemonServes, ProcessType, DaemonOK, Daemons, IdsOrNone
  <2>2. \A k \in Ids : devices'[k].known = devices[k].known /\ devices'[k].owner = devices[k].owner
    BY <1>2, <2>1 DEF DaemonServes, KernelType, DeviceOK, Device
  <2>3. OwnDevices' = OwnDevices
    BY <2>2 DEF OwnDevices
  <2> QED
    BY <1>2, <2>2, <2>3
    DEF DaemonServes, Settles, Alive, ProcessType, DaemonOK, Daemons, NoDaemon, fileVars
<1>3. CASE DaemonStops
  <2>1. daemon.id \in Ids
    BY <1>3 DEF DaemonStops, ProcessType, DaemonOK
  <2>2. \A k \in Ids : /\ devices'[k].known => devices[k].known
                       /\ devices'[k].owner = "lab" => devices[k].owner = "lab"
    BY <1>3, <2>1 DEF DaemonStops, KernelType, DeviceOK, Device, NoDevice
  <2>3. OwnDevices' \subseteq OwnDevices
    BY <2>2 DEF OwnDevices
  <2>4. daemon'.id = daemon.id /\ daemon'.signal = daemon.signal /\ daemon # NoDaemon
        /\ daemon'.state # "starting" /\ Alive
    <3>1. daemon.state = "serving" /\ daemon \in Daemons
      BY <1>3 DEF DaemonStops, ProcessType, DaemonOK
    <3>2. daemon' = daemon \/ daemon' = [daemon EXCEPT !.state = "exited", !.status = "ok"]
      BY <1>3 DEF DaemonStops
    <3>3. daemon # NoDaemon /\ Alive
      BY <3>1 DEF NoDaemon, Alive
    <3>4. CASE daemon' = daemon
      BY <3>1, <3>3, <3>4
    <3>5. CASE daemon' = [daemon EXCEPT !.state = "exited", !.status = "ok"]
      BY <3>1, <3>3, <3>5 DEF Daemons
    <3> QED BY <3>2, <3>4, <3>5
  <2> QED
    BY <1>3, <2>2, <2>3, <2>4 DEF DaemonStops, Settles, fileVars
<1>4. CASE DaemonParks
  BY <1>4 DEF DaemonParks, Settles, Alive, ProcessType, DaemonOK, Daemons, NoDaemon, fileVars,
     kernelVars, OwnDevices
<1>5. CASE DaemonDies
  BY <1>5 DEF DaemonDies, Settles, Alive, ProcessType, DaemonOK, Daemons, NoDaemon, fileVars,
     kernelVars, OwnDevices
<1>6. ASSUME NEW id \in Ids, KernelStops(id)
      PROVE  Settles
  <2>1. \A k \in Ids : devices'[k].known = devices[k].known /\ devices'[k].owner = devices[k].owner
    BY <1>6 DEF KernelStops, KernelType, DeviceOK, Device
  <2>2. OwnDevices' = OwnDevices
    BY <2>1 DEF OwnDevices
  <2> QED
    BY <1>6, <2>1, <2>2 DEF KernelStops, Settles, Alive, fileVars, processVars
<1>7. CASE CleanupKill
  <2>1. OwnDevices' = OwnDevices /\ devices' = devices
    BY <1>7 DEF CleanupKill, kernelVars, OwnDevices
  <2>2. daemon'.state = daemon.state /\ (daemon = NoDaemon => daemon' = NoDaemon)
    <3>1. daemon' = daemon \/ (Alive /\ daemon' = [daemon EXCEPT !.signal = "KILL"])
      BY <1>7 DEF CleanupKill, Signal
    <3>2. daemon \in Daemons
      BY DEF ProcessType, DaemonOK
    <3> QED BY <3>1, <3>2 DEF Daemons, NoDaemon, Alive
  <2> QED
    BY <1>7, <2>1, <2>2 DEF CleanupKill, Settles, Alive, fileVars
<1>8. CASE CleanupReaps
  BY <1>8 DEF CleanupReaps, Settles, Alive, NoDaemon, fileVars, kernelVars, OwnDevices
<1>9. CASE CleanupFails
  BY <1>9 DEF CleanupFails, Settles, Alive, fileVars, kernelVars, OwnDevices
<1>10. CASE DeleteRuns
  <2>1. deletion.id \in Ids /\ deletion # NoDeletion /\ deletion'.id = deletion.id
    BY <1>10 DEF DeleteRuns, ProcessType, DeletionOK, Deletions, NoDeletion
  <2>2. \A k \in Ids : /\ devices'[k].known => devices[k].known
                       /\ devices'[k].owner = "lab" => devices[k].owner = "lab"
    BY <1>10, <2>1 DEF DeleteRuns, Remove, KernelType, NoDevice
  <2>3. OwnDevices' \subseteq OwnDevices
    BY <2>2 DEF OwnDevices
  <2> QED
    BY <1>10, <2>1, <2>2, <2>3 DEF DeleteRuns, Settles, Alive, fileVars
<1>11. ASSUME NEW id \in Ids, StrayDeleteRuns(id)
       PROVE  Settles
  <2>1. \A k \in Ids : /\ devices'[k].known => devices[k].known
                       /\ devices'[k].owner = "lab" => devices[k].owner = "lab"
    BY <1>11 DEF StrayDeleteRuns, Remove, KernelType, NoDevice
  <2>2. OwnDevices' \subseteq OwnDevices
    BY <2>1 DEF OwnDevices
  <2> QED
    BY <1>11, <2>1, <2>2 DEF StrayDeleteRuns, Settles, Alive, fileVars
<1> QED
  BY <1>1, <1>2, <1>3, <1>4, <1>5, <1>6, <1>7, <1>8, <1>9, <1>10, <1>11 DEF WorldNext

\* Somebody else's steps settle what is the lab's.
LEMMA OtherSettles ==
  ASSUME WorldType, OtherNext
  PROVE  Settles
<1> USE DEF WorldType
<1>1. \A k \in Ids : /\ devices'[k].known => devices[k].known
                     /\ devices'[k].owner = "lab" => devices[k].owner = "lab"
  BY DEF OtherNext, OtherAdds, OtherDeletes, KernelType, NoDevice
<1>2. OwnDevices' \subseteq OwnDevices
  BY <1>1 DEF OwnDevices
<1>3. UNCHANGED <<processVars, fileVars>>
  BY DEF OtherNext, OtherAdds, OtherDeletes
<1> QED
  BY <1>1, <1>2, <1>3 DEF Settles, Alive, processVars, fileVars

\* The second daemon's steps settle what is the lab's.
LEMMA SecondSettles ==
  ASSUME WorldType, SecondNext
  PROVE  Settles
<1> USE DEF WorldType
<1>1. \A k \in Ids : /\ devices'[k].known => devices[k].known
                     /\ devices'[k].owner = "lab" => devices[k].owner = "lab"
  <2>1. CASE SecondRefused \/ SecondEnds
    BY <2>1 DEF SecondRefused, SecondEnds, kernelVars
  <2>2. ASSUME NEW id \in Ids, SecondAdds(id) \/ SecondServes(id) \/ SecondStops(id)
        PROVE  \A k \in Ids : /\ devices'[k].known => devices[k].known
                              /\ devices'[k].owner = "lab" => devices[k].owner = "lab"
    BY <2>2 DEF SecondAdds, SecondServes, SecondStops, KernelType, DeviceOK, Device, NoDevice
  <2> QED BY <2>1, <2>2 DEF SecondNext
<1>2. OwnDevices' \subseteq OwnDevices
  BY <1>1 DEF OwnDevices
<1>3. UNCHANGED <<daemon, reap, deletion, fileVars>>
  BY DEF SecondNext, SecondRefused, SecondAdds, SecondServes, SecondStops, SecondEnds
<1> QED
  BY <1>1, <1>2, <1>3 DEF Settles, Alive, fileVars

\* What the lab holds survives what the machine does by itself.
LEMMA SettlesHold ==
  ASSUME Types, Holding, Settles, UNCHANGED <<helperVars, fio, fs>>
  PROVE  Holding'
<1> USE DEF Types, WorldType
<1>1. OneSuite' /\ DaemonHeld' /\ KnownRecorded' /\ DeletionPlaced' /\ HelperPlaced'
  BY DEF Holding, OneSuite, DaemonHeld, KnownRecorded, DeletionPlaced, HelperPlaced, Settles,
     helperVars, mountVars
<1>2. ReapPlaced'
  BY DEF Holding, ReapPlaced, Settles
<1>3. ImageOutlivesUse'
  <2>1. \A id \in Ids : devices'[id].known => id \in OwnDevices /\ devices[id].known
    BY DEF Settles, KernelType, DeviceOK, OwnDevices
  <2>2. OwnDevices' \subseteq Ids
    BY DEF OwnDevices
  <2> QED BY <2>1, <2>2 DEF Holding, ImageOutlivesUse, Settles
<1>4. fio.at # "off" => ~fs.daemon
  BY DEF Holding, OneSuite, FsType, FsIdle
<1>5. fs.at # "off" => ~fio.child
  BY DEF Holding, OneSuite, FioType, FioIdle
<1>6. fio.at # "off" /\ ~fio.child => daemon.state # "starting"
  BY <1>4 DEF Holding, DaemonHeld, NoDaemon
<1>7. fs.at # "off" /\ ~fs.daemon => daemon.state # "starting"
  BY <1>5 DEF Holding, DaemonHeld, NoDaemon
<1>8. fio.at = "ready" \/ fs.at = "ready" => reap = "idle"
  BY DEF Holding, ReapPlaced, OneSuite
<1>9. FioOp' = FioOp /\ FioInScript' = FioInScript
  BY DEF FioOp, FioInScript
<1>10. FioPlaced'
  BY <1>8, <1>9 DEF Holding, FioPlaced, FioBare, FioRuns, FioLeft, Settles
<1>11. FioOwns'
  <2>1. CASE fio.at = "ready"
    BY <2>1, <1>8 DEF Holding, FioOwns, Settles
  <2>2. CASE fio.at # "ready"
    <3>1. fio.at \in {"script", "format", "locking", "exit", "reap", "gone", "delete", "deleting",
                       "pass"} =>
            daemon.state # "starting"
      <4>1. CASE fio.at = "script"
        <5>1. FioOp \in Ops
          BY <4>1, ScriptFollows DEF FioOp, FioInScript, Holding, FioPlaced, FioType, FioOK
        <5>2. FioBare \/ FioRuns \/ FioLeft
          BY <5>1, <4>1 DEF Ops, RunOps, Holding, FioPlaced
        <5> QED BY <5>2, <4>1, <1>6 DEF FioBare, FioRuns, FioLeft
      <4>2. CASE fio.at # "script"
        BY <4>2, <1>6 DEF Holding, FioPlaced, FioBare, FioRuns, FioLeft
      <4> QED BY <4>1, <4>2
    <3> QED BY <2>2, <3>1 DEF Holding, FioOwns, Settles
  <2> QED BY <2>1, <2>2
<1>12. FsPlaced'
  BY DEF Holding, FsPlaced, FsWorking, FsBare, FsRuns, Settles
<1>13. FsOwns'
  <2>1. CASE fs.at = "ready"
    BY <2>1, <1>8 DEF Holding, FsOwns, FsWorking, Settles
  <2>2. CASE fs.at # "ready"
    <3>1. FsWorking => daemon.state # "starting"
      BY <2>2, <1>7 DEF Holding, FsPlaced, FsWorking, FsBare, FsRuns, FsSteps
    <3> QED BY <2>2, <3>1 DEF Holding, FsOwns, FsWorking, Settles
  <2> QED BY <2>1, <2>2
<1> QED
  BY <1>1, <1>2, <1>3, <1>10, <1>11, <1>12, <1>13 DEF Holding

\* What the lab holds survives what the helper does.
LEMMA HelperHold ==
  ASSUME Types, Holding, HelperNext, fio.at = "off", UNCHANGED <<worldVars, fio, fs>>
  PROVE  Holding'
<1>1. helper = NoHelper => helper' = NoHelper /\ mount' = mount
  BY DEF HelperNext, HelperFormats, HelperMounts, HelperPrepares, HelperChowns, HelperRollsBack,
     HelperUnmounts, HelperEnds, ForeignMounts, NoHelper
<1>2. HelperPlaced'
  BY <1>1 DEF Holding, HelperPlaced
<1>3. Alive' = Alive /\ OwnDevices' = OwnDevices /\ FioOp' = FioOp /\ FioInScript' = FioInScript
  BY DEF Alive, OwnDevices, FioOp, FioInScript, worldVars, processVars, kernelVars
<1>4. OneSuite' /\ DaemonHeld' /\ KnownRecorded' /\ ReapPlaced' /\ DeletionPlaced'
  BY DEF Holding, OneSuite, DaemonHeld, KnownRecorded, ReapPlaced, DeletionPlaced, worldVars,
     processVars, kernelVars
<1>5. FioPlaced' /\ FioOwns'
  BY <1>3 DEF Holding, FioPlaced, FioOwns, FioBare, FioRuns, FioLeft, worldVars, processVars,
     kernelVars, fileVars
<1>6. FsPlaced' /\ FsOwns'
  BY <1>3 DEF Holding, FsPlaced, FsOwns, FsWorking, FsBare, FsRuns, worldVars, processVars,
     kernelVars, fileVars
<1>7. ImageOutlivesUse'
  BY <1>3 DEF Holding, ImageOutlivesUse, worldVars, kernelVars, fileVars
<1> QED
  BY <1>2, <1>4, <1>5, <1>6, <1>7 DEF Holding

-----------------------------------------------------------------------------
(* The fio suite.  While it runs, the filesystem suite is off.             *)

\* The daemon is the fio suite's.
FioHeld == ~fio.child => daemon = NoDaemon

\* The known device is the one it recorded.
FioKnown == \A id \in Ids : devices[id].known => id = fio.device.id

\* The daemon is reaped where the fio suite waits for it.
FioReap ==
  /\ reap # "idle" => fio.at \in {"reap", "clean_child"}
  /\ reap = "ok" => daemon = NoDaemon

\* The image is in use.
InUse == Alive \/ \E id \in Ids : devices[id].known

\* Holding, while the fio suite runs.
FioHold ==
  /\ FioHeld /\ FioKnown /\ FioReap /\ DeletionPlaced /\ FioPlaced /\ FioOwns
  /\ InUse => image

\* What the fio suite uses of Holding.
LEMMA FioHoldsBefore ==
  ASSUME Types, Holding, fio.at # "off"
  PROVE  FioHold
<1>1. fs = FsIdle
  BY DEF Types, FsType, Holding, OneSuite
<1>2. FioHeld /\ FioReap
  BY <1>1 DEF Holding, DaemonHeld, ReapPlaced, FioHeld, FioReap, FsIdle
<1>3. FioKnown
  BY <1>1, NoneNotId DEF Holding, KnownRecorded, FioKnown, FsIdle, Unrecorded
<1>4. InUse => image
  BY DEF InUse, Holding, ImageOutlivesUse, OwnDevices, Types, WorldType, KernelType, DeviceOK
<1> QED BY <1>2, <1>3, <1>4 DEF FioHold, Holding

\* What it keeps of it is enough.
LEMMA FioHoldsAfter ==
  ASSUME Types, Holding, fio.at # "off", FioHold', UNCHANGED <<helperVars, fs>>
  PROVE  Holding'
<1>1. fs = FsIdle /\ fs' = FsIdle
  BY DEF Types, FsType, Holding, OneSuite
<1>2. DaemonHeld' /\ ReapPlaced' /\ OneSuite' /\ KnownRecorded'
  BY <1>1 DEF FioHold, DaemonHeld, ReapPlaced, FioHeld, FioReap, FsIdle, OneSuite, FioKnown,
     KnownRecorded
<1>3. FsPlaced' /\ FsOwns'
  BY <1>1 DEF FsPlaced, FsOwns, FsWorking, FsIdle, FsSteps
<1>4. HelperPlaced'
  BY <1>1 DEF Holding, HelperPlaced, helperVars, mountVars, FsIdle
<1>5. ImageOutlivesUse'
  BY DEF FioHold, InUse, ImageOutlivesUse, OwnDevices
<1> QED BY <1>2, <1>3, <1>4, <1>5 DEF FioHold, Holding

\* The next operation of the script may follow this one.
LEMMA AdvanceOp ==
  ASSUME FioOK(fio), FioInScript, FioOp # "clear",
         fio'.scenario = fio.scenario, fio'.proven = fio.proven, fio'.step = fio.step + 1
  PROVE  FioInScript' /\ FioOp \in Ops /\ FioOp' \in Follow[FioOp]
<1> DEFINE s == fio.scenario
           p == fio.proven
           n == fio.step
<1>1. s \in DOMAIN Scenarios /\ p \in BOOLEAN /\ n \in 1..Len(Script(s, p)) /\ Script(s,
        p)[n] # "clear"
  BY DEF FioOK, FioInScript, FioOp
<1>2. /\ FioOp = Script(s, p)[n] /\ FioOp' = Script(s, p)[n + 1]
      /\ FioInScript' = (n + 1 \in 1..Len(Script(s, p)))
  BY DEF FioOp, FioInScript
<1> HIDE DEF s, p, n
<1>3. /\ Script(s, p)[n] \in Ops
      /\ n + 1 \in 1..Len(Script(s, p))
      /\ Script(s, p)[n + 1] \in Follow[Script(s, p)[n]]
  BY <1>1, ScriptFollows
<1> QED BY <1>2, <1>3

\* The operation is the same while the position is.
LEMMA SameOp ==
  ASSUME fio'.scenario = fio.scenario, fio'.proven = fio.proven, fio'.step = fio.step
  PROVE  FioInScript' = FioInScript /\ FioOp' = FioOp
BY DEF FioInScript, FioOp

\* After the contention was proved the script goes on with the stop.
LEMMA LockOp ==
  ASSUME FioOK(fio), FioInScript, FioOp = "lock",
         fio'.scenario = fio.scenario, fio'.proven = TRUE, fio'.step = fio.step
  PROVE  FioInScript' /\ FioOp' = "stop"
<1> DEFINE m == Scenarios[fio.scenario]
           n == fio.step
<1>1. Body(m)
  BY ScenarioBodies DEF FioOK
<1> HIDE DEF m
<1>2. m \in Seq(Ops) /\ Len(m) \in Nat
  BY <1>1 DEF Body
<1>3. <<"lock">> \in Seq(Ops) /\ Len(<<"lock">>) = 1 /\ <<>> \in Seq(Ops) /\ Len(<<>>) = 0
  BY DEF Ops
<1>4. FioOp' = Whole(m, <<>>)[n] /\ FioInScript' = (n \in 1..Len(Whole(m, <<>>)))
  BY DEF FioOp, FioInScript, Script, Whole, m
<1>5. \/ /\ FioOp = Whole(m, <<>>)[n] /\ FioInScript = (n \in 1..Len(Whole(m, <<>>)))
      \/ /\ FioOp = Whole(m, <<"lock">>)[n] /\ FioInScript = (n \in 1..Len(Whole(m, <<"lock">>)))
  BY DEF FioOp, FioInScript, Script, Whole, m
<1>6. /\ Len(Whole(m, <<>>)) = Len(m) + 3
      /\ Whole(m, <<>>)[1] = "setup"
      /\ \A i \in 1..Len(m) : Whole(m, <<>>)[i + 1] = m[i]
      /\ Whole(m, <<>>)[Len(m) + 2] = "stop"
      /\ Whole(m, <<>>)[Len(m) + 3] = "clear"
  <2> DEFINE c == <<>>
  <2>1. c \in Seq(Ops) /\ Len(c) = 0
    BY <1>3
  <2> HIDE DEF c
  <2>2. /\ Whole(m, c) \in Seq(Ops)
        /\ Len(Whole(m, c)) = Len(m) + Len(c) + 3
        /\ Whole(m, c)[1] = "setup"
        /\ \A i \in 1..Len(m) : Whole(m, c)[i + 1] = m[i]
        /\ \A i \in 1..Len(c) : Whole(m, c)[Len(m) + 1 + i] = c[i]
        /\ Whole(m, c)[Len(m) + Len(c) + 2] = "stop"
        /\ Whole(m, c)[Len(m) + Len(c) + 3] = "clear"
    BY <1>2, <2>1, WholeAt, Zenon
  <2>3. Len(m) + Len(c) + 3 = Len(m) + 3 /\ Len(m) + Len(c) + 2 = Len(m) + 2
    BY <1>2, <2>1
  <2>4. /\ Len(Whole(m, c)) = Len(m) + 3
        /\ Whole(m, c)[1] = "setup"
        /\ \A i \in 1..Len(m) : Whole(m, c)[i + 1] = m[i]
        /\ Whole(m, c)[Len(m) + 2] = "stop"
        /\ Whole(m, c)[Len(m) + 3] = "clear"
    BY <2>2, <2>3
  <2> QED BY <2>4 DEF c
<1>7. /\ Len(Whole(m, <<"lock">>)) = Len(m) + 4
      /\ Whole(m, <<"lock">>)[1] = "setup"
      /\ \A i \in 1..Len(m) : Whole(m, <<"lock">>)[i + 1] = m[i]
      /\ Whole(m, <<"lock">>)[Len(m) + 3] = "stop"
      /\ Whole(m, <<"lock">>)[Len(m) + 4] = "clear"
  <2> DEFINE c == <<"lock">>
  <2>1. c \in Seq(Ops) /\ Len(c) = 1
    BY <1>3
  <2> HIDE DEF c
  <2>2. /\ Whole(m, c) \in Seq(Ops)
        /\ Len(Whole(m, c)) = Len(m) + Len(c) + 3
        /\ Whole(m, c)[1] = "setup"
        /\ \A i \in 1..Len(m) : Whole(m, c)[i + 1] = m[i]
        /\ \A i \in 1..Len(c) : Whole(m, c)[Len(m) + 1 + i] = c[i]
        /\ Whole(m, c)[Len(m) + Len(c) + 2] = "stop"
        /\ Whole(m, c)[Len(m) + Len(c) + 3] = "clear"
    BY <1>2, <2>1, WholeAt, Zenon
  <2>3. Len(m) + Len(c) + 3 = Len(m) + 4 /\ Len(m) + Len(c) + 2 = Len(m) + 3
    BY <1>2, <2>1
  <2>4. /\ Len(Whole(m, c)) = Len(m) + 4
        /\ Whole(m, c)[1] = "setup"
        /\ \A i \in 1..Len(m) : Whole(m, c)[i + 1] = m[i]
        /\ Whole(m, c)[Len(m) + 3] = "stop"
        /\ Whole(m, c)[Len(m) + 4] = "clear"
    BY <2>2, <2>3
  <2> QED BY <2>4 DEF c
<1>8. \A i \in 1..Len(m) : m[i] # "lock"
  BY <1>1 DEF Body
<1>9. n \in Nat
  BY DEF FioOK
<1> HIDE DEF n
<1>10. n # 1 /\ n \notin 2..(Len(m) + 1)
  <2>1. ASSUME n \in 2..(Len(m) + 1) PROVE FALSE
    <3>1. n - 1 \in 1..Len(m) /\ (n - 1) + 1 = n
      BY <2>1, <1>2
    <3>2. m[n - 1] = "lock"
      BY <3>1, <1>5, <1>6, <1>7
    <3> QED BY <3>1, <3>2, <1>8
  <2>2. n # 1
    BY <1>5, <1>6, <1>7
  <2> QED BY <2>1, <2>2
<1>11. n = Len(m) + 2
  <2>1. CASE /\ FioOp = Whole(m, <<>>)[n] /\ FioInScript = (n \in 1..Len(Whole(m, <<>>)))
    <3>1. n # Len(m) + 2 /\ n # Len(m) + 3
      BY <2>1, <1>6
    <3>2. n \in 1..(Len(m) + 3)
      BY <2>1, <1>6
    <3> QED BY <3>1, <3>2, <1>2, <1>10
  <2>2. CASE /\ FioOp = Whole(m, <<"lock">>)[n]
             /\ FioInScript = (n \in 1..Len(Whole(m, <<"lock">>)))
    <3>1. n # Len(m) + 3 /\ n # Len(m) + 4
      BY <2>2, <1>7
    <3>2. n \in 1..(Len(m) + 4)
      BY <2>2, <1>7
    <3> QED BY <3>1, <3>2, <1>2, <1>10
  <2> QED BY <2>1, <2>2, <1>5
<1>12. n \in 1..(Len(m) + 3)
  BY <1>2, <1>11
<1> QED BY <1>4, <1>6, <1>11, <1>12

\* A script starts with the setup.
LEMMA ScriptStart ==
  ASSUME NEW scenario \in DOMAIN Scenarios, NEW proven \in BOOLEAN
  PROVE  1 \in 1..Len(Script(scenario, proven)) /\ Script(scenario, proven)[1] = "setup"
<1> DEFINE m == Scenarios[scenario]
           c == IF proven THEN <<>> ELSE <<"lock">>
<1>1. Script(scenario, proven) = Whole(m, c)
  BY DEF Script, Whole
<1>2. m \in Seq(Ops)
  BY ScenarioBodies DEF Body
<1>3. c \in Seq(Ops)
  <2>1. <<"lock">> \in Seq(Ops) /\ <<>> \in Seq(Ops)
    BY DEF Ops
  <2> QED BY <2>1, Zenon DEF c
<1> HIDE DEF m, c
<1>4. Len(Whole(m, c)) = Len(m) + Len(c) + 3 /\ Whole(m, c)[1] = "setup"
  BY <1>2, <1>3, WholeAt
<1>5. Len(m) \in Nat /\ Len(c) \in Nat
  BY <1>2, <1>3
<1> QED BY <1>1, <1>4, <1>5

\* What still_matches says of the device.
LEMMA ClassifyFacts ==
  ASSUME NEW record, NEW identity, identity \in Classify(record)
  PROVE  /\ identity = "Absent" => devices[record.id].state = "absent"
         /\ identity \in {"Matching", "StoppedMatching"} =>
              Same(record) /\ devices[record.id].state # "absent"
BY DEF Classify

\* A signal changes nothing but the signal.
LEMMA SignalKeeps ==
  ASSUME DaemonOK(daemon), NEW s, Signal(s)
  PROVE  /\ daemon'.state = daemon.state /\ daemon'.id = daemon.id
         /\ daemon = NoDaemon => daemon' = NoDaemon
         /\ Alive' = Alive
         /\ ~Alive => daemon' = daemon
<1>1. daemon' = daemon \/ (Alive /\ daemon' = [daemon EXCEPT !.signal = s])
  BY DEF Signal
<1>2. daemon'.state = daemon.state /\ daemon'.id = daemon.id
  BY <1>1 DEF DaemonOK, Daemons
<1>3. daemon = NoDaemon => ~Alive
  BY DEF NoDaemon, Alive
<1> QED BY <1>1, <1>2, <1>3 DEF Alive

\* A fio suite that holds nothing has no use of the image.
LEMMA BareIdle ==
  ASSUME Types, FioHeld, FioKnown, FioBare
  PROVE  ~InUse
BY NoneNotId DEF FioHeld, FioKnown, FioBare, InUse, Alive, NoDaemon, Unrecorded

\* FioSetup keeps what the lab holds of the world.
LEMMA FioSetupHolds ==
  ASSUME Types, FioHold, FioSetup
  PROVE  FioHold'
<1>1. fio.at = "script" /\ FioOp = "setup"
  BY DEF FioSetup, Op, FioOp, FioKilling
<1>2. /\ fio'.at = "format" /\ fio'.child = fio.child /\ fio'.device = fio.device
      /\ fio'.step = fio.step /\ fio'.scenario = fio.scenario /\ fio'.proven = fio.proven
  BY <1>1 DEF FioSetup, Types, FioType, FioOK, Advance, Failed, Refuse, Preserve
<1>3. /\ devices' = devices
      /\ daemon' = daemon
      /\ reap' = reap
      /\ deletion' = deletion
      /\ image' = image
  BY DEF FioSetup, worldVars, kernelVars, processVars, fileVars, Spawn, NoDaemon, StartDelete,
     AbandonDelete, BeginCleanup, Types, WorldType, KernelType, ProcessType, Device
<1>4. FioInScript' = FioInScript /\ FioOp' = FioOp
  BY <1>2, SameOp
<1>5. OwnDevices' = OwnDevices
  BY <1>3 DEF OwnDevices
<1>6. FioHeld' /\ FioReap' /\ DeletionPlaced'
  BY <1>1, <1>2, <1>3, <1>4
     DEF FioHold, FioHeld, FioReap, DeletionPlaced, FioPlaced, FioRuns, FioLeft, FioBare
<1>7. FioKnown'
  BY <1>1, <1>2, <1>3, <1>4, NoneNotId DEF FioHold, FioKnown, FioPlaced, Unrecorded
<1>8. FioPlaced'
  BY <1>1, <1>2, <1>3, <1>4, NoneNotId
     DEF FioHold, FioPlaced, FioKnown, FioBare, FioRuns, FioLeft, Follow, RunOps, Ops, Unrecorded
<1>9. FioOwns'
  BY <1>1, <1>2, <1>3, <1>4, <1>5, NoneNotId
     DEF FioHold, FioOwns, OwnDevices, FioPlaced, FioBare, Unrecorded
<1>10. InUse' => image'
  BY <1>1, <1>2, <1>3, <1>4 DEF FioHold, InUse, FioPlaced, Alive
<1> QED BY <1>6, <1>7, <1>8, <1>9, <1>10 DEF FioHold

\* FioFormat keeps what the lab holds of the world.
LEMMA FioFormatHolds ==
  ASSUME Types, FioHold, NEW created \in BOOLEAN, NEW valid \in BOOLEAN, FioFormat(created, valid)
  PROVE  FioHold'
<1>1. CASE valid
  <2>1. fio.at = "format"
    BY <1>1 DEF FioFormat, Op, FioOp, FioKilling
  <2>2. /\ fio'.at = "script" /\ fio'.child = fio.child /\ fio'.device = fio.device
        /\ fio'.step = fio.step + 1 /\ fio'.scenario = fio.scenario /\ fio'.proven = fio.proven
    BY <2>1, <1>1 DEF FioFormat, Types, FioType, FioOK, Advance, Failed, Refuse, Preserve
  <2>3. /\ devices' = devices
        /\ daemon' = daemon
        /\ reap' = reap
        /\ deletion' = deletion
        /\ image' = TRUE
    BY <1>1 DEF FioFormat, worldVars, kernelVars, processVars, fileVars, Spawn, NoDaemon,
       StartDelete, AbandonDelete, BeginCleanup, Types, WorldType, KernelType, ProcessType, Device
  <2>4. FioOK(fio) /\ FioInScript /\ FioOp # "clear"
    BY <2>1 DEF Types, FioType, FioHold, FioPlaced
  <2>5. FioInScript' /\ FioOp \in Ops /\ FioOp' \in Follow[FioOp]
    BY <2>4, <2>2, AdvanceOp
  <2>6. OwnDevices' = OwnDevices
    BY <2>3 DEF OwnDevices
  <2>7. FioHeld' /\ FioReap' /\ DeletionPlaced'
    BY <2>1, <2>2, <2>3, <2>5
       DEF FioHold, FioHeld, FioReap, DeletionPlaced, FioPlaced, FioRuns, FioLeft, FioBare
  <2>8. FioKnown'
    BY <2>1, <2>2, <2>3, <2>5, NoneNotId DEF FioHold, FioKnown, FioPlaced, Unrecorded
  <2>9. FioPlaced'
    BY <2>1, <2>2, <2>3, <2>5, NoneNotId
       DEF FioHold, FioPlaced, FioKnown, FioBare, FioRuns, FioLeft, Follow, RunOps, Ops, Unrecorded
  <2>10. FioOwns'
    BY <2>1, <2>2, <2>3, <2>5, <2>6, NoneNotId
       DEF FioHold, FioOwns, OwnDevices, FioPlaced, FioBare, Unrecorded
  <2>11. InUse' => image'
    BY <2>1, <2>2, <2>3, <2>5 DEF FioHold, InUse, FioPlaced, Alive
  <2> QED BY <2>7, <2>8, <2>9, <2>10, <2>11 DEF FioHold
<1>2. CASE ~valid
  <2>1. fio.at = "format"
    BY <1>2 DEF FioFormat, Op, FioOp, FioKilling
  <2>2. /\ fio'.at = "failed" /\ fio'.child = fio.child /\ fio'.device = fio.device
        /\ fio'.step = fio.step /\ fio'.scenario = fio.scenario /\ fio'.proven = fio.proven
    BY <2>1, <1>2 DEF FioFormat, Types, FioType, FioOK, Advance, Failed, Refuse, Preserve
  <2>3. /\ devices' = devices
        /\ daemon' = daemon
        /\ reap' = reap
        /\ deletion' = deletion
    BY <1>2 DEF FioFormat, worldVars, kernelVars, processVars, fileVars, Spawn, NoDaemon,
       StartDelete, AbandonDelete, BeginCleanup, Types, WorldType, KernelType, ProcessType, Device
  <2>4. ~InUse
    BY <2>1, BareIdle DEF FioHold, FioPlaced
  <2>5. OwnDevices' = OwnDevices
    BY <2>3 DEF OwnDevices
  <2>6. FioHeld' /\ FioReap' /\ DeletionPlaced'
    BY <2>1, <2>2, <2>3, <2>4
       DEF FioHold, FioHeld, FioReap, DeletionPlaced, FioPlaced, FioRuns, FioLeft, FioBare
  <2>7. FioKnown'
    BY <2>1, <2>2, <2>3, <2>4, NoneNotId DEF FioHold, FioKnown, FioPlaced, Unrecorded
  <2>8. FioPlaced'
    BY <2>1, <2>2, <2>3, <2>4, NoneNotId
       DEF FioHold, FioPlaced, FioKnown, FioBare, FioRuns, FioLeft, Follow, RunOps, Ops, Unrecorded
  <2>9. FioOwns'
    BY <2>1, <2>2, <2>3, <2>4, <2>5, NoneNotId
       DEF FioHold, FioOwns, OwnDevices, FioPlaced, FioBare, Unrecorded
  <2>10. InUse' => image'
    BY <2>1, <2>2, <2>3, <2>4 DEF FioHold, InUse, FioPlaced, Alive
  <2> QED BY <2>6, <2>7, <2>8, <2>9, <2>10 DEF FioHold
<1> QED BY <1>1, <1>2

\* FioStart keeps what the lab holds of the world.
LEMMA FioStartHolds ==
  ASSUME Types, FioHold, FioStart
  PROVE  FioHold'
<1>1. fio.at = "script" /\ FioOp = "start" /\ ~fio.child /\ fio.device = Unrecorded
  BY DEF FioStart, Op, FioOp, FioKilling
<1>2. /\ fio'.at = "ready" /\ fio'.child = TRUE /\ fio'.device = fio.device
      /\ fio'.step = fio.step /\ fio'.scenario = fio.scenario /\ fio'.proven = fio.proven
  BY <1>1 DEF FioStart, Types, FioType, FioOK, Advance, Failed, Refuse, Preserve
<1>3. /\ devices' = devices
      /\ daemon'.signal = "none"
      /\ reap' = reap
      /\ deletion' = deletion
      /\ image' = image
  BY DEF FioStart, worldVars, kernelVars, processVars, fileVars, Spawn, NoDaemon, StartDelete,
     AbandonDelete, BeginCleanup, Types, WorldType, KernelType, ProcessType, Device
<1>4. FioInScript' = FioInScript /\ FioOp' = FioOp
  BY <1>2, SameOp
<1>5. OwnDevices' = OwnDevices
  BY <1>3 DEF OwnDevices
<1>6. FioHeld' /\ FioReap' /\ DeletionPlaced'
  BY <1>1, <1>2, <1>3, <1>4
     DEF FioHold, FioHeld, FioReap, DeletionPlaced, FioPlaced, FioRuns, FioLeft, FioBare
<1>7. FioKnown'
  BY <1>1, <1>2, <1>3, <1>4, NoneNotId DEF FioHold, FioKnown, FioPlaced, Unrecorded
<1>8. FioPlaced'
  BY <1>1, <1>2, <1>3, <1>4, NoneNotId
     DEF FioHold, FioPlaced, FioKnown, FioBare, FioRuns, FioLeft, Follow, RunOps, Ops, Unrecorded
<1>9. FioOwns'
  BY <1>1, <1>2, <1>3, <1>4, <1>5, NoneNotId
     DEF FioHold, FioOwns, OwnDevices, FioPlaced, FioBare, Unrecorded
<1>10. InUse' => image'
  BY <1>1, <1>2, <1>3, <1>4 DEF FioHold, InUse, FioPlaced, Alive
<1> QED BY <1>6, <1>7, <1>8, <1>9, <1>10 DEF FioHold

\* FioReady keeps what the lab holds of the world.
LEMMA FioReadyHolds ==
  ASSUME Types, FioHold, FioReady
  PROVE  FioHold'
<1>1. fio.at = "ready" /\ daemon.ready
  BY DEF FioReady, Op, FioOp, FioKilling
<1>2. /\ fio'.at = "script" /\ fio'.child = fio.child /\ fio'.device = Record(daemon.id)
      /\ fio'.step = fio.step + 1 /\ fio'.scenario = fio.scenario /\ fio'.proven = fio.proven
  BY <1>1 DEF FioReady, Types, FioType, FioOK, Advance, Failed, Refuse, Preserve
<1>3. /\ \A k \in Ids : devices'[k].owner = devices[k].owner /\ (devices'[k].known =>
           devices[k].known \/ k = daemon.id)
      /\ daemon' = daemon
      /\ reap' = reap
      /\ deletion' = deletion
      /\ image' = image
  BY DEF FioReady, worldVars, kernelVars, processVars, fileVars, Spawn, NoDaemon, StartDelete,
     AbandonDelete, BeginCleanup, Types, WorldType, KernelType, ProcessType, Device
<1>4. FioOK(fio) /\ FioInScript /\ FioOp # "clear"
  BY <1>1 DEF Types, FioType, FioHold, FioPlaced
<1>5. FioInScript' /\ FioOp \in Ops /\ FioOp' \in Follow[FioOp]
  BY <1>4, <1>2, AdvanceOp
<1>6. daemon.id \in Ids /\ daemon.state # "starting" /\ fio'.device.id = daemon.id
  BY <1>1, <1>2 DEF Types, WorldType, ProcessType, DaemonOK, Record
<1>7. OwnDevices' = OwnDevices
  BY <1>3 DEF OwnDevices
<1>8. FioHeld' /\ FioReap' /\ DeletionPlaced'
  BY <1>1, <1>2, <1>3, <1>5, <1>6
     DEF FioHold, FioHeld, FioReap, DeletionPlaced, FioPlaced, FioRuns, FioLeft, FioBare
<1>9. FioKnown'
  BY <1>1, <1>2, <1>3, <1>5, <1>6, NoneNotId DEF FioHold, FioKnown, FioPlaced, Unrecorded
<1>10. FioPlaced'
  BY <1>1, <1>2, <1>3, <1>5, <1>6, NoneNotId
     DEF FioHold, FioPlaced, FioKnown, FioBare, FioRuns, FioLeft, Follow, RunOps, Ops, Unrecorded
<1>11. FioOwns'
  BY <1>1, <1>2, <1>3, <1>5, <1>6, <1>7, NoneNotId
     DEF FioHold, FioOwns, OwnDevices, FioPlaced, FioBare, Unrecorded
<1>12. InUse' => image'
  BY <1>1, <1>2, <1>3, <1>5, <1>6 DEF FioHold, InUse, FioPlaced, Alive
<1> QED BY <1>8, <1>9, <1>10, <1>11, <1>12 DEF FioHold

\* FioRun keeps what the lab holds of the world.
LEMMA FioRunHolds ==
  ASSUME Types, FioHold, NEW identity \in Identities, FioRun(identity)
  PROVE  FioHold'
<1>1. CASE identity = "Matching"
  <2>1. fio.at = "script" /\ FioOp = "fio"
    BY <1>1 DEF FioRun, Op, FioOp, FioKilling
  <2>2. /\ fio'.at = "script" /\ fio'.child = fio.child /\ fio'.device = fio.device
        /\ fio'.step = fio.step + 1 /\ fio'.scenario = fio.scenario /\ fio'.proven = fio.proven
    BY <2>1, <1>1 DEF FioRun, Types, FioType, FioOK, Advance, Failed, Refuse, Preserve
  <2>3. /\ devices' = devices
        /\ daemon' = daemon
        /\ reap' = reap
        /\ deletion' = deletion
        /\ image' = image
    BY <1>1 DEF FioRun, worldVars, kernelVars, processVars, fileVars, Spawn, NoDaemon, StartDelete,
       AbandonDelete, BeginCleanup, Types, WorldType, KernelType, ProcessType, Device
  <2>4. FioOK(fio) /\ FioInScript /\ FioOp # "clear"
    BY <2>1 DEF Types, FioType, FioHold, FioPlaced
  <2>5. FioInScript' /\ FioOp \in Ops /\ FioOp' \in Follow[FioOp]
    BY <2>4, <2>2, AdvanceOp
  <2>6. OwnDevices' = OwnDevices
    BY <2>3 DEF OwnDevices
  <2>7. FioHeld' /\ FioReap' /\ DeletionPlaced'
    BY <2>1, <2>2, <2>3, <2>5
       DEF FioHold, FioHeld, FioReap, DeletionPlaced, FioPlaced, FioRuns, FioLeft, FioBare
  <2>8. FioKnown'
    BY <2>1, <2>2, <2>3, <2>5, NoneNotId DEF FioHold, FioKnown, FioPlaced, Unrecorded
  <2>9. FioPlaced'
    BY <2>1, <2>2, <2>3, <2>5, NoneNotId
       DEF FioHold, FioPlaced, FioKnown, FioBare, FioRuns, FioLeft, Follow, RunOps, Ops, Unrecorded
  <2>10. FioOwns'
    BY <2>1, <2>2, <2>3, <2>5, <2>6, NoneNotId
       DEF FioHold, FioOwns, OwnDevices, FioPlaced, FioBare, Unrecorded
  <2>11. InUse' => image'
    BY <2>1, <2>2, <2>3, <2>5 DEF FioHold, InUse, FioPlaced, Alive
  <2> QED BY <2>7, <2>8, <2>9, <2>10, <2>11 DEF FioHold
<1>2. CASE identity # "Matching"
  <2>1. fio.at = "script"
    BY <1>2 DEF FioRun, Op, FioOp, FioKilling
  <2>2. /\ fio'.at = "failed" /\ fio'.child = fio.child /\ fio'.device = fio.device
        /\ fio'.step = fio.step /\ fio'.scenario = fio.scenario /\ fio'.proven = fio.proven
    BY <2>1, <1>2 DEF FioRun, Types, FioType, FioOK, Advance, Failed, Refuse, Preserve
  <2>3. /\ devices' = devices
        /\ daemon' = daemon
        /\ reap' = reap
        /\ deletion' = deletion
        /\ image' = image
    BY <1>2 DEF FioRun, worldVars, kernelVars, processVars, fileVars, Spawn, NoDaemon, StartDelete,
       AbandonDelete, BeginCleanup, Types, WorldType, KernelType, ProcessType, Device
  <2>4. OwnDevices' = OwnDevices
    BY <2>3 DEF OwnDevices
  <2>5. FioHeld' /\ FioReap' /\ DeletionPlaced'
    BY <2>1, <2>2, <2>3 DEF FioHold, FioHeld, FioReap, DeletionPlaced, FioPlaced, FioRuns, FioLeft,
       FioBare
  <2>6. FioKnown'
    BY <2>1, <2>2, <2>3, NoneNotId DEF FioHold, FioKnown, FioPlaced, Unrecorded
  <2>7. FioPlaced'
    BY <2>1, <2>2, <2>3, NoneNotId
       DEF FioHold, FioPlaced, FioKnown, FioBare, FioRuns, FioLeft, Follow, RunOps, Ops, Unrecorded
  <2>8. FioOwns'
    BY <2>1, <2>2, <2>3, <2>4, NoneNotId
       DEF FioHold, FioOwns, OwnDevices, FioPlaced, FioBare, Unrecorded
  <2>9. InUse' => image'
    BY <2>1, <2>2, <2>3 DEF FioHold, InUse, FioPlaced, Alive
  <2> QED BY <2>5, <2>6, <2>7, <2>8, <2>9 DEF FioHold
<1> QED BY <1>1, <1>2

\* FioLock keeps what the lab holds of the world.
LEMMA FioLockHolds ==
  ASSUME Types, FioHold, FioLock
  PROVE  FioHold'
<1>1. fio.at = "script" /\ FioOp = "lock"
  BY DEF FioLock, Op, FioOp, FioKilling
<1>2. /\ fio'.at = "locking" /\ fio'.child = fio.child /\ fio'.device = fio.device
      /\ fio'.step = fio.step /\ fio'.scenario = fio.scenario /\ fio'.proven = fio.proven
  BY <1>1 DEF FioLock, Types, FioType, FioOK, Advance, Failed, Refuse, Preserve, Op
<1>3. /\ devices' = devices
      /\ daemon' = daemon
      /\ reap' = reap
      /\ deletion' = deletion
      /\ image' = image
  BY DEF FioLock, worldVars, kernelVars, processVars, fileVars, Spawn, NoDaemon, StartDelete,
     AbandonDelete, BeginCleanup, Types, WorldType, KernelType, ProcessType, Device
<1>5. FioInScript' = FioInScript /\ FioOp' = FioOp
  BY <1>2, SameOp
<1>6. OwnDevices' = OwnDevices
  BY <1>3 DEF OwnDevices
<1>7. FioHeld' /\ FioReap' /\ DeletionPlaced'
  BY <1>1, <1>2, <1>3, <1>5
     DEF FioHold, FioHeld, FioReap, DeletionPlaced, FioPlaced, FioRuns, FioLeft, FioBare
<1>8. FioKnown'
  BY <1>1, <1>2, <1>3, <1>5, NoneNotId DEF FioHold, FioKnown, FioPlaced, Unrecorded
<1>9. FioPlaced'
  BY <1>1, <1>2, <1>3, <1>5, NoneNotId
     DEF FioHold, FioPlaced, FioKnown, FioBare, FioRuns, FioLeft, Follow, RunOps, Ops, Unrecorded
<1>10. FioOwns'
  BY <1>1, <1>2, <1>3, <1>5, <1>6, NoneNotId
     DEF FioHold, FioOwns, OwnDevices, FioPlaced, FioBare, Unrecorded
<1>11. InUse' => image'
  BY <1>1, <1>2, <1>3, <1>5 DEF FioHold, InUse, FioPlaced, Alive
<1> QED BY <1>7, <1>8, <1>9, <1>10, <1>11 DEF FioHold

\* FioLockProven keeps what the lab holds of the world.
LEMMA FioLockProvenHolds ==
  ASSUME Types, FioHold, FioLockProven
  PROVE  FioHold'
<1>1. fio.at = "locking" /\ FioOp = "lock"
  BY DEF FioLockProven, FioHold, FioPlaced
<1>2. /\ fio'.at = "script" /\ fio'.child = fio.child /\ fio'.device = fio.device
      /\ fio'.step = fio.step /\ fio'.scenario = fio.scenario /\ fio'.proven = TRUE
  BY <1>1 DEF FioLockProven, Types, FioType, FioOK, Advance, Failed, Refuse, Preserve, Op
<1>3. /\ devices' = devices
      /\ daemon' = daemon
      /\ reap' = reap
      /\ deletion' = deletion
      /\ image' = image
  BY DEF FioLockProven, worldVars, kernelVars, processVars, fileVars, Spawn, NoDaemon, StartDelete,
     AbandonDelete, BeginCleanup, Types, WorldType, KernelType, ProcessType, Device
<1>4. FioOK(fio) /\ FioInScript
  BY <1>1 DEF Types, FioType, FioHold, FioPlaced
<1>5. FioInScript' /\ FioOp' = "stop"
  BY <1>4, <1>1, <1>2, LockOp
<1>6. OwnDevices' = OwnDevices
  BY <1>3 DEF OwnDevices
<1>7. FioHeld' /\ FioReap' /\ DeletionPlaced'
  BY <1>1, <1>2, <1>3, <1>5
     DEF FioHold, FioHeld, FioReap, DeletionPlaced, FioPlaced, FioRuns, FioLeft, FioBare
<1>8. FioKnown'
  BY <1>1, <1>2, <1>3, <1>5, NoneNotId DEF FioHold, FioKnown, FioPlaced, Unrecorded
<1>9. FioPlaced'
  BY <1>1, <1>2, <1>3, <1>5, NoneNotId
     DEF FioHold, FioPlaced, FioKnown, FioBare, FioRuns, FioLeft, Follow, RunOps, Ops, Unrecorded
<1>10. FioOwns'
  BY <1>1, <1>2, <1>3, <1>5, <1>6, NoneNotId
     DEF FioHold, FioOwns, OwnDevices, FioPlaced, FioBare, Unrecorded
<1>11. InUse' => image'
  BY <1>1, <1>2, <1>3, <1>5 DEF FioHold, InUse, FioPlaced, Alive
<1> QED BY <1>7, <1>8, <1>9, <1>10, <1>11 DEF FioHold

\* FioLockLost keeps what the lab holds of the world.
LEMMA FioLockLostHolds ==
  ASSUME Types, FioHold, NEW reaped \in BOOLEAN, FioLockLost(reaped)
  PROVE  FioHold'
<1>1. fio.at = "locking"
  BY DEF FioLockLost, Op, FioOp, FioKilling
<1>2. /\ fio'.at = "failed" /\ fio'.child = fio.child /\ fio'.device = fio.device
      /\ fio'.step = fio.step /\ fio'.scenario = fio.scenario /\ fio'.proven = fio.proven
  BY <1>1 DEF FioLockLost, Types, FioType, FioOK, Advance, Failed, Refuse, Preserve
<1>3. /\ devices' = devices
      /\ daemon' = daemon
      /\ reap' = reap
      /\ deletion' = deletion
      /\ image' = image
  BY DEF FioLockLost, worldVars, kernelVars, processVars, fileVars, Spawn, NoDaemon, StartDelete,
     AbandonDelete, BeginCleanup, Types, WorldType, KernelType, ProcessType, Device
<1>4. FioHeld' /\ FioReap' /\ DeletionPlaced'
  BY <1>1, <1>2, <1>3 DEF FioHold, FioHeld, FioReap, DeletionPlaced, FioPlaced, FioRuns, FioLeft,
     FioBare
<1>5. FioKnown'
  BY <1>1, <1>2, <1>3, NoneNotId DEF FioHold, FioKnown, FioPlaced, Unrecorded
<1>6. FioPlaced'
  BY <1>1, <1>2, <1>3, NoneNotId
     DEF FioHold, FioPlaced, FioKnown, FioBare, FioRuns, FioLeft, Follow, RunOps, Ops, Unrecorded
<1>7. FioOwns'
  BY <1>1, <1>2, <1>3, NoneNotId DEF FioHold, FioOwns, OwnDevices, FioPlaced, FioBare, Unrecorded
<1>8. InUse' => image'
  BY <1>1, <1>2, <1>3 DEF FioHold, InUse, FioPlaced, Alive
<1> QED BY <1>4, <1>5, <1>6, <1>7, <1>8 DEF FioHold

\* FioSignal keeps what the lab holds of the world.
LEMMA FioSignalHolds ==
  ASSUME Types, FioHold, FioSignal
  PROVE  FioHold'
<1>1. CASE Op("stop") /\ Signal("TERM") /\ fio' = [fio EXCEPT !.at = "exit"]
  <2>1. fio.at = "script" /\ FioOp = "stop"
    BY <1>1 DEF FioSignal, Op, FioOp, FioKilling
  <2>2. /\ fio'.at = "exit" /\ fio'.child = fio.child /\ fio'.device = fio.device
        /\ fio'.step = fio.step /\ fio'.scenario = fio.scenario /\ fio'.proven = fio.proven
    BY <2>1, <1>1 DEF FioSignal, Types, FioType, FioOK, Advance, Failed, Refuse, Preserve
  <2>3. /\ devices' = devices
        /\ daemon'.state = daemon.state
        /\ daemon = NoDaemon => daemon' = NoDaemon
        /\ Alive' = Alive
        /\ reap' = reap
        /\ deletion' = deletion
        /\ image' = image
    BY <1>1, SignalKeeps DEF FioSignal, worldVars, kernelVars, processVars, fileVars, Spawn,
       NoDaemon, StartDelete, AbandonDelete, BeginCleanup, Types, WorldType, KernelType,
       ProcessType, Device
  <2>4. FioInScript' = FioInScript /\ FioOp' = FioOp
    BY <2>2, SameOp
  <2>5. OwnDevices' = OwnDevices
    BY <2>3 DEF OwnDevices
  <2>6. FioHeld' /\ FioReap' /\ DeletionPlaced'
    BY <2>1, <2>2, <2>3, <2>4
       DEF FioHold, FioHeld, FioReap, DeletionPlaced, FioPlaced, FioRuns, FioLeft, FioBare
  <2>7. FioKnown'
    BY <2>1, <2>2, <2>3, <2>4, NoneNotId DEF FioHold, FioKnown, FioPlaced, Unrecorded
  <2>8. FioPlaced'
    BY <2>1, <2>2, <2>3, <2>4, NoneNotId
       DEF FioHold, FioPlaced, FioKnown, FioBare, FioRuns, FioLeft, Follow, RunOps, Ops, Unrecorded
  <2>9. FioOwns'
    BY <2>1, <2>2, <2>3, <2>4, <2>5, NoneNotId
       DEF FioHold, FioOwns, OwnDevices, FioPlaced, FioBare, Unrecorded
  <2>10. InUse' => image'
    BY <2>1, <2>2, <2>3, <2>4 DEF FioHold, InUse, FioPlaced, Alive
  <2> QED BY <2>6, <2>7, <2>8, <2>9, <2>10 DEF FioHold
<1>2. CASE Op("kill") /\ Signal("KILL") /\ fio' = [fio EXCEPT !.at = "exit"]
  <2>1. fio.at = "script" /\ FioOp = "kill"
    BY <1>2 DEF FioSignal, Op, FioOp, FioKilling
  <2>2. /\ fio'.at = "exit" /\ fio'.child = fio.child /\ fio'.device = fio.device
        /\ fio'.step = fio.step /\ fio'.scenario = fio.scenario /\ fio'.proven = fio.proven
    BY <2>1, <1>2 DEF FioSignal, Types, FioType, FioOK, Advance, Failed, Refuse, Preserve
  <2>3. /\ devices' = devices
        /\ daemon'.state = daemon.state
        /\ daemon = NoDaemon => daemon' = NoDaemon
        /\ Alive' = Alive
        /\ reap' = reap
        /\ deletion' = deletion
        /\ image' = image
    BY <1>2, SignalKeeps DEF FioSignal, worldVars, kernelVars, processVars, fileVars, Spawn,
       NoDaemon, StartDelete, AbandonDelete, BeginCleanup, Types, WorldType, KernelType,
       ProcessType, Device
  <2>4. FioInScript' = FioInScript /\ FioOp' = FioOp
    BY <2>2, SameOp
  <2>5. OwnDevices' = OwnDevices
    BY <2>3 DEF OwnDevices
  <2>6. FioHeld' /\ FioReap' /\ DeletionPlaced'
    BY <2>1, <2>2, <2>3, <2>4
       DEF FioHold, FioHeld, FioReap, DeletionPlaced, FioPlaced, FioRuns, FioLeft, FioBare
  <2>7. FioKnown'
    BY <2>1, <2>2, <2>3, <2>4, NoneNotId DEF FioHold, FioKnown, FioPlaced, Unrecorded
  <2>8. FioPlaced'
    BY <2>1, <2>2, <2>3, <2>4, NoneNotId
       DEF FioHold, FioPlaced, FioKnown, FioBare, FioRuns, FioLeft, Follow, RunOps, Ops, Unrecorded
  <2>9. FioOwns'
    BY <2>1, <2>2, <2>3, <2>4, <2>5, NoneNotId
       DEF FioHold, FioOwns, OwnDevices, FioPlaced, FioBare, Unrecorded
  <2>10. InUse' => image'
    BY <2>1, <2>2, <2>3, <2>4 DEF FioHold, InUse, FioPlaced, Alive
  <2> QED BY <2>6, <2>7, <2>8, <2>9, <2>10 DEF FioHold
<1>3. CASE Op("terminate") /\ Signal("TERM") /\ fio' = Advance(fio)
  <2>1. fio.at = "script" /\ FioOp = "terminate"
    BY <1>3 DEF FioSignal, Op, FioOp, FioKilling
  <2>2. /\ fio'.at = "script" /\ fio'.child = fio.child /\ fio'.device = fio.device
        /\ fio'.step = fio.step + 1 /\ fio'.scenario = fio.scenario /\ fio'.proven = fio.proven
    BY <2>1, <1>3 DEF FioSignal, Types, FioType, FioOK, Advance, Failed, Refuse, Preserve
  <2>3. /\ devices' = devices
        /\ daemon'.state = daemon.state
        /\ daemon = NoDaemon => daemon' = NoDaemon
        /\ Alive' = Alive
        /\ reap' = reap
        /\ deletion' = deletion
        /\ image' = image
    BY <1>3, SignalKeeps DEF FioSignal, worldVars, kernelVars, processVars, fileVars, Spawn,
       NoDaemon, StartDelete, AbandonDelete, BeginCleanup, Types, WorldType, KernelType,
       ProcessType, Device
  <2>4. FioOK(fio) /\ FioInScript /\ FioOp # "clear"
    BY <2>1 DEF Types, FioType, FioHold, FioPlaced
  <2>5. FioInScript' /\ FioOp \in Ops /\ FioOp' \in Follow[FioOp]
    BY <2>4, <2>2, AdvanceOp
  <2>6. OwnDevices' = OwnDevices
    BY <2>3 DEF OwnDevices
  <2>7. FioHeld' /\ FioReap' /\ DeletionPlaced'
    BY <2>1, <2>2, <2>3, <2>5
       DEF FioHold, FioHeld, FioReap, DeletionPlaced, FioPlaced, FioRuns, FioLeft, FioBare
  <2>8. FioKnown'
    BY <2>1, <2>2, <2>3, <2>5, NoneNotId DEF FioHold, FioKnown, FioPlaced, Unrecorded
  <2>9. FioPlaced'
    BY <2>1, <2>2, <2>3, <2>5, NoneNotId
       DEF FioHold, FioPlaced, FioKnown, FioBare, FioRuns, FioLeft, Follow, RunOps, Ops, Unrecorded
  <2>10. FioOwns'
    BY <2>1, <2>2, <2>3, <2>5, <2>6, NoneNotId
       DEF FioHold, FioOwns, OwnDevices, FioPlaced, FioBare, Unrecorded
  <2>11. InUse' => image'
    BY <2>1, <2>2, <2>3, <2>5 DEF FioHold, InUse, FioPlaced, Alive
  <2> QED BY <2>7, <2>8, <2>9, <2>10, <2>11 DEF FioHold
<1> QED BY <1>1, <1>2, <1>3 DEF FioSignal

\* FioExited keeps what the lab holds of the world.
LEMMA FioExitedHolds ==
  ASSUME Types, FioHold, FioExited
  PROVE  FioHold'
<1>1. fio.at = "exit"
  BY DEF FioExited, Op, FioOp, FioKilling
<1>2. /\ fio'.at = "reap" /\ fio'.child = fio.child /\ fio'.device = fio.device
      /\ fio'.step = fio.step /\ fio'.scenario = fio.scenario /\ fio'.proven = fio.proven
  BY <1>1 DEF FioExited, Types, FioType, FioOK, Advance, Failed, Refuse, Preserve
<1>3. /\ devices' = devices
      /\ daemon'.state = daemon.state
      /\ daemon = NoDaemon => daemon' = NoDaemon
      /\ Alive' = Alive
      /\ reap' = "grace"
      /\ deletion' = deletion
      /\ image' = image
  BY SignalKeeps DEF FioExited, worldVars, kernelVars, processVars, fileVars, Spawn, NoDaemon,
     StartDelete, AbandonDelete, BeginCleanup, Types, WorldType, KernelType, ProcessType, Device
<1>4. FioInScript' = FioInScript /\ FioOp' = FioOp
  BY <1>2, SameOp
<1>5. OwnDevices' = OwnDevices
  BY <1>3 DEF OwnDevices
<1>6. FioHeld' /\ FioReap' /\ DeletionPlaced'
  BY <1>1, <1>2, <1>3, <1>4
     DEF FioHold, FioHeld, FioReap, DeletionPlaced, FioPlaced, FioRuns, FioLeft, FioBare
<1>7. FioKnown'
  BY <1>1, <1>2, <1>3, <1>4, NoneNotId DEF FioHold, FioKnown, FioPlaced, Unrecorded
<1>8. FioPlaced'
  BY <1>1, <1>2, <1>3, <1>4, NoneNotId
     DEF FioHold, FioPlaced, FioKnown, FioBare, FioRuns, FioLeft, Follow, RunOps, Ops, Unrecorded
<1>9. FioOwns'
  BY <1>1, <1>2, <1>3, <1>4, <1>5, NoneNotId
     DEF FioHold, FioOwns, OwnDevices, FioPlaced, FioBare, Unrecorded
<1>10. InUse' => image'
  BY <1>1, <1>2, <1>3, <1>4 DEF FioHold, InUse, FioPlaced, Alive
<1> QED BY <1>6, <1>7, <1>8, <1>9, <1>10 DEF FioHold

\* FioReaped keeps what the lab holds of the world.
LEMMA FioReapedHolds ==
  ASSUME Types, FioHold, FioReaped
  PROVE  FioHold'
<1>1. CASE reap = "error"
  <2>1. fio.at = "reap"
    BY <1>1 DEF FioReaped, Op, FioOp, FioKilling
  <2>2. /\ fio'.at = "failed" /\ fio'.child = fio.child /\ fio'.device = fio.device
        /\ fio'.step = fio.step /\ fio'.scenario = fio.scenario /\ fio'.proven = fio.proven
    BY <2>1, <1>1 DEF FioReaped, Types, FioType, FioOK, Advance, Failed, Refuse, Preserve
  <2>3. /\ devices' = devices
        /\ daemon' = daemon
        /\ reap' = "idle"
        /\ deletion' = deletion
        /\ image' = image
    BY <1>1 DEF FioReaped, worldVars, kernelVars, processVars, fileVars, Spawn, NoDaemon,
       StartDelete, AbandonDelete, BeginCleanup, Types, WorldType, KernelType, ProcessType, Device
  <2>4. OwnDevices' = OwnDevices
    BY <2>3 DEF OwnDevices
  <2>5. FioHeld' /\ FioReap' /\ DeletionPlaced'
    BY <2>1, <2>2, <2>3 DEF FioHold, FioHeld, FioReap, DeletionPlaced, FioPlaced, FioRuns, FioLeft,
       FioBare
  <2>6. FioKnown'
    BY <2>1, <2>2, <2>3, NoneNotId DEF FioHold, FioKnown, FioPlaced, Unrecorded
  <2>7. FioPlaced'
    BY <2>1, <2>2, <2>3, NoneNotId
       DEF FioHold, FioPlaced, FioKnown, FioBare, FioRuns, FioLeft, Follow, RunOps, Ops, Unrecorded
  <2>8. FioOwns'
    BY <2>1, <2>2, <2>3, <2>4, NoneNotId
       DEF FioHold, FioOwns, OwnDevices, FioPlaced, FioBare, Unrecorded
  <2>9. InUse' => image'
    BY <2>1, <2>2, <2>3 DEF FioHold, InUse, FioPlaced, Alive
  <2> QED BY <2>5, <2>6, <2>7, <2>8, <2>9 DEF FioHold
<1>2. CASE reap # "error" /\ FioKilling
  <2>1. fio.at = "reap" /\ reap = "ok" /\ FioOp = "kill"
    BY <1>2 DEF FioReaped, Op, FioOp, FioKilling
  <2>2. /\ fio'.at = "script" /\ fio'.child = FALSE /\ fio'.device = fio.device
        /\ fio'.step = fio.step + 1 /\ fio'.scenario = fio.scenario /\ fio'.proven = fio.proven
    BY <2>1, <1>2 DEF FioReaped, Types, FioType, FioOK, Advance, Failed, Refuse, Preserve
  <2>3. /\ devices' = devices
        /\ daemon' = daemon
        /\ reap' = "idle"
        /\ deletion' = deletion
        /\ image' = image
    BY <1>2 DEF FioReaped, worldVars, kernelVars, processVars, fileVars, Spawn, NoDaemon,
       StartDelete, AbandonDelete, BeginCleanup, Types, WorldType, KernelType, ProcessType, Device
  <2>4. FioOK(fio) /\ FioInScript /\ FioOp # "clear"
    BY <2>1 DEF Types, FioType, FioHold, FioPlaced
  <2>5. FioInScript' /\ FioOp \in Ops /\ FioOp' \in Follow[FioOp]
    BY <2>4, <2>2, AdvanceOp
  <2>6. OwnDevices' = OwnDevices
    BY <2>3 DEF OwnDevices
  <2>7. FioHeld' /\ FioReap' /\ DeletionPlaced'
    BY <2>1, <2>2, <2>3, <2>5
       DEF FioHold, FioHeld, FioReap, DeletionPlaced, FioPlaced, FioRuns, FioLeft, FioBare
  <2>8. FioKnown'
    BY <2>1, <2>2, <2>3, <2>5, NoneNotId DEF FioHold, FioKnown, FioPlaced, Unrecorded
  <2>9. FioPlaced'
    BY <2>1, <2>2, <2>3, <2>5, NoneNotId
       DEF FioHold, FioPlaced, FioKnown, FioBare, FioRuns, FioLeft, Follow, RunOps, Ops, Unrecorded
  <2>10. FioOwns'
    BY <2>1, <2>2, <2>3, <2>5, <2>6, NoneNotId
       DEF FioHold, FioOwns, OwnDevices, FioPlaced, FioBare, Unrecorded
  <2>11. InUse' => image'
    BY <2>1, <2>2, <2>3, <2>5 DEF FioHold, InUse, FioPlaced, Alive
  <2> QED BY <2>7, <2>8, <2>9, <2>10, <2>11 DEF FioHold
<1>3. CASE reap # "error" /\ ~FioKilling
  <2>1. fio.at = "reap" /\ reap = "ok" /\ FioOp # "kill"
    BY <1>3 DEF FioReaped, Op, FioOp, FioKilling
  <2>2. /\ fio'.at = "gone" /\ fio'.child = FALSE /\ fio'.device = fio.device
        /\ fio'.step = fio.step /\ fio'.scenario = fio.scenario /\ fio'.proven = fio.proven
    BY <2>1, <1>3 DEF FioReaped, Types, FioType, FioOK, Advance, Failed, Refuse, Preserve
  <2>3. /\ devices' = devices
        /\ daemon' = daemon
        /\ reap' = "idle"
        /\ deletion' = deletion
        /\ image' = image
    BY <1>3 DEF FioReaped, worldVars, kernelVars, processVars, fileVars, Spawn, NoDaemon,
       StartDelete, AbandonDelete, BeginCleanup, Types, WorldType, KernelType, ProcessType, Device
  <2>4. FioInScript' = FioInScript /\ FioOp' = FioOp
    BY <2>2, SameOp
  <2>5. OwnDevices' = OwnDevices
    BY <2>3 DEF OwnDevices
  <2>6. FioHeld' /\ FioReap' /\ DeletionPlaced'
    BY <2>1, <2>2, <2>3, <2>4
       DEF FioHold, FioHeld, FioReap, DeletionPlaced, FioPlaced, FioRuns, FioLeft, FioBare
  <2>7. FioKnown'
    BY <2>1, <2>2, <2>3, <2>4, NoneNotId DEF FioHold, FioKnown, FioPlaced, Unrecorded
  <2>8. FioPlaced'
    BY <2>1, <2>2, <2>3, <2>4, NoneNotId
       DEF FioHold, FioPlaced, FioKnown, FioBare, FioRuns, FioLeft, Follow, RunOps, Ops, Unrecorded
  <2>9. FioOwns'
    BY <2>1, <2>2, <2>3, <2>4, <2>5, NoneNotId
       DEF FioHold, FioOwns, OwnDevices, FioPlaced, FioBare, Unrecorded
  <2>10. InUse' => image'
    BY <2>1, <2>2, <2>3, <2>4 DEF FioHold, InUse, FioPlaced, Alive
  <2> QED BY <2>6, <2>7, <2>8, <2>9, <2>10 DEF FioHold
<1> QED BY <1>1, <1>2, <1>3

\* FioGone keeps what the lab holds of the world.
LEMMA FioGoneHolds ==
  ASSUME Types, FioHold, FioGone
  PROVE  FioHold'
<1>1. fio.at = "gone"
  BY DEF FioGone, Op, FioOp, FioKilling
<1>2. /\ fio'.at = "script" /\ fio'.child = fio.child /\ fio'.device = Unrecorded
      /\ fio'.step = fio.step + 1 /\ fio'.scenario = fio.scenario /\ fio'.proven = fio.proven
  BY <1>1 DEF FioGone, Types, FioType, FioOK, Advance, Failed, Refuse, Preserve
<1>3. /\ devices' = devices
      /\ daemon' = daemon
      /\ reap' = reap
      /\ deletion' = deletion
      /\ image' = image
  BY DEF FioGone, worldVars, kernelVars, processVars, fileVars, Spawn, NoDaemon, StartDelete,
     AbandonDelete, BeginCleanup, Types, WorldType, KernelType, ProcessType, Device
<1>4. FioOK(fio) /\ FioInScript /\ FioOp # "clear"
  BY <1>1 DEF Types, FioType, FioHold, FioPlaced
<1>5. FioInScript' /\ FioOp \in Ops /\ FioOp' \in Follow[FioOp]
  BY <1>4, <1>2, AdvanceOp
<1>6. devices[fio.device.id].owner # "lab" /\ ~devices[fio.device.id].known
  BY DEF FioGone, NoDevice
<1>7. OwnDevices' = OwnDevices
  BY <1>3 DEF OwnDevices
<1>8. FioHeld' /\ FioReap' /\ DeletionPlaced'
  BY <1>1, <1>2, <1>3, <1>5, <1>6
     DEF FioHold, FioHeld, FioReap, DeletionPlaced, FioPlaced, FioRuns, FioLeft, FioBare
<1>9. FioKnown'
  BY <1>1, <1>2, <1>3, <1>5, <1>6, NoneNotId DEF FioHold, FioKnown, FioPlaced, Unrecorded
<1>10. FioPlaced'
  BY <1>1, <1>2, <1>3, <1>5, <1>6, NoneNotId
     DEF FioHold, FioPlaced, FioKnown, FioBare, FioRuns, FioLeft, Follow, RunOps, Ops, Unrecorded
<1>11. FioOwns'
  BY <1>1, <1>2, <1>3, <1>5, <1>6, <1>7, NoneNotId
     DEF FioHold, FioOwns, OwnDevices, FioPlaced, FioBare, Unrecorded
<1>12. InUse' => image'
  BY <1>1, <1>2, <1>3, <1>5, <1>6 DEF FioHold, InUse, FioPlaced, Alive
<1> QED BY <1>8, <1>9, <1>10, <1>11, <1>12 DEF FioHold

\* FioHandshake keeps what the lab holds of the world.
LEMMA FioHandshakeHolds ==
  ASSUME Types, FioHold, FioHandshake
  PROVE  FioHold'
<1>1. fio.at = "script" /\ FioOp = "handshake"
  BY DEF FioHandshake, Op, FioOp, FioKilling
<1>2. /\ fio'.at = "script" /\ fio'.child = fio.child /\ fio'.device = fio.device
      /\ fio'.step = fio.step + 1 /\ fio'.scenario = fio.scenario /\ fio'.proven = fio.proven
  BY <1>1 DEF FioHandshake, Types, FioType, FioOK, Advance, Failed, Refuse, Preserve
<1>3. /\ devices' = devices
      /\ daemon' = daemon
      /\ reap' = reap
      /\ deletion' = deletion
      /\ image' = image
  BY DEF FioHandshake, worldVars, kernelVars, processVars, fileVars, Spawn, NoDaemon, StartDelete,
     AbandonDelete, BeginCleanup, Types, WorldType, KernelType, ProcessType, Device
<1>4. FioOK(fio) /\ FioInScript /\ FioOp # "clear"
  BY <1>1 DEF Types, FioType, FioHold, FioPlaced
<1>5. FioInScript' /\ FioOp \in Ops /\ FioOp' \in Follow[FioOp]
  BY <1>4, <1>2, AdvanceOp
<1>6. OwnDevices' = OwnDevices
  BY <1>3 DEF OwnDevices
<1>7. FioHeld' /\ FioReap' /\ DeletionPlaced'
  BY <1>1, <1>2, <1>3, <1>5
     DEF FioHold, FioHeld, FioReap, DeletionPlaced, FioPlaced, FioRuns, FioLeft, FioBare
<1>8. FioKnown'
  BY <1>1, <1>2, <1>3, <1>5, NoneNotId DEF FioHold, FioKnown, FioPlaced, Unrecorded
<1>9. FioPlaced'
  BY <1>1, <1>2, <1>3, <1>5, NoneNotId
     DEF FioHold, FioPlaced, FioKnown, FioBare, FioRuns, FioLeft, Follow, RunOps, Ops, Unrecorded
<1>10. FioOwns'
  BY <1>1, <1>2, <1>3, <1>5, <1>6, NoneNotId
     DEF FioHold, FioOwns, OwnDevices, FioPlaced, FioBare, Unrecorded
<1>11. InUse' => image'
  BY <1>1, <1>2, <1>3, <1>5 DEF FioHold, InUse, FioPlaced, Alive
<1> QED BY <1>7, <1>8, <1>9, <1>10, <1>11 DEF FioHold

\* FioIdentity keeps what the lab holds of the world.
LEMMA FioIdentityHolds ==
  ASSUME Types, FioHold, NEW identity \in Identities, FioIdentity(identity)
  PROVE  FioHold'
<1>1. CASE identity = "Absent"
  <2>1. fio.at = "script" /\ FioOp = "remove"
    BY <1>1 DEF FioIdentity, Op, FioOp, FioKilling
  <2>2. /\ fio'.at = "script" /\ fio'.child = fio.child /\ fio'.device = Unrecorded
        /\ fio'.step = fio.step + 1 /\ fio'.scenario = fio.scenario /\ fio'.proven = fio.proven
    BY <2>1, <1>1 DEF FioIdentity, Types, FioType, FioOK, Advance, Failed, Refuse, Preserve
  <2>3. /\ devices' = devices
        /\ daemon' = daemon
        /\ reap' = reap
        /\ deletion' = deletion
        /\ image' = image
    BY <1>1 DEF FioIdentity, worldVars, kernelVars, processVars, fileVars, Spawn, NoDaemon,
       StartDelete, AbandonDelete, BeginCleanup, Types, WorldType, KernelType, ProcessType, Device
  <2>4. FioOK(fio) /\ FioInScript /\ FioOp # "clear"
    BY <2>1 DEF Types, FioType, FioHold, FioPlaced
  <2>5. FioInScript' /\ FioOp \in Ops /\ FioOp' \in Follow[FioOp]
    BY <2>4, <2>2, AdvanceOp
  <2>6. devices[fio.device.id].state = "absent" /\ fio.device.id \in Ids
    BY <2>1, <1>1, ClassifyFacts DEF FioIdentity, Types, FioType, FioOK, FioHold, FioPlaced, FioLeft
  <2>7. devices[fio.device.id].owner # "lab" /\ ~devices[fio.device.id].known
    BY <2>6 DEF Types, WorldType, KernelType, DeviceOK, NoDevice
  <2>8. OwnDevices' = OwnDevices
    BY <2>3 DEF OwnDevices
  <2>9. FioHeld' /\ FioReap' /\ DeletionPlaced'
    BY <2>1, <2>2, <2>3, <2>5, <2>7
       DEF FioHold, FioHeld, FioReap, DeletionPlaced, FioPlaced, FioRuns, FioLeft, FioBare
  <2>10. FioKnown'
    BY <2>1, <2>2, <2>3, <2>5, <2>7, NoneNotId DEF FioHold, FioKnown, FioPlaced, Unrecorded
  <2>11. FioPlaced'
    BY <2>1, <2>2, <2>3, <2>5, <2>7, NoneNotId
       DEF FioHold, FioPlaced, FioKnown, FioBare, FioRuns, FioLeft, Follow, RunOps, Ops, Unrecorded
  <2>12. FioOwns'
    BY <2>1, <2>2, <2>3, <2>5, <2>7, <2>8, NoneNotId
       DEF FioHold, FioOwns, OwnDevices, FioPlaced, FioBare, Unrecorded
  <2>13. InUse' => image'
    BY <2>1, <2>2, <2>3, <2>5, <2>7 DEF FioHold, InUse, FioPlaced, Alive
  <2> QED BY <2>9, <2>10, <2>11, <2>12, <2>13 DEF FioHold
<1>2. CASE identity \in {"Matching", "StoppedMatching"}
  <2>1. fio.at = "script" /\ FioOp = "remove"
    BY <1>2 DEF FioIdentity, Op, FioOp, FioKilling
  <2>2. /\ fio'.at = "delete" /\ fio'.child = fio.child /\ fio'.device = fio.device
        /\ fio'.step = fio.step /\ fio'.scenario = fio.scenario /\ fio'.proven = fio.proven
    BY <2>1, <1>2 DEF FioIdentity, Types, FioType, FioOK, Advance, Failed, Refuse, Preserve
  <2>3. /\ devices' = devices
        /\ daemon' = daemon
        /\ reap' = reap
        /\ deletion' = deletion
        /\ image' = image
    BY <1>2 DEF FioIdentity, worldVars, kernelVars, processVars, fileVars, Spawn, NoDaemon,
       StartDelete, AbandonDelete, BeginCleanup, Types, WorldType, KernelType, ProcessType, Device
  <2>4. FioInScript' = FioInScript /\ FioOp' = FioOp
    BY <2>2, SameOp
  <2>5. OwnDevices' = OwnDevices
    BY <2>3 DEF OwnDevices
  <2>6. FioHeld' /\ FioReap' /\ DeletionPlaced'
    BY <2>1, <2>2, <2>3, <2>4
       DEF FioHold, FioHeld, FioReap, DeletionPlaced, FioPlaced, FioRuns, FioLeft, FioBare
  <2>7. FioKnown'
    BY <2>1, <2>2, <2>3, <2>4, NoneNotId DEF FioHold, FioKnown, FioPlaced, Unrecorded
  <2>8. FioPlaced'
    BY <2>1, <2>2, <2>3, <2>4, NoneNotId
       DEF FioHold, FioPlaced, FioKnown, FioBare, FioRuns, FioLeft, Follow, RunOps, Ops, Unrecorded
  <2>9. FioOwns'
    BY <2>1, <2>2, <2>3, <2>4, <2>5, NoneNotId
       DEF FioHold, FioOwns, OwnDevices, FioPlaced, FioBare, Unrecorded
  <2>10. InUse' => image'
    BY <2>1, <2>2, <2>3, <2>4 DEF FioHold, InUse, FioPlaced, Alive
  <2> QED BY <2>6, <2>7, <2>8, <2>9, <2>10 DEF FioHold
<1>3. CASE identity \notin {"Absent", "Matching", "StoppedMatching"}
  <2>1. fio.at = "script"
    BY <1>3 DEF FioIdentity, Op, FioOp, FioKilling
  <2>2. /\ fio'.at = "failed" /\ fio'.child = fio.child /\ fio'.device = fio.device
        /\ fio'.step = fio.step /\ fio'.scenario = fio.scenario /\ fio'.proven = fio.proven
    BY <2>1, <1>3 DEF FioIdentity, Types, FioType, FioOK, Advance, Failed, Refuse, Preserve
  <2>3. /\ devices' = devices
        /\ daemon' = daemon
        /\ reap' = reap
        /\ deletion' = deletion
        /\ image' = image
    BY <1>3 DEF FioIdentity, worldVars, kernelVars, processVars, fileVars, Spawn, NoDaemon,
       StartDelete, AbandonDelete, BeginCleanup, Types, WorldType, KernelType, ProcessType, Device
  <2>4. OwnDevices' = OwnDevices
    BY <2>3 DEF OwnDevices
  <2>5. FioHeld' /\ FioReap' /\ DeletionPlaced'
    BY <2>1, <2>2, <2>3 DEF FioHold, FioHeld, FioReap, DeletionPlaced, FioPlaced, FioRuns, FioLeft,
       FioBare
  <2>6. FioKnown'
    BY <2>1, <2>2, <2>3, NoneNotId DEF FioHold, FioKnown, FioPlaced, Unrecorded
  <2>7. FioPlaced'
    BY <2>1, <2>2, <2>3, NoneNotId
       DEF FioHold, FioPlaced, FioKnown, FioBare, FioRuns, FioLeft, Follow, RunOps, Ops, Unrecorded
  <2>8. FioOwns'
    BY <2>1, <2>2, <2>3, <2>4, NoneNotId
       DEF FioHold, FioOwns, OwnDevices, FioPlaced, FioBare, Unrecorded
  <2>9. InUse' => image'
    BY <2>1, <2>2, <2>3 DEF FioHold, InUse, FioPlaced, Alive
  <2> QED BY <2>5, <2>6, <2>7, <2>8, <2>9 DEF FioHold
<1> QED BY <1>1, <1>2, <1>3

\* FioDelete keeps what the lab holds of the world.
LEMMA FioDeleteHolds ==
  ASSUME Types, FioHold, NEW identity \in Identities, FioDelete(identity)
  PROVE  FioHold'
<1>1. CASE identity \in {"Matching", "StoppedMatching"}
  <2>1. fio.at = "delete"
    BY <1>1 DEF FioDelete, Op, FioOp, FioKilling
  <2>2. /\ fio'.at = "deleting" /\ fio'.child = fio.child /\ fio'.device = fio.device
        /\ fio'.step = fio.step /\ fio'.scenario = fio.scenario /\ fio'.proven = fio.proven
    BY <2>1, <1>1 DEF FioDelete, Types, FioType, FioOK, Advance, Failed, Refuse, Preserve
  <2>3. /\ devices' = devices
        /\ daemon' = daemon
        /\ reap' = reap
        /\ deletion'.id = fio.device.id
        /\ image' = image
    BY <1>1 DEF FioDelete, worldVars, kernelVars, processVars, fileVars, Spawn, NoDaemon,
       StartDelete, AbandonDelete, BeginCleanup, Types, WorldType, KernelType, ProcessType, Device
  <2>4. FioInScript' = FioInScript /\ FioOp' = FioOp
    BY <2>2, SameOp
  <2>5. OwnDevices' = OwnDevices
    BY <2>3 DEF OwnDevices
  <2>6. FioHeld' /\ FioReap' /\ DeletionPlaced'
    BY <2>1, <2>2, <2>3, <2>4
       DEF FioHold, FioHeld, FioReap, DeletionPlaced, FioPlaced, FioRuns, FioLeft, FioBare
  <2>7. FioKnown'
    BY <2>1, <2>2, <2>3, <2>4, NoneNotId DEF FioHold, FioKnown, FioPlaced, Unrecorded
  <2>8. FioPlaced'
    BY <2>1, <2>2, <2>3, <2>4, NoneNotId
       DEF FioHold, FioPlaced, FioKnown, FioBare, FioRuns, FioLeft, Follow, RunOps, Ops, Unrecorded
  <2>9. FioOwns'
    BY <2>1, <2>2, <2>3, <2>4, <2>5, NoneNotId
       DEF FioHold, FioOwns, OwnDevices, FioPlaced, FioBare, Unrecorded
  <2>10. InUse' => image'
    BY <2>1, <2>2, <2>3, <2>4 DEF FioHold, InUse, FioPlaced, Alive
  <2> QED BY <2>6, <2>7, <2>8, <2>9, <2>10 DEF FioHold
<1>2. CASE identity \notin {"Matching", "StoppedMatching"}
  <2>1. fio.at = "delete"
    BY <1>2 DEF FioDelete, Op, FioOp, FioKilling
  <2>2. /\ fio'.at = "failed" /\ fio'.child = fio.child /\ fio'.device = fio.device
        /\ fio'.step = fio.step /\ fio'.scenario = fio.scenario /\ fio'.proven = fio.proven
    BY <2>1, <1>2 DEF FioDelete, Types, FioType, FioOK, Advance, Failed, Refuse, Preserve
  <2>3. /\ devices' = devices
        /\ daemon' = daemon
        /\ reap' = reap
        /\ deletion' = deletion
        /\ image' = image
    BY <1>2 DEF FioDelete, worldVars, kernelVars, processVars, fileVars, Spawn, NoDaemon,
       StartDelete, AbandonDelete, BeginCleanup, Types, WorldType, KernelType, ProcessType, Device
  <2>4. OwnDevices' = OwnDevices
    BY <2>3 DEF OwnDevices
  <2>5. FioHeld' /\ FioReap' /\ DeletionPlaced'
    BY <2>1, <2>2, <2>3 DEF FioHold, FioHeld, FioReap, DeletionPlaced, FioPlaced, FioRuns, FioLeft,
       FioBare
  <2>6. FioKnown'
    BY <2>1, <2>2, <2>3, NoneNotId DEF FioHold, FioKnown, FioPlaced, Unrecorded
  <2>7. FioPlaced'
    BY <2>1, <2>2, <2>3, NoneNotId
       DEF FioHold, FioPlaced, FioKnown, FioBare, FioRuns, FioLeft, Follow, RunOps, Ops, Unrecorded
  <2>8. FioOwns'
    BY <2>1, <2>2, <2>3, <2>4, NoneNotId
       DEF FioHold, FioOwns, OwnDevices, FioPlaced, FioBare, Unrecorded
  <2>9. InUse' => image'
    BY <2>1, <2>2, <2>3 DEF FioHold, InUse, FioPlaced, Alive
  <2> QED BY <2>5, <2>6, <2>7, <2>8, <2>9 DEF FioHold
<1> QED BY <1>1, <1>2

\* FioDeleted keeps what the lab holds of the world.
LEMMA FioDeletedHolds ==
  ASSUME Types, FioHold, FioDeleted
  PROVE  FioHold'
<1>1. fio.at = "deleting"
  BY DEF FioDeleted, Op, FioOp, FioKilling
<1>2. /\ fio'.at = "gone" /\ fio'.child = fio.child /\ fio'.device = fio.device
      /\ fio'.step = fio.step /\ fio'.scenario = fio.scenario /\ fio'.proven = fio.proven
  BY <1>1 DEF FioDeleted, Types, FioType, FioOK, Advance, Failed, Refuse, Preserve
<1>3. /\ devices' = devices
      /\ daemon' = daemon
      /\ reap' = reap
      /\ deletion' = NoDeletion
      /\ image' = image
  BY DEF FioDeleted, worldVars, kernelVars, processVars, fileVars, Spawn, NoDaemon, StartDelete,
     AbandonDelete, BeginCleanup, Types, WorldType, KernelType, ProcessType, Device
<1>4. FioInScript' = FioInScript /\ FioOp' = FioOp
  BY <1>2, SameOp
<1>5. OwnDevices' = OwnDevices
  BY <1>3 DEF OwnDevices
<1>6. FioHeld' /\ FioReap' /\ DeletionPlaced'
  BY <1>1, <1>2, <1>3, <1>4
     DEF FioHold, FioHeld, FioReap, DeletionPlaced, FioPlaced, FioRuns, FioLeft, FioBare
<1>7. FioKnown'
  BY <1>1, <1>2, <1>3, <1>4, NoneNotId DEF FioHold, FioKnown, FioPlaced, Unrecorded
<1>8. FioPlaced'
  BY <1>1, <1>2, <1>3, <1>4, NoneNotId
     DEF FioHold, FioPlaced, FioKnown, FioBare, FioRuns, FioLeft, Follow, RunOps, Ops, Unrecorded
<1>9. FioOwns'
  BY <1>1, <1>2, <1>3, <1>4, <1>5, NoneNotId
     DEF FioHold, FioOwns, OwnDevices, FioPlaced, FioBare, Unrecorded
<1>10. InUse' => image'
  BY <1>1, <1>2, <1>3, <1>4 DEF FioHold, InUse, FioPlaced, Alive
<1> QED BY <1>6, <1>7, <1>8, <1>9, <1>10 DEF FioHold

\* FioDeleteFails keeps what the lab holds of the world.
LEMMA FioDeleteFailsHolds ==
  ASSUME Types, FioHold, NEW reaped \in BOOLEAN, FioDeleteFails(reaped)
  PROVE  FioHold'
<1>1. fio.at = "deleting"
  BY DEF FioDeleteFails, Op, FioOp, FioKilling
<1>2. /\ fio'.at = "failed" /\ fio'.child = fio.child /\ fio'.device = fio.device
      /\ fio'.step = fio.step /\ fio'.scenario = fio.scenario /\ fio'.proven = fio.proven
  BY <1>1 DEF FioDeleteFails, Types, FioType, FioOK, Advance, Failed, Refuse, Preserve
<1>3. /\ devices' = devices
      /\ daemon' = daemon
      /\ reap' = reap
      /\ deletion' = NoDeletion
      /\ image' = image
  BY DEF FioDeleteFails, worldVars, kernelVars, processVars, fileVars, Spawn, NoDaemon, StartDelete,
     AbandonDelete, BeginCleanup, Types, WorldType, KernelType, ProcessType, Device
<1>4. OwnDevices' = OwnDevices
  BY <1>3 DEF OwnDevices
<1>5. FioHeld' /\ FioReap' /\ DeletionPlaced'
  BY <1>1, <1>2, <1>3 DEF FioHold, FioHeld, FioReap, DeletionPlaced, FioPlaced, FioRuns, FioLeft,
     FioBare
<1>6. FioKnown'
  BY <1>1, <1>2, <1>3, NoneNotId DEF FioHold, FioKnown, FioPlaced, Unrecorded
<1>7. FioPlaced'
  BY <1>1, <1>2, <1>3, NoneNotId
     DEF FioHold, FioPlaced, FioKnown, FioBare, FioRuns, FioLeft, Follow, RunOps, Ops, Unrecorded
<1>8. FioOwns'
  BY <1>1, <1>2, <1>3, <1>4, NoneNotId
     DEF FioHold, FioOwns, OwnDevices, FioPlaced, FioBare, Unrecorded
<1>9. InUse' => image'
  BY <1>1, <1>2, <1>3 DEF FioHold, InUse, FioPlaced, Alive
<1> QED BY <1>5, <1>6, <1>7, <1>8, <1>9 DEF FioHold

\* FioClear keeps what the lab holds of the world.
LEMMA FioClearHolds ==
  ASSUME Types, FioHold, FioClear
  PROVE  FioHold'
<1>1. CASE fio.round = FioRounds
  <2>1. fio.at = "script" /\ FioOp = "clear"
    BY <1>1 DEF FioClear, Op, FioOp, FioKilling
  <2>2. /\ fio'.at = "pass" /\ fio'.child = fio.child /\ fio'.device = fio.device
        /\ fio'.step = fio.step /\ fio'.scenario = fio.scenario /\ fio'.proven = fio.proven
    BY <2>1, <1>1 DEF FioClear, Types, FioType, FioOK, Advance, Failed, Refuse, Preserve
  <2>3. /\ devices' = devices
        /\ daemon' = daemon
        /\ reap' = reap
        /\ deletion' = deletion
    BY <1>1 DEF FioClear, worldVars, kernelVars, processVars, fileVars, Spawn, NoDaemon,
       StartDelete, AbandonDelete, BeginCleanup, Types, WorldType, KernelType, ProcessType, Device
  <2>4. ~InUse
    BY <2>1, BareIdle DEF FioHold, FioPlaced
  <2>5. OwnDevices' = OwnDevices
    BY <2>3 DEF OwnDevices
  <2>6. FioHeld' /\ FioReap' /\ DeletionPlaced'
    BY <2>1, <2>2, <2>3, <2>4
       DEF FioHold, FioHeld, FioReap, DeletionPlaced, FioPlaced, FioRuns, FioLeft, FioBare
  <2>7. FioKnown'
    BY <2>1, <2>2, <2>3, <2>4, NoneNotId DEF FioHold, FioKnown, FioPlaced, Unrecorded
  <2>8. FioPlaced'
    BY <2>1, <2>2, <2>3, <2>4, NoneNotId
       DEF FioHold, FioPlaced, FioKnown, FioBare, FioRuns, FioLeft, Follow, RunOps, Ops, Unrecorded
  <2>9. FioOwns'
    BY <2>1, <2>2, <2>3, <2>4, <2>5, NoneNotId
       DEF FioHold, FioOwns, OwnDevices, FioPlaced, FioBare, Unrecorded
  <2>10. InUse' => image'
    BY <2>1, <2>2, <2>3, <2>4 DEF FioHold, InUse, FioPlaced, Alive
  <2> QED BY <2>6, <2>7, <2>8, <2>9, <2>10 DEF FioHold
<1>2. CASE fio.round # FioRounds
  <2>1. PICK scenario \in DOMAIN Scenarios :
            fio' = [fio EXCEPT !.at = "script", !.step = 1, !.round = @ + 1, !.backing = FALSE,
                               !.temp = FALSE, !.scenario = scenario]
    BY <1>2, Zenon DEF FioClear
  <2>2. fio.at = "script" /\ FioOp = "clear"
    BY <1>2, Zenon DEF FioClear, Op, FioOp, FioKilling
  <2>3. /\ fio'.at = "script" /\ fio'.child = fio.child /\ fio'.device = fio.device
        /\ fio'.step = 1 /\ fio'.scenario = scenario /\ fio'.proven = fio.proven
    BY <2>2, <1>2, <2>1, Zenon
       DEF FioClear, Types, FioType, FioOK, Advance, Failed, Refuse, Preserve
  <2>4. /\ devices' = devices
        /\ daemon' = daemon
        /\ reap' = reap
        /\ deletion' = deletion
    BY <1>2, Zenon DEF FioClear, worldVars, kernelVars, processVars, fileVars, Spawn, NoDaemon,
       StartDelete, AbandonDelete, BeginCleanup, Types, WorldType, KernelType, ProcessType, Device
  <2>5. fio.proven \in BOOLEAN
    BY DEF Types, FioType, FioOK
  <2>6. FioInScript' /\ FioOp' = "setup"
    BY <2>5, <2>3, ScriptStart DEF FioInScript, FioOp
  <2>7. ~InUse
    BY <2>2, BareIdle DEF FioHold, FioPlaced
  <2>8. OwnDevices' = OwnDevices
    BY <2>4 DEF OwnDevices
  <2>9. FioHeld' /\ FioReap' /\ DeletionPlaced'
    BY <2>2, <2>3, <2>4, <2>6, <2>7
       DEF FioHold, FioHeld, FioReap, DeletionPlaced, FioPlaced, FioRuns, FioLeft, FioBare
  <2>10. FioKnown'
    BY <2>2, <2>3, <2>4, <2>6, <2>7, NoneNotId DEF FioHold, FioKnown, FioPlaced, Unrecorded
  <2>11. FioPlaced'
    BY <2>2, <2>3, <2>4, <2>6, <2>7, NoneNotId
       DEF FioHold, FioPlaced, FioKnown, FioBare, FioRuns, FioLeft, Follow, RunOps, Ops, Unrecorded
  <2>12. FioOwns'
    BY <2>2, <2>3, <2>4, <2>6, <2>7, <2>8, NoneNotId
       DEF FioHold, FioOwns, OwnDevices, FioPlaced, FioBare, Unrecorded
  <2>13. InUse' => image'
    BY <2>2, <2>3, <2>4, <2>6, <2>7 DEF FioHold, InUse, FioPlaced, Alive
  <2> QED BY <2>9, <2>10, <2>11, <2>12, <2>13 DEF FioHold
<1> QED BY <1>1, <1>2

\* FioClearFails keeps what the lab holds of the world.
LEMMA FioClearFailsHolds ==
  ASSUME Types, FioHold, NEW imageLeft \in BOOLEAN, FioClearFails(imageLeft)
  PROVE  FioHold'
<1>1. fio.at = "script" /\ FioOp = "clear"
  BY DEF FioClearFails, Op, FioOp, FioKilling
<1>2. /\ fio'.at = "failed" /\ fio'.child = fio.child /\ fio'.device = fio.device
      /\ fio'.step = fio.step /\ fio'.scenario = fio.scenario /\ fio'.proven = fio.proven
  BY <1>1 DEF FioClearFails, Types, FioType, FioOK, Advance, Failed, Refuse, Preserve
<1>3. /\ devices' = devices
      /\ daemon' = daemon
      /\ reap' = reap
      /\ deletion' = deletion
  BY DEF FioClearFails, worldVars, kernelVars, processVars, fileVars, Spawn, NoDaemon, StartDelete,
     AbandonDelete, BeginCleanup, Types, WorldType, KernelType, ProcessType, Device
<1>4. ~InUse
  BY <1>1, BareIdle DEF FioHold, FioPlaced
<1>5. OwnDevices' = OwnDevices
  BY <1>3 DEF OwnDevices
<1>6. FioHeld' /\ FioReap' /\ DeletionPlaced'
  BY <1>1, <1>2, <1>3, <1>4
     DEF FioHold, FioHeld, FioReap, DeletionPlaced, FioPlaced, FioRuns, FioLeft, FioBare
<1>7. FioKnown'
  BY <1>1, <1>2, <1>3, <1>4, NoneNotId DEF FioHold, FioKnown, FioPlaced, Unrecorded
<1>8. FioPlaced'
  BY <1>1, <1>2, <1>3, <1>4, NoneNotId
     DEF FioHold, FioPlaced, FioKnown, FioBare, FioRuns, FioLeft, Follow, RunOps, Ops, Unrecorded
<1>9. FioOwns'
  BY <1>1, <1>2, <1>3, <1>4, <1>5, NoneNotId
     DEF FioHold, FioOwns, OwnDevices, FioPlaced, FioBare, Unrecorded
<1>10. InUse' => image'
  BY <1>1, <1>2, <1>3, <1>4 DEF FioHold, InUse, FioPlaced, Alive
<1> QED BY <1>6, <1>7, <1>8, <1>9, <1>10 DEF FioHold

\* FioError keeps what the lab holds of the world.
LEMMA FioErrorHolds ==
  ASSUME Types, FioHold, FioError
  PROVE  FioHold'
<1>1. fio.at \in {"script", "ready", "exit", "gone", "delete"}
  BY DEF FioError, Op, FioOp, FioKilling
<1>2. /\ fio'.at = "failed" /\ fio'.child = fio.child /\ fio'.device = fio.device
      /\ fio'.step = fio.step /\ fio'.scenario = fio.scenario /\ fio'.proven = fio.proven
  BY <1>1 DEF FioError, Types, FioType, FioOK, Advance, Failed, Refuse, Preserve
<1>3. /\ devices' = devices
      /\ daemon' = daemon
      /\ reap' = reap
      /\ deletion' = deletion
      /\ image' = image
  BY DEF FioError, worldVars, kernelVars, processVars, fileVars, Spawn, NoDaemon, StartDelete,
     AbandonDelete, BeginCleanup, Types, WorldType, KernelType, ProcessType, Device
<1>4. OwnDevices' = OwnDevices
  BY <1>3 DEF OwnDevices
<1>5. FioHeld' /\ FioReap' /\ DeletionPlaced'
  BY <1>1, <1>2, <1>3 DEF FioHold, FioHeld, FioReap, DeletionPlaced, FioPlaced, FioRuns, FioLeft,
     FioBare
<1>6. FioKnown'
  BY <1>1, <1>2, <1>3, NoneNotId DEF FioHold, FioKnown, FioPlaced, Unrecorded
<1>7. FioPlaced'
  BY <1>1, <1>2, <1>3, NoneNotId
     DEF FioHold, FioPlaced, FioKnown, FioBare, FioRuns, FioLeft, Follow, RunOps, Ops, Unrecorded
<1>8. FioOwns'
  BY <1>1, <1>2, <1>3, <1>4, NoneNotId
     DEF FioHold, FioOwns, OwnDevices, FioPlaced, FioBare, Unrecorded
<1>9. InUse' => image'
  BY <1>1, <1>2, <1>3 DEF FioHold, InUse, FioPlaced, Alive
<1> QED BY <1>5, <1>6, <1>7, <1>8, <1>9 DEF FioHold

\* CleanChild keeps what the lab holds of the world.
LEMMA CleanChildHolds ==
  ASSUME Types, FioHold, CleanChild
  PROVE  FioHold'
<1>1. CASE fio.child
  <2>1. fio.at = "failed"
    BY <1>1 DEF CleanChild, Op, FioOp, FioKilling
  <2>2. /\ fio'.at = "clean_child" /\ fio'.child = fio.child /\ fio'.device = fio.device
        /\ fio'.step = fio.step /\ fio'.scenario = fio.scenario /\ fio'.proven = fio.proven
    BY <2>1, <1>1 DEF CleanChild, Types, FioType, FioOK, Advance, Failed, Refuse, Preserve
  <2>3. /\ devices' = devices
        /\ daemon'.state = daemon.state
        /\ daemon = NoDaemon => daemon' = NoDaemon
        /\ Alive' = Alive
        /\ reap' = "grace"
        /\ deletion' = deletion
        /\ image' = image
    BY <1>1, SignalKeeps DEF CleanChild, worldVars, kernelVars, processVars, fileVars, Spawn,
       NoDaemon, StartDelete, AbandonDelete, BeginCleanup, Types, WorldType, KernelType,
       ProcessType, Device
  <2>4. OwnDevices' = OwnDevices
    BY <2>3 DEF OwnDevices
  <2>5. FioHeld' /\ FioReap' /\ DeletionPlaced'
    BY <1>1, <2>1, <2>2, <2>3
       DEF FioHold, FioHeld, FioReap, DeletionPlaced, FioPlaced, FioRuns, FioLeft, FioBare
  <2>6. FioKnown'
    BY <1>1, <2>1, <2>2, <2>3, NoneNotId DEF FioHold, FioKnown, FioPlaced, Unrecorded
  <2>7. FioPlaced'
    BY <1>1, <2>1, <2>2, <2>3, NoneNotId
       DEF FioHold, FioPlaced, FioKnown, FioBare, FioRuns, FioLeft, Follow, RunOps, Ops, Unrecorded
  <2>8. FioOwns'
    BY <1>1, <2>1, <2>2, <2>3, <2>4, NoneNotId
       DEF FioHold, FioOwns, OwnDevices, FioPlaced, FioBare, Unrecorded
  <2>9. InUse' => image'
    BY <1>1, <2>1, <2>2, <2>3 DEF FioHold, InUse, FioPlaced, Alive
  <2> QED BY <2>5, <2>6, <2>7, <2>8, <2>9 DEF FioHold
<1>2. CASE ~fio.child
  <2>1. fio.at = "failed"
    BY <1>2 DEF CleanChild, Op, FioOp, FioKilling
  <2>2. /\ fio'.at = "clean_device" /\ fio'.child = fio.child /\ fio'.device = fio.device
        /\ fio'.step = fio.step /\ fio'.scenario = fio.scenario /\ fio'.proven = fio.proven
    BY <2>1, <1>2 DEF CleanChild, Types, FioType, FioOK, Advance, Failed, Refuse, Preserve
  <2>3. /\ devices' = devices
        /\ daemon' = daemon
        /\ reap' = reap
        /\ deletion' = deletion
        /\ image' = image
    BY <1>2 DEF CleanChild, worldVars, kernelVars, processVars, fileVars, Spawn, NoDaemon,
       StartDelete, AbandonDelete, BeginCleanup, Types, WorldType, KernelType, ProcessType, Device
  <2>4. OwnDevices' = OwnDevices
    BY <2>3 DEF OwnDevices
  <2>5. FioHeld' /\ FioReap' /\ DeletionPlaced'
    BY <1>2, <2>1, <2>2, <2>3
       DEF FioHold, FioHeld, FioReap, DeletionPlaced, FioPlaced, FioRuns, FioLeft, FioBare
  <2>6. FioKnown'
    BY <1>2, <2>1, <2>2, <2>3, NoneNotId DEF FioHold, FioKnown, FioPlaced, Unrecorded
  <2>7. FioPlaced'
    BY <1>2, <2>1, <2>2, <2>3, NoneNotId
       DEF FioHold, FioPlaced, FioKnown, FioBare, FioRuns, FioLeft, Follow, RunOps, Ops, Unrecorded
  <2>8. FioOwns'
    BY <1>2, <2>1, <2>2, <2>3, <2>4, NoneNotId
       DEF FioHold, FioOwns, OwnDevices, FioPlaced, FioBare, Unrecorded
  <2>9. InUse' => image'
    BY <1>2, <2>1, <2>2, <2>3 DEF FioHold, InUse, FioPlaced, Alive
  <2> QED BY <2>5, <2>6, <2>7, <2>8, <2>9 DEF FioHold
<1> QED BY <1>1, <1>2

\* CleanChildDone keeps what the lab holds of the world.
LEMMA CleanChildDoneHolds ==
  ASSUME Types, FioHold, CleanChildDone
  PROVE  FioHold'
<1>1. CASE reap = "error"
  <2>1. fio.at = "clean_child"
    BY <1>1 DEF CleanChildDone, Op, FioOp, FioKilling
  <2>2. /\ fio'.at = "fail" /\ fio'.child = fio.child /\ fio'.device = fio.device
        /\ fio'.step = fio.step /\ fio'.scenario = fio.scenario /\ fio'.proven = fio.proven
    BY <2>1, <1>1 DEF CleanChildDone, Types, FioType, FioOK, Advance, Failed, Refuse, Preserve
  <2>3. /\ devices' = devices
        /\ daemon' = daemon
        /\ reap' = "idle"
        /\ deletion' = deletion
        /\ image' = image
    BY <1>1 DEF CleanChildDone, worldVars, kernelVars, processVars, fileVars, Spawn, NoDaemon,
       StartDelete, AbandonDelete, BeginCleanup, Types, WorldType, KernelType, ProcessType, Device
  <2>4. OwnDevices' = OwnDevices
    BY <2>3 DEF OwnDevices
  <2>5. FioHeld' /\ FioReap' /\ DeletionPlaced'
    BY <2>1, <2>2, <2>3 DEF FioHold, FioHeld, FioReap, DeletionPlaced, FioPlaced, FioRuns, FioLeft,
       FioBare
  <2>6. FioKnown'
    BY <2>1, <2>2, <2>3, NoneNotId DEF FioHold, FioKnown, FioPlaced, Unrecorded
  <2>7. FioPlaced'
    BY <2>1, <2>2, <2>3, NoneNotId
       DEF FioHold, FioPlaced, FioKnown, FioBare, FioRuns, FioLeft, Follow, RunOps, Ops, Unrecorded
  <2>8. FioOwns'
    BY <2>1, <2>2, <2>3, <2>4, NoneNotId
       DEF FioHold, FioOwns, OwnDevices, FioPlaced, FioBare, Unrecorded
  <2>9. InUse' => image'
    BY <2>1, <2>2, <2>3 DEF FioHold, InUse, FioPlaced, Alive
  <2> QED BY <2>5, <2>6, <2>7, <2>8, <2>9 DEF FioHold
<1>2. CASE reap # "error"
  <2>1. fio.at = "clean_child" /\ reap = "ok"
    BY <1>2 DEF CleanChildDone, Op, FioOp, FioKilling
  <2>2. /\ fio'.at = "clean_device" /\ fio'.child = FALSE /\ fio'.device = fio.device
        /\ fio'.step = fio.step /\ fio'.scenario = fio.scenario /\ fio'.proven = fio.proven
    BY <2>1, <1>2 DEF CleanChildDone, Types, FioType, FioOK, Advance, Failed, Refuse, Preserve
  <2>3. /\ devices' = devices
        /\ daemon' = daemon
        /\ reap' = "idle"
        /\ deletion' = deletion
        /\ image' = image
    BY <1>2 DEF CleanChildDone, worldVars, kernelVars, processVars, fileVars, Spawn, NoDaemon,
       StartDelete, AbandonDelete, BeginCleanup, Types, WorldType, KernelType, ProcessType, Device
  <2>4. OwnDevices' = OwnDevices
    BY <2>3 DEF OwnDevices
  <2>5. FioHeld' /\ FioReap' /\ DeletionPlaced'
    BY <2>1, <2>2, <2>3 DEF FioHold, FioHeld, FioReap, DeletionPlaced, FioPlaced, FioRuns, FioLeft,
       FioBare
  <2>6. FioKnown'
    BY <2>1, <2>2, <2>3, NoneNotId DEF FioHold, FioKnown, FioPlaced, Unrecorded
  <2>7. FioPlaced'
    BY <2>1, <2>2, <2>3, NoneNotId
       DEF FioHold, FioPlaced, FioKnown, FioBare, FioRuns, FioLeft, Follow, RunOps, Ops, Unrecorded
  <2>8. FioOwns'
    BY <2>1, <2>2, <2>3, <2>4, NoneNotId
       DEF FioHold, FioOwns, OwnDevices, FioPlaced, FioBare, Unrecorded
  <2>9. InUse' => image'
    BY <2>1, <2>2, <2>3 DEF FioHold, InUse, FioPlaced, Alive
  <2> QED BY <2>5, <2>6, <2>7, <2>8, <2>9 DEF FioHold
<1> QED BY <1>1, <1>2

\* CleanUnrecorded keeps what the lab holds of the world.
LEMMA CleanUnrecordedHolds ==
  ASSUME Types, FioHold, CleanUnrecorded
  PROVE  FioHold'
<1>1. CASE fio.keep
  <2>1. fio.at = "clean_device"
    BY <1>1 DEF CleanUnrecorded, Op, FioOp, FioKilling
  <2>2. /\ fio'.at = "fail" /\ fio'.child = fio.child /\ fio'.device = fio.device
        /\ fio'.step = fio.step /\ fio'.scenario = fio.scenario /\ fio'.proven = fio.proven
    BY <2>1, <1>1 DEF CleanUnrecorded, Types, FioType, FioOK, Advance, Failed, Refuse, Preserve
  <2>3. /\ devices' = devices
        /\ daemon' = daemon
        /\ reap' = reap
        /\ deletion' = deletion
        /\ image' = image
    BY <1>1 DEF CleanUnrecorded, worldVars, kernelVars, processVars, fileVars, Spawn, NoDaemon,
       StartDelete, AbandonDelete, BeginCleanup, Types, WorldType, KernelType, ProcessType, Device
  <2>4. OwnDevices' = OwnDevices
    BY <2>3 DEF OwnDevices
  <2>5. FioHeld' /\ FioReap' /\ DeletionPlaced'
    BY <2>1, <2>2, <2>3 DEF FioHold, FioHeld, FioReap, DeletionPlaced, FioPlaced, FioRuns, FioLeft,
       FioBare
  <2>6. FioKnown'
    BY <2>1, <2>2, <2>3, NoneNotId DEF FioHold, FioKnown, FioPlaced, Unrecorded
  <2>7. FioPlaced'
    BY <2>1, <2>2, <2>3, NoneNotId
       DEF FioHold, FioPlaced, FioKnown, FioBare, FioRuns, FioLeft, Follow, RunOps, Ops, Unrecorded
  <2>8. FioOwns'
    BY <2>1, <2>2, <2>3, <2>4, NoneNotId
       DEF FioHold, FioOwns, OwnDevices, FioPlaced, FioBare, Unrecorded
  <2>9. InUse' => image'
    BY <2>1, <2>2, <2>3 DEF FioHold, InUse, FioPlaced, Alive
  <2> QED BY <2>5, <2>6, <2>7, <2>8, <2>9 DEF FioHold
<1>2. CASE ~fio.keep
  <2>1. fio.at = "clean_device" /\ fio.device = Unrecorded
    BY <1>2 DEF CleanUnrecorded, Op, FioOp, FioKilling
  <2>2. /\ fio'.at = "clean_files" /\ fio'.child = fio.child /\ fio'.device = fio.device
        /\ fio'.step = fio.step /\ fio'.scenario = fio.scenario /\ fio'.proven = fio.proven
    BY <2>1, <1>2 DEF CleanUnrecorded, Types, FioType, FioOK, Advance, Failed, Refuse, Preserve
  <2>3. /\ devices' = devices
        /\ daemon' = daemon
        /\ reap' = reap
        /\ deletion' = deletion
        /\ image' = image
    BY <1>2 DEF CleanUnrecorded, worldVars, kernelVars, processVars, fileVars, Spawn, NoDaemon,
       StartDelete, AbandonDelete, BeginCleanup, Types, WorldType, KernelType, ProcessType, Device
  <2>4. \A k \in Ids : ~devices[k].known
    BY <2>1, NoneNotId DEF FioHold, FioKnown, Unrecorded
  <2>5. OwnDevices' = OwnDevices
    BY <2>3 DEF OwnDevices
  <2>6. FioHeld' /\ FioReap' /\ DeletionPlaced'
    BY <2>1, <2>2, <2>3, <2>4
       DEF FioHold, FioHeld, FioReap, DeletionPlaced, FioPlaced, FioRuns, FioLeft, FioBare
  <2>7. FioKnown'
    BY <2>1, <2>2, <2>3, <2>4, NoneNotId DEF FioHold, FioKnown, FioPlaced, Unrecorded
  <2>8. FioPlaced'
    BY <2>1, <2>2, <2>3, <2>4, NoneNotId
       DEF FioHold, FioPlaced, FioKnown, FioBare, FioRuns, FioLeft, Follow, RunOps, Ops, Unrecorded
  <2>9. FioOwns'
    BY <2>1, <2>2, <2>3, <2>4, <2>5, NoneNotId
       DEF FioHold, FioOwns, OwnDevices, FioPlaced, FioBare, Unrecorded
  <2>10. InUse' => image'
    BY <2>1, <2>2, <2>3, <2>4 DEF FioHold, InUse, FioPlaced, Alive
  <2> QED BY <2>6, <2>7, <2>8, <2>9, <2>10 DEF FioHold
<1> QED BY <1>1, <1>2

\* CleanDevice keeps what the lab holds of the world.
LEMMA CleanDeviceHolds ==
  ASSUME Types, FioHold, NEW identity \in Identities, CleanDevice(identity)
  PROVE  FioHold'
<1>1. CASE identity \in {"Matching", "StoppedMatching"}
  <2>1. fio.at = "clean_device" /\ fio.device # Unrecorded
    BY <1>1 DEF CleanDevice, Op, FioOp, FioKilling
  <2>2. /\ fio'.at = "clean_deleting" /\ fio'.child = fio.child /\ fio'.device = fio.device
        /\ fio'.step = fio.step /\ fio'.scenario = fio.scenario /\ fio'.proven = fio.proven
    BY <2>1, <1>1 DEF CleanDevice, Types, FioType, FioOK, Advance, Failed, Refuse, Preserve
  <2>3. /\ devices' = devices
        /\ daemon' = daemon
        /\ reap' = reap
        /\ deletion'.id = fio.device.id
        /\ image' = image
    BY <1>1 DEF CleanDevice, worldVars, kernelVars, processVars, fileVars, Spawn, NoDaemon,
       StartDelete, AbandonDelete, BeginCleanup, Types, WorldType, KernelType, ProcessType, Device
  <2>4. OwnDevices' = OwnDevices
    BY <2>3 DEF OwnDevices
  <2>5. FioHeld' /\ FioReap' /\ DeletionPlaced'
    BY <2>1, <2>2, <2>3 DEF FioHold, FioHeld, FioReap, DeletionPlaced, FioPlaced, FioRuns, FioLeft,
       FioBare
  <2>6. FioKnown'
    BY <2>1, <2>2, <2>3, NoneNotId DEF FioHold, FioKnown, FioPlaced, Unrecorded
  <2>7. FioPlaced'
    BY <2>1, <2>2, <2>3, NoneNotId
       DEF FioHold, FioPlaced, FioKnown, FioBare, FioRuns, FioLeft, Follow, RunOps, Ops, Unrecorded
  <2>8. FioOwns'
    BY <2>1, <2>2, <2>3, <2>4, NoneNotId
       DEF FioHold, FioOwns, OwnDevices, FioPlaced, FioBare, Unrecorded
  <2>9. InUse' => image'
    BY <2>1, <2>2, <2>3 DEF FioHold, InUse, FioPlaced, Alive
  <2> QED BY <2>5, <2>6, <2>7, <2>8, <2>9 DEF FioHold
<1>2. CASE identity = "Absent"
  <2>1. fio.at = "clean_device" /\ fio.device # Unrecorded
    BY <1>2 DEF CleanDevice, Op, FioOp, FioKilling
  <2>2. /\ fio'.at = "clean_files" /\ fio'.child = fio.child /\ fio'.device = fio.device
        /\ fio'.step = fio.step /\ fio'.scenario = fio.scenario /\ fio'.proven = fio.proven
    BY <2>1, <1>2 DEF CleanDevice, Types, FioType, FioOK, Advance, Failed, Refuse, Preserve
  <2>3. /\ devices' = devices
        /\ daemon' = daemon
        /\ reap' = reap
        /\ deletion' = deletion
        /\ image' = image
    BY <1>2 DEF CleanDevice, worldVars, kernelVars, processVars, fileVars, Spawn, NoDaemon,
       StartDelete, AbandonDelete, BeginCleanup, Types, WorldType, KernelType, ProcessType, Device
  <2>4. devices[fio.device.id].state = "absent" /\ fio.device.id \in Ids
    BY <2>1, <1>2, ClassifyFacts DEF CleanDevice, Types, FioType, FioOK, FioHold, FioPlaced, FioLeft
  <2>5. devices[fio.device.id].owner # "lab" /\ ~devices[fio.device.id].known
    BY <2>4 DEF Types, WorldType, KernelType, DeviceOK, NoDevice
  <2>6. OwnDevices' = OwnDevices
    BY <2>3 DEF OwnDevices
  <2>7. FioHeld' /\ FioReap' /\ DeletionPlaced'
    BY <2>1, <2>2, <2>3, <2>5
       DEF FioHold, FioHeld, FioReap, DeletionPlaced, FioPlaced, FioRuns, FioLeft, FioBare
  <2>8. FioKnown'
    BY <2>1, <2>2, <2>3, <2>5, NoneNotId DEF FioHold, FioKnown, FioPlaced, Unrecorded
  <2>9. FioPlaced'
    BY <2>1, <2>2, <2>3, <2>5, NoneNotId
       DEF FioHold, FioPlaced, FioKnown, FioBare, FioRuns, FioLeft, Follow, RunOps, Ops, Unrecorded
  <2>10. FioOwns'
    BY <2>1, <2>2, <2>3, <2>5, <2>6, NoneNotId
       DEF FioHold, FioOwns, OwnDevices, FioPlaced, FioBare, Unrecorded
  <2>11. InUse' => image'
    BY <2>1, <2>2, <2>3, <2>5 DEF FioHold, InUse, FioPlaced, Alive
  <2> QED BY <2>7, <2>8, <2>9, <2>10, <2>11 DEF FioHold
<1>3. CASE identity \notin {"Absent", "Matching", "StoppedMatching"}
  <2>1. fio.at = "clean_device"
    BY <1>3 DEF CleanDevice, Op, FioOp, FioKilling
  <2>2. /\ fio'.at = "fail" /\ fio'.child = fio.child /\ fio'.device = fio.device
        /\ fio'.step = fio.step /\ fio'.scenario = fio.scenario /\ fio'.proven = fio.proven
    BY <2>1, <1>3 DEF CleanDevice, Types, FioType, FioOK, Advance, Failed, Refuse, Preserve
  <2>3. /\ devices' = devices
        /\ daemon' = daemon
        /\ reap' = reap
        /\ deletion' = deletion
        /\ image' = image
    BY <1>3 DEF CleanDevice, worldVars, kernelVars, processVars, fileVars, Spawn, NoDaemon,
       StartDelete, AbandonDelete, BeginCleanup, Types, WorldType, KernelType, ProcessType, Device
  <2>4. OwnDevices' = OwnDevices
    BY <2>3 DEF OwnDevices
  <2>5. FioHeld' /\ FioReap' /\ DeletionPlaced'
    BY <2>1, <2>2, <2>3 DEF FioHold, FioHeld, FioReap, DeletionPlaced, FioPlaced, FioRuns, FioLeft,
       FioBare
  <2>6. FioKnown'
    BY <2>1, <2>2, <2>3, NoneNotId DEF FioHold, FioKnown, FioPlaced, Unrecorded
  <2>7. FioPlaced'
    BY <2>1, <2>2, <2>3, NoneNotId
       DEF FioHold, FioPlaced, FioKnown, FioBare, FioRuns, FioLeft, Follow, RunOps, Ops, Unrecorded
  <2>8. FioOwns'
    BY <2>1, <2>2, <2>3, <2>4, NoneNotId
       DEF FioHold, FioOwns, OwnDevices, FioPlaced, FioBare, Unrecorded
  <2>9. InUse' => image'
    BY <2>1, <2>2, <2>3 DEF FioHold, InUse, FioPlaced, Alive
  <2> QED BY <2>5, <2>6, <2>7, <2>8, <2>9 DEF FioHold
<1> QED BY <1>1, <1>2, <1>3

\* CleanDeleted keeps what the lab holds of the world.
LEMMA CleanDeletedHolds ==
  ASSUME Types, FioHold, CleanDeleted
  PROVE  FioHold'
<1>1. fio.at = "clean_deleting"
  BY DEF CleanDeleted, Op, FioOp, FioKilling
<1>2. /\ fio'.at = "clean_gone" /\ fio'.child = fio.child /\ fio'.device = fio.device
      /\ fio'.step = fio.step /\ fio'.scenario = fio.scenario /\ fio'.proven = fio.proven
  BY <1>1 DEF CleanDeleted, Types, FioType, FioOK, Advance, Failed, Refuse, Preserve
<1>3. /\ devices' = devices
      /\ daemon' = daemon
      /\ reap' = reap
      /\ deletion' = NoDeletion
      /\ image' = image
  BY DEF CleanDeleted, worldVars, kernelVars, processVars, fileVars, Spawn, NoDaemon, StartDelete,
     AbandonDelete, BeginCleanup, Types, WorldType, KernelType, ProcessType, Device
<1>4. OwnDevices' = OwnDevices
  BY <1>3 DEF OwnDevices
<1>5. FioHeld' /\ FioReap' /\ DeletionPlaced'
  BY <1>1, <1>2, <1>3 DEF FioHold, FioHeld, FioReap, DeletionPlaced, FioPlaced, FioRuns, FioLeft,
     FioBare
<1>6. FioKnown'
  BY <1>1, <1>2, <1>3, NoneNotId DEF FioHold, FioKnown, FioPlaced, Unrecorded
<1>7. FioPlaced'
  BY <1>1, <1>2, <1>3, NoneNotId
     DEF FioHold, FioPlaced, FioKnown, FioBare, FioRuns, FioLeft, Follow, RunOps, Ops, Unrecorded
<1>8. FioOwns'
  BY <1>1, <1>2, <1>3, <1>4, NoneNotId
     DEF FioHold, FioOwns, OwnDevices, FioPlaced, FioBare, Unrecorded
<1>9. InUse' => image'
  BY <1>1, <1>2, <1>3 DEF FioHold, InUse, FioPlaced, Alive
<1> QED BY <1>5, <1>6, <1>7, <1>8, <1>9 DEF FioHold

\* CleanDeleteFails keeps what the lab holds of the world.
LEMMA CleanDeleteFailsHolds ==
  ASSUME Types, FioHold, NEW reaped \in BOOLEAN, CleanDeleteFails(reaped)
  PROVE  FioHold'
<1>1. fio.at = "clean_deleting"
  BY DEF CleanDeleteFails, Op, FioOp, FioKilling
<1>2. /\ fio'.at = "fail" /\ fio'.child = fio.child /\ fio'.device = fio.device
      /\ fio'.step = fio.step /\ fio'.scenario = fio.scenario /\ fio'.proven = fio.proven
  BY <1>1 DEF CleanDeleteFails, Types, FioType, FioOK, Advance, Failed, Refuse, Preserve
<1>3. /\ devices' = devices
      /\ daemon' = daemon
      /\ reap' = reap
      /\ deletion' = NoDeletion
      /\ image' = image
  BY DEF CleanDeleteFails, worldVars, kernelVars, processVars, fileVars, Spawn, NoDaemon,
     StartDelete, AbandonDelete, BeginCleanup, Types, WorldType, KernelType, ProcessType, Device
<1>4. OwnDevices' = OwnDevices
  BY <1>3 DEF OwnDevices
<1>5. FioHeld' /\ FioReap' /\ DeletionPlaced'
  BY <1>1, <1>2, <1>3 DEF FioHold, FioHeld, FioReap, DeletionPlaced, FioPlaced, FioRuns, FioLeft,
     FioBare
<1>6. FioKnown'
  BY <1>1, <1>2, <1>3, NoneNotId DEF FioHold, FioKnown, FioPlaced, Unrecorded
<1>7. FioPlaced'
  BY <1>1, <1>2, <1>3, NoneNotId
     DEF FioHold, FioPlaced, FioKnown, FioBare, FioRuns, FioLeft, Follow, RunOps, Ops, Unrecorded
<1>8. FioOwns'
  BY <1>1, <1>2, <1>3, <1>4, NoneNotId
     DEF FioHold, FioOwns, OwnDevices, FioPlaced, FioBare, Unrecorded
<1>9. InUse' => image'
  BY <1>1, <1>2, <1>3 DEF FioHold, InUse, FioPlaced, Alive
<1> QED BY <1>5, <1>6, <1>7, <1>8, <1>9 DEF FioHold

\* CleanGone keeps what the lab holds of the world.
LEMMA CleanGoneHolds ==
  ASSUME Types, FioHold, NEW disappeared \in BOOLEAN, CleanGone(disappeared)
  PROVE  FioHold'
<1>1. CASE disappeared
  <2>1. fio.at = "clean_gone"
    BY <1>1 DEF CleanGone, Op, FioOp, FioKilling
  <2>2. /\ fio'.at = "clean_files" /\ fio'.child = fio.child /\ fio'.device = fio.device
        /\ fio'.step = fio.step /\ fio'.scenario = fio.scenario /\ fio'.proven = fio.proven
    BY <2>1, <1>1 DEF CleanGone, Types, FioType, FioOK, Advance, Failed, Refuse, Preserve
  <2>3. /\ devices' = devices
        /\ daemon' = daemon
        /\ reap' = reap
        /\ deletion' = deletion
        /\ image' = image
    BY <1>1 DEF CleanGone, worldVars, kernelVars, processVars, fileVars, Spawn, NoDaemon,
       StartDelete, AbandonDelete, BeginCleanup, Types, WorldType, KernelType, ProcessType, Device
  <2>4. devices[fio.device.id].owner # "lab" /\ ~devices[fio.device.id].known
    BY <1>1 DEF CleanGone, NoDevice
  <2>5. OwnDevices' = OwnDevices
    BY <2>3 DEF OwnDevices
  <2>6. FioHeld' /\ FioReap' /\ DeletionPlaced'
    BY <2>1, <2>2, <2>3, <2>4
       DEF FioHold, FioHeld, FioReap, DeletionPlaced, FioPlaced, FioRuns, FioLeft, FioBare
  <2>7. FioKnown'
    BY <2>1, <2>2, <2>3, <2>4, NoneNotId DEF FioHold, FioKnown, FioPlaced, Unrecorded
  <2>8. FioPlaced'
    BY <2>1, <2>2, <2>3, <2>4, NoneNotId
       DEF FioHold, FioPlaced, FioKnown, FioBare, FioRuns, FioLeft, Follow, RunOps, Ops, Unrecorded
  <2>9. FioOwns'
    BY <2>1, <2>2, <2>3, <2>4, <2>5, NoneNotId
       DEF FioHold, FioOwns, OwnDevices, FioPlaced, FioBare, Unrecorded
  <2>10. InUse' => image'
    BY <2>1, <2>2, <2>3, <2>4 DEF FioHold, InUse, FioPlaced, Alive
  <2> QED BY <2>6, <2>7, <2>8, <2>9, <2>10 DEF FioHold
<1>2. CASE ~disappeared
  <2>1. fio.at = "clean_gone"
    BY <1>2 DEF CleanGone, Op, FioOp, FioKilling
  <2>2. /\ fio'.at = "fail" /\ fio'.child = fio.child /\ fio'.device = fio.device
        /\ fio'.step = fio.step /\ fio'.scenario = fio.scenario /\ fio'.proven = fio.proven
    BY <2>1, <1>2 DEF CleanGone, Types, FioType, FioOK, Advance, Failed, Refuse, Preserve
  <2>3. /\ devices' = devices
        /\ daemon' = daemon
        /\ reap' = reap
        /\ deletion' = deletion
        /\ image' = image
    BY <1>2 DEF CleanGone, worldVars, kernelVars, processVars, fileVars, Spawn, NoDaemon,
       StartDelete, AbandonDelete, BeginCleanup, Types, WorldType, KernelType, ProcessType, Device
  <2>4. OwnDevices' = OwnDevices
    BY <2>3 DEF OwnDevices
  <2>5. FioHeld' /\ FioReap' /\ DeletionPlaced'
    BY <2>1, <2>2, <2>3 DEF FioHold, FioHeld, FioReap, DeletionPlaced, FioPlaced, FioRuns, FioLeft,
       FioBare
  <2>6. FioKnown'
    BY <2>1, <2>2, <2>3, NoneNotId DEF FioHold, FioKnown, FioPlaced, Unrecorded
  <2>7. FioPlaced'
    BY <2>1, <2>2, <2>3, NoneNotId
       DEF FioHold, FioPlaced, FioKnown, FioBare, FioRuns, FioLeft, Follow, RunOps, Ops, Unrecorded
  <2>8. FioOwns'
    BY <2>1, <2>2, <2>3, <2>4, NoneNotId
       DEF FioHold, FioOwns, OwnDevices, FioPlaced, FioBare, Unrecorded
  <2>9. InUse' => image'
    BY <2>1, <2>2, <2>3 DEF FioHold, InUse, FioPlaced, Alive
  <2> QED BY <2>5, <2>6, <2>7, <2>8, <2>9 DEF FioHold
<1> QED BY <1>1, <1>2

\* CleanFiles keeps what the lab holds of the world.
LEMMA CleanFilesHolds ==
  ASSUME Types, FioHold, NEW valid \in BOOLEAN, NEW removed \in BOOLEAN, NEW imageLeft \in BOOLEAN,
         CleanFiles(valid, removed, imageLeft)
  PROVE  FioHold'
<1>1. fio.at = "clean_files"
  BY DEF CleanFiles, Op, FioOp, FioKilling
<1>2. /\ fio'.at = "fail" /\ fio'.child = fio.child /\ fio'.device = fio.device
      /\ fio'.step = fio.step /\ fio'.scenario = fio.scenario /\ fio'.proven = fio.proven
  BY <1>1 DEF CleanFiles, Types, FioType, FioOK, Advance, Failed, Refuse, Preserve
<1>3. /\ devices' = devices
      /\ daemon' = daemon
      /\ reap' = reap
      /\ deletion' = deletion
  BY DEF CleanFiles, worldVars, kernelVars, processVars, fileVars, Spawn, NoDaemon, StartDelete,
     AbandonDelete, BeginCleanup, Types, WorldType, KernelType, ProcessType, Device
<1>4. ~InUse
  BY <1>1 DEF FioHold, FioHeld, FioPlaced, InUse, Alive, NoDaemon
<1>5. OwnDevices' = OwnDevices
  BY <1>3 DEF OwnDevices
<1>6. FioHeld' /\ FioReap' /\ DeletionPlaced'
  BY <1>1, <1>2, <1>3, <1>4
     DEF FioHold, FioHeld, FioReap, DeletionPlaced, FioPlaced, FioRuns, FioLeft, FioBare
<1>7. FioKnown'
  BY <1>1, <1>2, <1>3, <1>4, NoneNotId DEF FioHold, FioKnown, FioPlaced, Unrecorded
<1>8. FioPlaced'
  BY <1>1, <1>2, <1>3, <1>4, NoneNotId
     DEF FioHold, FioPlaced, FioKnown, FioBare, FioRuns, FioLeft, Follow, RunOps, Ops, Unrecorded
<1>9. FioOwns'
  BY <1>1, <1>2, <1>3, <1>4, <1>5, NoneNotId
     DEF FioHold, FioOwns, OwnDevices, FioPlaced, FioBare, Unrecorded
<1>10. InUse' => image'
  BY <1>1, <1>2, <1>3, <1>4 DEF FioHold, InUse, FioPlaced, Alive
<1> QED BY <1>6, <1>7, <1>8, <1>9, <1>10 DEF FioHold

\* The fio suite keeps what the lab holds of the world.
LEMMA FioNextHolds ==
  ASSUME Types, FioHold, FioNext
  PROVE  FioHold'
BY FioSetupHolds, FioFormatHolds, FioStartHolds, FioReadyHolds, FioRunHolds, FioLockHolds,
   FioLockProvenHolds, FioLockLostHolds, FioSignalHolds, FioExitedHolds, FioReapedHolds, FioGoneHolds,
   FioHandshakeHolds, FioIdentityHolds, FioDeleteHolds, FioDeletedHolds, FioDeleteFailsHolds,
   FioClearHolds, FioClearFailsHolds, FioErrorHolds, CleanChildHolds, CleanChildDoneHolds,
   CleanUnrecordedHolds, CleanDeviceHolds, CleanDeletedHolds, CleanDeleteFailsHolds, CleanGoneHolds,
   CleanFilesHolds DEF FioNext

-----------------------------------------------------------------------------
(* The filesystem suites.  While one runs, the fio suite is off.           *)

\* The daemon is the filesystem suite's.
FsHeld == ~fs.daemon => daemon = NoDaemon

\* The known device is the one it recorded.
FsKnown == \A id \in Ids : devices[id].known => id = fs.device.id

\* The daemon is reaped where the suite waits for it.
FsReap ==
  /\ reap # "idle" => fs.at \in {"reap", "recover_reap"}
  /\ reap = "ok" => daemon = NoDaemon

\* The helper runs where the suite waits for it.
HelperHeld ==
  /\ ~fs.command => helper = NoHelper
  /\ fs.at \notin {"formatting", "mounting", "unmounting", "failed", "drop", "fail"} => ~fs.command
  /\ fs.at = "term" => ~mount

\* Holding, while a filesystem suite runs.
FsHold ==
  /\ FsHeld /\ FsKnown /\ FsReap /\ FsPlaced /\ FsOwns /\ HelperHeld
  /\ InUse => image

\* What a filesystem suite uses of Holding.
LEMMA FsHoldsBefore ==
  ASSUME Types, Holding, fs.at # "off"
  PROVE  FsHold
<1>1. fio = FioIdle
  BY DEF Types, FioType, Holding, OneSuite
<1>2. FsHeld /\ FsReap
  BY <1>1 DEF Holding, DaemonHeld, ReapPlaced, FsHeld, FsReap, FioIdle
<1>3. FsKnown
  BY <1>1, NoneNotId DEF Holding, KnownRecorded, FsKnown, FioIdle, Unrecorded
<1>4. InUse => image
  BY DEF InUse, Holding, ImageOutlivesUse, OwnDevices, Types, WorldType, KernelType, DeviceOK
<1>5. HelperHeld
  BY DEF Holding, HelperPlaced, HelperHeld
<1> QED BY <1>2, <1>3, <1>4, <1>5 DEF FsHold, Holding

\* What it keeps of it is enough.
LEMMA FsHoldsAfter ==
  ASSUME Types, Holding, fs.at # "off", FsHold', UNCHANGED <<fio, deletion>>
  PROVE  Holding'
<1>1. fio = FioIdle /\ fio' = FioIdle
  BY DEF Types, FioType, Holding, OneSuite
<1>2. DaemonHeld' /\ ReapPlaced' /\ OneSuite' /\ KnownRecorded'
  BY <1>1 DEF FsHold, DaemonHeld, ReapPlaced, FsHeld, FsReap, FioIdle, OneSuite, FsKnown,
     KnownRecorded
<1>3. FioPlaced' /\ FioOwns' /\ DeletionPlaced'
  BY <1>1 DEF Holding, FioPlaced, FioOwns, FioIdle, DeletionPlaced
<1>4. HelperPlaced'
  BY <1>1 DEF FsHold, HelperHeld, HelperPlaced, FioIdle
<1>5. ImageOutlivesUse'
  BY DEF FsHold, InUse, ImageOutlivesUse, OwnDevices
<1> QED BY <1>2, <1>3, <1>4, <1>5 DEF FsHold, Holding

\* Where the steps are in the lifecycle.
LEMMA StepNumbers ==
  ASSUME NEW n \in 1..18
  PROVE  /\ STEPS[n] = "Format" => n = 1
         /\ STEPS[n] = "Start" => n \in {2, 11}
         /\ STEPS[n] = "Mkfs" => n = 3
         /\ STEPS[n] = "Check" => n \in {4, 9, 12, 16}
         /\ STEPS[n] = "Mount" => n \in {5, 13}
         /\ STEPS[n] = "Populate" => n = 6
         /\ STEPS[n] = "Verify" => n \in {7, 14}
         /\ STEPS[n] = "Unmount" => n \in {8, 15}
         /\ STEPS[n] = "Stop" => n \in {10, 17}
         /\ STEPS[n] = "Finish" => n = 18
         /\ n = 18 => STEPS[n] = "Finish"
BY DEF STEPS

\* Where a suite in its script is.
ScriptStep ==
  /\ fs.step \in 1..18
  /\ ~fs.recovering
  /\ fs.step \in {1, 2, 11, 18} => FsBare
  /\ fs.step \in {2, 11} => image
  /\ fs.step \notin {1, 2, 11, 18} => FsRuns

\* What a suite holds between its steps.
LEMMA InScript ==
  ASSUME FsPlaced, fs.at = "script"
  PROVE  ScriptStep
<1>1. ~fs.recovering
  BY DEF FsPlaced
<1>2. fs.at \in DOMAIN FsSteps /\ FsSteps[fs.at] = 1..18
  BY DEF FsSteps
<1> QED BY <1>1, <1>2 DEF FsPlaced, FsWorking, ScriptStep

\* A filesystem suite that holds nothing has no use of the image.
LEMMA FsBareIdle ==
  ASSUME Types, FsHeld, FsKnown, FsBare
  PROVE  ~InUse
BY NoneNotId DEF FsHeld, FsKnown, FsBare, InUse, Alive, NoDaemon, Unrecorded

\* FsHelperFails keeps what the lab holds of the world.
LEMMA FsHelperFailsHolds ==
  ASSUME Types, FsHold, NEW reaped \in BOOLEAN, FsHelperFails(reaped)
  PROVE  FsHold' /\ deletion' = deletion
<1>1. fs.at \in {"formatting", "mounting", "unmounting"}
  BY DEF FsHelperFails, HelperSucceeded, Step, FsHold, FsPlaced, FsWorking, FsSteps
<1>2. /\ (fs.recovering => fs'.at = "drop") /\ (~fs.recovering => fs'.at = "failed")
      /\ fs'.step = fs.step /\ fs'.device = fs.device /\ fs'.daemon = fs.daemon
      /\ fs'.command = ~reaped /\ fs'.recovering = fs.recovering
  BY <1>1 DEF FsHelperFails, Proceed, Fails, AfterCleanup, RunHelper, HelperSucceeded, Types,
     FsType, FsOK
<1>3. /\ devices' = devices
      /\ daemon' = daemon
      /\ reap' = reap
      /\ deletion' = deletion
      /\ image' = image
      /\ mount' = mount
      /\ reaped => helper' = NoHelper
      /\ ~reaped => helper' = helper
  BY <1>1 DEF FsHelperFails, worldVars, kernelVars, processVars, fileVars, helperVars, mountVars,
     Spawn, NoDaemon, BeginCleanup, HelperSucceeded, RemoveFixture, Types, WorldType, KernelType,
     ProcessType, Device, FsHold, HelperHeld
<1>4. OwnDevices' = OwnDevices
  BY <1>3 DEF OwnDevices
<1>5. FsHeld' /\ FsReap'
  BY <1>1, <1>2, <1>3 DEF FsHold, FsHeld, FsReap, FsPlaced, FsBare, FsRuns
<1>6. FsKnown'
  BY <1>1, <1>2, <1>3, NoneNotId
     DEF FsHold, FsKnown, FsPlaced, FsWorking, FsBare, Unrecorded, FsSteps
<1>7. Alive => daemon # NoDaemon
  BY DEF Alive, NoDaemon
<1>8. FsPlaced'
  BY <1>1, <1>2, <1>3, <1>7
     DEF FsHold, FsHeld, FsReap, FsPlaced, FsWorking, FsBare, FsRuns, FsSteps, Alive
<1>9. FsOwns'
  BY <1>1, <1>2, <1>3, <1>4, NoneNotId
     DEF FsHold, FsOwns, OwnDevices, FsPlaced, FsWorking, FsSteps, FsBare, FsRuns, Unrecorded
<1>10. HelperHeld'
  BY <1>1, <1>2, <1>3 DEF FsHold, HelperHeld
<1>11. InUse' => image'
  BY <1>1, <1>2, <1>3 DEF FsHold, InUse, FsPlaced, FsWorking, FsSteps, FsRuns, FsBare, Alive
<1> QED BY <1>5, <1>6, <1>8, <1>9, <1>10, <1>11, <1>3 DEF FsHold

\* FsCommandFails keeps what the lab holds of the world.
LEMMA FsCommandFailsHolds ==
  ASSUME Types, FsHold, NEW reaped \in BOOLEAN, FsCommandFails(reaped)
  PROVE  FsHold' /\ deletion' = deletion
<1>1. fs.at = "script" /\ fs.step \in 1..18 /\ ScriptStep
  BY InScript DEF FsCommandFails, Step, FsHold, ScriptStep, RemoveFixture
<1>2. fs.at = "script" /\ ScriptStep
  BY <1>1, StepNumbers DEF FsCommandFails, Step, RemoveFixture
<1>3. /\ (fs.recovering => fs'.at = "drop") /\ (~fs.recovering => fs'.at = "failed")
      /\ fs'.step = fs.step /\ fs'.device = fs.device /\ fs'.daemon = fs.daemon
      /\ fs'.command = ~reaped /\ fs'.recovering = fs.recovering
  BY <1>2 DEF FsCommandFails, Proceed, Fails, AfterCleanup, RunHelper, HelperSucceeded, Types,
     FsType, FsOK, ScriptStep
<1>4. /\ devices' = devices
      /\ daemon' = daemon
      /\ reap' = reap
      /\ deletion' = deletion
      /\ image' = image
      /\ mount' = mount
      /\ helper' = helper
  BY <1>2 DEF FsCommandFails, worldVars, kernelVars, processVars, fileVars, helperVars, mountVars,
     Spawn, NoDaemon, BeginCleanup, HelperSucceeded, RemoveFixture, Types, WorldType, KernelType,
     ProcessType, Device, FsHold, HelperHeld
<1>5. OwnDevices' = OwnDevices
  BY <1>4 DEF OwnDevices
<1>6. FsHeld' /\ FsReap'
  BY <1>2, <1>3, <1>4 DEF FsHold, FsHeld, FsReap, FsPlaced, FsBare, FsRuns, ScriptStep
<1>7. FsKnown'
  BY <1>2, <1>3, <1>4, NoneNotId
     DEF FsHold, FsKnown, FsPlaced, FsWorking, FsBare, Unrecorded, ScriptStep, FsSteps
<1>8. Alive => daemon # NoDaemon
  BY DEF Alive, NoDaemon
<1>9. FsPlaced'
  BY <1>2, <1>3, <1>4, <1>8
     DEF FsHold, FsHeld, FsReap, FsPlaced, FsWorking, FsBare, FsRuns, FsSteps, Alive, ScriptStep
<1>10. FsOwns'
  BY <1>2, <1>3, <1>4, <1>5, NoneNotId
     DEF FsHold, FsOwns, OwnDevices, FsPlaced, FsWorking, FsSteps, FsBare, FsRuns, Unrecorded,
     ScriptStep
<1>11. HelperHeld'
  BY <1>2, <1>3, <1>4 DEF FsHold, HelperHeld
<1>12. InUse' => image'
  BY <1>2, <1>3, <1>4 DEF FsHold, InUse, FsPlaced, FsWorking, FsSteps, FsRuns, FsBare, Alive,
     ScriptStep
<1> QED BY <1>6, <1>7, <1>9, <1>10, <1>11, <1>12, <1>4 DEF FsHold

\* FsFormatFails keeps what the lab holds of the world.
LEMMA FsFormatFailsHolds ==
  ASSUME Types, FsHold, NEW created \in BOOLEAN, NEW reaped \in BOOLEAN,
         FsFormatFails(created, reaped)
  PROVE  FsHold' /\ deletion' = deletion
<1>1. fs.at = "script" /\ fs.step \in 1..18 /\ ScriptStep
  BY InScript DEF FsFormatFails, Step, FsHold, ScriptStep
<1>2. fs.at = "script" /\ ScriptStep /\ fs.step = 1
  BY <1>1, StepNumbers DEF FsFormatFails, Step
<1>3. /\ (fs.recovering => fs'.at = "drop") /\ (~fs.recovering => fs'.at = "failed")
      /\ fs'.step = fs.step /\ fs'.device = fs.device /\ fs'.daemon = fs.daemon
      /\ fs'.command = ~reaped /\ fs'.recovering = fs.recovering
  BY <1>2 DEF FsFormatFails, Fails, AfterCleanup, Types, FsType, FsOK
<1>4. /\ devices' = devices
      /\ daemon' = daemon
      /\ reap' = reap
      /\ deletion' = deletion
      /\ mount' = mount
      /\ helper' = helper
  BY DEF FsFormatFails, kernelVars, processVars, helperVars, mountVars
<1>5. OwnDevices' = OwnDevices
  BY <1>4 DEF OwnDevices
<1>6. FsHeld' /\ FsReap'
  BY <1>2, <1>3, <1>4 DEF FsHold, FsHeld, FsReap, FsPlaced, FsBare, FsRuns, ScriptStep
<1>7. FsKnown'
  BY <1>2, <1>3, <1>4, NoneNotId
     DEF FsHold, FsKnown, FsPlaced, FsWorking, FsBare, Unrecorded, ScriptStep, FsSteps
<1>8. Alive => daemon # NoDaemon
  BY DEF Alive, NoDaemon
<1>9. FsPlaced'
  BY <1>2, <1>3, <1>4, <1>8
     DEF FsHold, FsHeld, FsReap, FsPlaced, FsWorking, FsBare, FsRuns, FsSteps, Alive, ScriptStep
<1>10. FsOwns'
  BY <1>2, <1>3, <1>4, <1>5, NoneNotId
     DEF FsHold, FsOwns, OwnDevices, FsPlaced, FsWorking, FsSteps, FsBare, FsRuns, Unrecorded,
     ScriptStep
<1>11. HelperHeld'
  BY <1>2, <1>3, <1>4 DEF FsHold, HelperHeld
<1>12. ~InUse
  BY <1>2, FsBareIdle DEF FsHold, ScriptStep
<1>13. ~InUse'
  BY <1>4, <1>12 DEF InUse, Alive
<1> QED BY <1>4, <1>6, <1>7, <1>9, <1>10, <1>11, <1>13 DEF FsHold

\* FsReady keeps what the lab holds of the world.
LEMMA FsReadyHolds ==
  ASSUME Types, FsHold, NEW accepted \in BOOLEAN, FsReady(accepted)
  PROVE  FsHold' /\ deletion' = deletion
<1>1. CASE accepted
  <2>1. fs.at = "ready" /\ ~fs.recovering
    BY <1>1 DEF FsReady, HelperSucceeded, Step, FsHold, FsPlaced, FsWorking, FsSteps
  <2>2. /\ fs'.at = "script"
        /\ fs'.step = fs.step + 1 /\ fs'.device = Record(daemon.id) /\ fs'.daemon = fs.daemon
        /\ fs'.command = fs.command /\ fs'.recovering = fs.recovering
    BY <2>1, <1>1 DEF FsReady, Proceed, Fails, AfterCleanup, RunHelper, HelperSucceeded, Types,
       FsType, FsOK
  <2>3. /\ \A k \in Ids : devices'[k].owner = devices[k].owner /\ (devices'[k].known =>
             devices[k].known \/ k = daemon.id)
        /\ daemon' = daemon
        /\ reap' = reap
        /\ deletion' = deletion
        /\ image' = image
        /\ mount' = mount
        /\ helper' = helper
    BY <2>1, <1>1 DEF FsReady, worldVars, kernelVars, processVars, fileVars, helperVars, mountVars,
       Spawn, NoDaemon, BeginCleanup, HelperSucceeded, RemoveFixture, Types, WorldType, KernelType,
       ProcessType, Device, FsHold, HelperHeld
  <2>4. daemon.id \in Ids /\ daemon.state # "starting" /\ fs'.device.id = daemon.id /\
          fs'.device # Unrecorded
    BY <2>1, <2>2, NoneNotId
       DEF FsReady, Types, WorldType, ProcessType, DaemonOK, Record, Unrecorded
  <2>5. OwnDevices' = OwnDevices
    BY <2>3 DEF OwnDevices
  <2>6. FsHeld' /\ FsReap'
    BY <2>1, <2>2, <2>3, <2>4 DEF FsHold, FsHeld, FsReap, FsPlaced, FsBare, FsRuns
  <2>7. FsKnown'
    BY <2>1, <2>2, <2>3, <2>4, NoneNotId
       DEF FsHold, FsKnown, FsPlaced, FsWorking, FsBare, Unrecorded, FsSteps
  <2>8. Alive => daemon # NoDaemon
    BY DEF Alive, NoDaemon
  <2>9. FsPlaced'
    BY <2>1, <2>2, <2>3, <2>4, <2>8
       DEF FsHold, FsHeld, FsReap, FsPlaced, FsWorking, FsBare, FsRuns, FsSteps, Alive
  <2>10. FsOwns'
    BY <2>1, <2>2, <2>3, <2>4, <2>5, NoneNotId
       DEF FsHold, FsOwns, OwnDevices, FsPlaced, FsWorking, FsSteps, FsBare, FsRuns, Unrecorded
  <2>11. HelperHeld'
    BY <2>1, <2>2, <2>3, <2>4 DEF FsHold, HelperHeld
  <2>12. InUse' => image'
    BY <2>1, <2>2, <2>3, <2>4 DEF FsHold, InUse, FsPlaced, FsWorking, FsSteps, FsRuns, FsBare, Alive
  <2> QED BY <2>6, <2>7, <2>9, <2>10, <2>11, <2>12, <2>3 DEF FsHold
<1>2. CASE ~accepted
  <2>1. fs.at = "ready" /\ ~fs.recovering
    BY <1>2 DEF FsReady, HelperSucceeded, Step, FsHold, FsPlaced, FsWorking, FsSteps
  <2>2. /\ (fs.recovering => fs'.at = "drop") /\ (~fs.recovering => fs'.at = "failed")
        /\ fs'.step = fs.step /\ fs'.device = Record(daemon.id) /\ fs'.daemon = fs.daemon
        /\ fs'.command = fs.command /\ fs'.recovering = fs.recovering
    BY <2>1, <1>2 DEF FsReady, Proceed, Fails, AfterCleanup, RunHelper, HelperSucceeded, Types,
       FsType, FsOK
  <2>3. /\ \A k \in Ids : devices'[k].owner = devices[k].owner /\ (devices'[k].known =>
             devices[k].known \/ k = daemon.id)
        /\ daemon' = daemon
        /\ reap' = reap
        /\ deletion' = deletion
        /\ image' = image
        /\ mount' = mount
        /\ helper' = helper
    BY <2>1, <1>2 DEF FsReady, worldVars, kernelVars, processVars, fileVars, helperVars, mountVars,
       Spawn, NoDaemon, BeginCleanup, HelperSucceeded, RemoveFixture, Types, WorldType, KernelType,
       ProcessType, Device, FsHold, HelperHeld
  <2>4. daemon.id \in Ids /\ daemon.state # "starting" /\ fs'.device.id = daemon.id /\
          fs'.device # Unrecorded
    BY <2>1, <2>2, NoneNotId
       DEF FsReady, Types, WorldType, ProcessType, DaemonOK, Record, Unrecorded
  <2>5. OwnDevices' = OwnDevices
    BY <2>3 DEF OwnDevices
  <2>6. FsHeld' /\ FsReap'
    BY <2>1, <2>2, <2>3, <2>4 DEF FsHold, FsHeld, FsReap, FsPlaced, FsBare, FsRuns
  <2>7. FsKnown'
    BY <2>1, <2>2, <2>3, <2>4, NoneNotId
       DEF FsHold, FsKnown, FsPlaced, FsWorking, FsBare, Unrecorded, FsSteps
  <2>8. Alive => daemon # NoDaemon
    BY DEF Alive, NoDaemon
  <2>9. FsPlaced'
    BY <2>1, <2>2, <2>3, <2>4, <2>8
       DEF FsHold, FsHeld, FsReap, FsPlaced, FsWorking, FsBare, FsRuns, FsSteps, Alive
  <2>10. FsOwns'
    BY <2>1, <2>2, <2>3, <2>4, <2>5, NoneNotId
       DEF FsHold, FsOwns, OwnDevices, FsPlaced, FsWorking, FsSteps, FsBare, FsRuns, Unrecorded
  <2>11. HelperHeld'
    BY <2>1, <2>2, <2>3, <2>4 DEF FsHold, HelperHeld
  <2>12. InUse' => image'
    BY <2>1, <2>2, <2>3, <2>4 DEF FsHold, InUse, FsPlaced, FsWorking, FsSteps, FsRuns, FsBare, Alive
  <2> QED BY <2>6, <2>7, <2>9, <2>10, <2>11, <2>12, <2>3 DEF FsHold
<1> QED BY <1>1, <1>2

\* FsCheck keeps what the lab holds of the world.
LEMMA FsCheckHolds ==
  ASSUME Types, FsHold, FsCheck
  PROVE  FsHold' /\ deletion' = deletion
<1>1. fs.at = "script" /\ fs.step \in 1..18 /\ ScriptStep
  BY InScript DEF FsCheck, Step, FsHold, ScriptStep, RemoveFixture
<1>2. fs.at = "script" /\ ScriptStep /\ (fs.step = 3 \/ fs.step \in {4, 9, 12, 16})
  BY <1>1, StepNumbers DEF FsCheck, Step, RemoveFixture
<1>3. /\ fs'.at = "script"
      /\ fs'.step = fs.step + 1 /\ fs'.device = fs.device /\ fs'.daemon = fs.daemon
      /\ fs'.command = fs.command /\ fs'.recovering = fs.recovering
  BY <1>2 DEF FsCheck, Proceed, Fails, AfterCleanup, RunHelper, HelperSucceeded, Types, FsType,
     FsOK, ScriptStep
<1>4. /\ devices' = devices
      /\ daemon' = daemon
      /\ reap' = reap
      /\ deletion' = deletion
      /\ image' = image
      /\ mount' = mount
      /\ helper' = helper
  BY <1>2 DEF FsCheck, worldVars, kernelVars, processVars, fileVars, helperVars, mountVars, Spawn,
     NoDaemon, BeginCleanup, HelperSucceeded, RemoveFixture, Types, WorldType, KernelType,
     ProcessType, Device, FsHold, HelperHeld
<1>5. OwnDevices' = OwnDevices
  BY <1>4 DEF OwnDevices
<1>6. FsHeld' /\ FsReap'
  BY <1>2, <1>3, <1>4 DEF FsHold, FsHeld, FsReap, FsPlaced, FsBare, FsRuns, ScriptStep
<1>7. FsKnown'
  BY <1>2, <1>3, <1>4, NoneNotId
     DEF FsHold, FsKnown, FsPlaced, FsWorking, FsBare, Unrecorded, ScriptStep, FsSteps
<1>8. Alive => daemon # NoDaemon
  BY DEF Alive, NoDaemon
<1>9. FsPlaced'
  BY <1>2, <1>3, <1>4, <1>8
     DEF FsHold, FsHeld, FsReap, FsPlaced, FsWorking, FsBare, FsRuns, FsSteps, Alive, ScriptStep
<1>10. FsOwns'
  BY <1>2, <1>3, <1>4, <1>5, NoneNotId
     DEF FsHold, FsOwns, OwnDevices, FsPlaced, FsWorking, FsSteps, FsBare, FsRuns, Unrecorded,
     ScriptStep
<1>11. HelperHeld'
  BY <1>2, <1>3, <1>4 DEF FsHold, HelperHeld
<1>12. InUse' => image'
  BY <1>2, <1>3, <1>4 DEF FsHold, InUse, FsPlaced, FsWorking, FsSteps, FsRuns, FsBare, Alive,
     ScriptStep
<1> QED BY <1>6, <1>7, <1>9, <1>10, <1>11, <1>12, <1>4 DEF FsHold

\* FsFormatXfs keeps what the lab holds of the world.
LEMMA FsFormatXfsHolds ==
  ASSUME Types, FsHold, FsFormatXfs
  PROVE  FsHold' /\ deletion' = deletion
<1>1. fs.at = "script" /\ fs.step \in 1..18 /\ ScriptStep
  BY InScript DEF FsFormatXfs, Step, FsHold, ScriptStep, RemoveFixture
<1>2. fs.at = "script" /\ ScriptStep /\ (fs.step = 3)
  BY <1>1, StepNumbers DEF FsFormatXfs, Step, RemoveFixture
<1>3. /\ fs'.at = "formatting"
      /\ fs'.step = fs.step /\ fs'.device = fs.device /\ fs'.daemon = fs.daemon
      /\ fs'.command = TRUE /\ fs'.recovering = fs.recovering
  BY <1>2 DEF FsFormatXfs, Proceed, Fails, AfterCleanup, RunHelper, HelperSucceeded, Types, FsType,
     FsOK, ScriptStep
<1>4. /\ devices' = devices
      /\ daemon' = daemon
      /\ reap' = reap
      /\ deletion' = deletion
      /\ image' = image
      /\ mount' = mount
  BY <1>2 DEF FsFormatXfs, worldVars, kernelVars, processVars, fileVars, helperVars, mountVars,
     Spawn, NoDaemon, BeginCleanup, HelperSucceeded, RemoveFixture, Types, WorldType, KernelType,
     ProcessType, Device, FsHold, HelperHeld
<1>5. OwnDevices' = OwnDevices
  BY <1>4 DEF OwnDevices
<1>6. FsHeld' /\ FsReap'
  BY <1>2, <1>3, <1>4 DEF FsHold, FsHeld, FsReap, FsPlaced, FsBare, FsRuns, ScriptStep
<1>7. FsKnown'
  BY <1>2, <1>3, <1>4, NoneNotId
     DEF FsHold, FsKnown, FsPlaced, FsWorking, FsBare, Unrecorded, ScriptStep, FsSteps
<1>8. Alive => daemon # NoDaemon
  BY DEF Alive, NoDaemon
<1>9. FsPlaced'
  BY <1>2, <1>3, <1>4, <1>8
     DEF FsHold, FsHeld, FsReap, FsPlaced, FsWorking, FsBare, FsRuns, FsSteps, Alive, ScriptStep
<1>10. FsOwns'
  BY <1>2, <1>3, <1>4, <1>5, NoneNotId
     DEF FsHold, FsOwns, OwnDevices, FsPlaced, FsWorking, FsSteps, FsBare, FsRuns, Unrecorded,
     ScriptStep
<1>11. HelperHeld'
  BY <1>2, <1>3, <1>4 DEF FsHold, HelperHeld
<1>12. InUse' => image'
  BY <1>2, <1>3, <1>4 DEF FsHold, InUse, FsPlaced, FsWorking, FsSteps, FsRuns, FsBare, Alive,
     ScriptStep
<1> QED BY <1>6, <1>7, <1>9, <1>10, <1>11, <1>12, <1>4 DEF FsHold

\* FsFormattedXfs keeps what the lab holds of the world.
LEMMA FsFormattedXfsHolds ==
  ASSUME Types, FsHold, FsFormattedXfs
  PROVE  FsHold' /\ deletion' = deletion
<1>1. fs.at = "formatting" /\ ~fs.recovering /\ fs.step = 3
  BY DEF FsFormattedXfs, HelperSucceeded, Step, FsHold, FsPlaced, FsWorking, FsSteps
<1>2. /\ fs'.at = "script"
      /\ fs'.step = fs.step + 1 /\ fs'.device = fs.device /\ fs'.daemon = fs.daemon
      /\ fs'.command = FALSE /\ fs'.recovering = fs.recovering
  BY <1>1 DEF FsFormattedXfs, Proceed, Fails, AfterCleanup, RunHelper, HelperSucceeded, Types,
     FsType, FsOK
<1>3. /\ devices' = devices
      /\ daemon' = daemon
      /\ reap' = reap
      /\ deletion' = deletion
      /\ image' = image
      /\ mount' = mount
      /\ helper' = NoHelper
  BY <1>1 DEF FsFormattedXfs, worldVars, kernelVars, processVars, fileVars, helperVars, mountVars,
     Spawn, NoDaemon, BeginCleanup, HelperSucceeded, RemoveFixture, Types, WorldType, KernelType,
     ProcessType, Device, FsHold, HelperHeld
<1>4. OwnDevices' = OwnDevices
  BY <1>3 DEF OwnDevices
<1>5. FsHeld' /\ FsReap'
  BY <1>1, <1>2, <1>3 DEF FsHold, FsHeld, FsReap, FsPlaced, FsBare, FsRuns
<1>6. FsKnown'
  BY <1>1, <1>2, <1>3, NoneNotId
     DEF FsHold, FsKnown, FsPlaced, FsWorking, FsBare, Unrecorded, FsSteps
<1>7. Alive => daemon # NoDaemon
  BY DEF Alive, NoDaemon
<1>8. FsPlaced'
  BY <1>1, <1>2, <1>3, <1>7
     DEF FsHold, FsHeld, FsReap, FsPlaced, FsWorking, FsBare, FsRuns, FsSteps, Alive
<1>9. FsOwns'
  BY <1>1, <1>2, <1>3, <1>4, NoneNotId
     DEF FsHold, FsOwns, OwnDevices, FsPlaced, FsWorking, FsSteps, FsBare, FsRuns, Unrecorded
<1>10. HelperHeld'
  BY <1>1, <1>2, <1>3 DEF FsHold, HelperHeld
<1>11. InUse' => image'
  BY <1>1, <1>2, <1>3 DEF FsHold, InUse, FsPlaced, FsWorking, FsSteps, FsRuns, FsBare, Alive
<1> QED BY <1>5, <1>6, <1>8, <1>9, <1>10, <1>11, <1>3 DEF FsHold

\* FsMount keeps what the lab holds of the world.
LEMMA FsMountHolds ==
  ASSUME Types, FsHold, FsMount
  PROVE  FsHold' /\ deletion' = deletion
<1>1. fs.at = "script" /\ fs.step \in 1..18 /\ ScriptStep
  BY InScript DEF FsMount, Step, FsHold, ScriptStep, RemoveFixture
<1>2. fs.at = "script" /\ ScriptStep /\ (fs.step \in {5, 13})
  BY <1>1, StepNumbers DEF FsMount, Step, RemoveFixture
<1>3. /\ fs'.at = "mounting"
      /\ fs'.step = fs.step /\ fs'.device = fs.device /\ fs'.daemon = fs.daemon
      /\ fs'.command = TRUE /\ fs'.recovering = fs.recovering
  BY <1>2 DEF FsMount, Proceed, Fails, AfterCleanup, RunHelper, HelperSucceeded, Types, FsType,
     FsOK, ScriptStep
<1>4. /\ devices' = devices
      /\ daemon' = daemon
      /\ reap' = reap
      /\ deletion' = deletion
      /\ image' = image
      /\ mount' = mount
  BY <1>2 DEF FsMount, worldVars, kernelVars, processVars, fileVars, helperVars, mountVars, Spawn,
     NoDaemon, BeginCleanup, HelperSucceeded, RemoveFixture, Types, WorldType, KernelType,
     ProcessType, Device, FsHold, HelperHeld
<1>5. OwnDevices' = OwnDevices
  BY <1>4 DEF OwnDevices
<1>6. FsHeld' /\ FsReap'
  BY <1>2, <1>3, <1>4 DEF FsHold, FsHeld, FsReap, FsPlaced, FsBare, FsRuns, ScriptStep
<1>7. FsKnown'
  BY <1>2, <1>3, <1>4, NoneNotId
     DEF FsHold, FsKnown, FsPlaced, FsWorking, FsBare, Unrecorded, ScriptStep, FsSteps
<1>8. Alive => daemon # NoDaemon
  BY DEF Alive, NoDaemon
<1>9. FsPlaced'
  BY <1>2, <1>3, <1>4, <1>8
     DEF FsHold, FsHeld, FsReap, FsPlaced, FsWorking, FsBare, FsRuns, FsSteps, Alive, ScriptStep
<1>10. FsOwns'
  BY <1>2, <1>3, <1>4, <1>5, NoneNotId
     DEF FsHold, FsOwns, OwnDevices, FsPlaced, FsWorking, FsSteps, FsBare, FsRuns, Unrecorded,
     ScriptStep
<1>11. HelperHeld'
  BY <1>2, <1>3, <1>4 DEF FsHold, HelperHeld
<1>12. InUse' => image'
  BY <1>2, <1>3, <1>4 DEF FsHold, InUse, FsPlaced, FsWorking, FsSteps, FsRuns, FsBare, Alive,
     ScriptStep
<1> QED BY <1>6, <1>7, <1>9, <1>10, <1>11, <1>12, <1>4 DEF FsHold

\* FsUnmount keeps what the lab holds of the world.
LEMMA FsUnmountHolds ==
  ASSUME Types, FsHold, FsUnmount
  PROVE  FsHold' /\ deletion' = deletion
<1>1. CASE fs.at = "script"
  <2>1. fs.at = "script" /\ fs.step \in 1..18 /\ ScriptStep
    BY <1>1, InScript DEF FsUnmount, Step, FsHold, ScriptStep, RemoveFixture
  <2>2. fs.at = "script" /\ ScriptStep /\ (fs.step \in {8, 15}) /\ fs.daemon /\
          fs.device # Unrecorded
    BY <2>1, <1>1, StepNumbers DEF FsUnmount, Step, RemoveFixture, RequireMounted, Validated
  <2>3. /\ fs'.at = "unmounting"
        /\ fs'.step = fs.step /\ fs'.device = fs.device /\ fs'.daemon = fs.daemon
        /\ fs'.command = TRUE /\ fs'.recovering = fs.recovering
    BY <2>2, <1>1 DEF FsUnmount, Proceed, Fails, AfterCleanup, RunHelper, HelperSucceeded, Types,
       FsType, FsOK, ScriptStep
  <2>4. /\ devices' = devices
        /\ daemon' = daemon
        /\ reap' = reap
        /\ deletion' = deletion
        /\ image' = image
        /\ mount' = mount
    BY <2>2, <1>1 DEF FsUnmount, worldVars, kernelVars, processVars, fileVars, helperVars,
       mountVars, Spawn, NoDaemon, BeginCleanup, HelperSucceeded, RemoveFixture, Types, WorldType,
       KernelType, ProcessType, Device, FsHold, HelperHeld
  <2>5. OwnDevices' = OwnDevices
    BY <2>4 DEF OwnDevices
  <2>6. FsHeld' /\ FsReap'
    BY <2>2, <2>3, <2>4 DEF FsHold, FsHeld, FsReap, FsPlaced, FsBare, FsRuns, ScriptStep
  <2>7. FsKnown'
    BY <2>2, <2>3, <2>4, NoneNotId
       DEF FsHold, FsKnown, FsPlaced, FsWorking, FsBare, Unrecorded, ScriptStep, FsSteps
  <2>8. Alive => daemon # NoDaemon
    BY DEF Alive, NoDaemon
  <2>9. FsPlaced'
    BY <2>2, <2>3, <2>4, <2>8
       DEF FsHold, FsHeld, FsReap, FsPlaced, FsWorking, FsBare, FsRuns, FsSteps, Alive, ScriptStep
  <2>10. FsOwns'
    BY <2>2, <2>3, <2>4, <2>5, NoneNotId
       DEF FsHold, FsOwns, OwnDevices, FsPlaced, FsWorking, FsSteps, FsBare, FsRuns, Unrecorded,
       ScriptStep
  <2>11. HelperHeld'
    BY <2>2, <2>3, <2>4 DEF FsHold, HelperHeld
  <2>12. InUse' => image'
    BY <2>2, <2>3, <2>4 DEF FsHold, InUse, FsPlaced, FsWorking, FsSteps, FsRuns, FsBare, Alive,
       ScriptStep
  <2> QED BY <2>6, <2>7, <2>9, <2>10, <2>11, <2>12, <2>4 DEF FsHold
<1>2. CASE fs.at # "script"
  <2>1. fs.at = "recover_mounted" /\ fs.daemon /\ fs.device # Unrecorded
    BY <1>2 DEF FsUnmount, HelperSucceeded, Step, FsHold, FsPlaced, FsWorking, FsSteps,
       RequireMounted, Validated
  <2>2. /\ fs'.at = "unmounting"
        /\ fs'.step = fs.step /\ fs'.device = fs.device /\ fs'.daemon = fs.daemon
        /\ fs'.command = TRUE /\ fs'.recovering = fs.recovering
    BY <2>1, <1>2 DEF FsUnmount, Proceed, Fails, AfterCleanup, RunHelper, HelperSucceeded, Types,
       FsType, FsOK
  <2>3. /\ devices' = devices
        /\ daemon' = daemon
        /\ reap' = reap
        /\ deletion' = deletion
        /\ image' = image
        /\ mount' = mount
    BY <2>1, <1>2 DEF FsUnmount, worldVars, kernelVars, processVars, fileVars, helperVars,
       mountVars, Spawn, NoDaemon, BeginCleanup, HelperSucceeded, RemoveFixture, Types, WorldType,
       KernelType, ProcessType, Device, FsHold, HelperHeld
  <2>4. OwnDevices' = OwnDevices
    BY <2>3 DEF OwnDevices
  <2>5. FsHeld' /\ FsReap'
    BY <2>1, <2>2, <2>3 DEF FsHold, FsHeld, FsReap, FsPlaced, FsBare, FsRuns
  <2>6. FsKnown'
    BY <2>1, <2>2, <2>3, NoneNotId
       DEF FsHold, FsKnown, FsPlaced, FsWorking, FsBare, Unrecorded, FsSteps
  <2>7. Alive => daemon # NoDaemon
    BY DEF Alive, NoDaemon
  <2>8. FsPlaced'
    BY <2>1, <2>2, <2>3, <2>7
       DEF FsHold, FsHeld, FsReap, FsPlaced, FsWorking, FsBare, FsRuns, FsSteps, Alive
  <2>9. FsOwns'
    BY <2>1, <2>2, <2>3, <2>4, NoneNotId
       DEF FsHold, FsOwns, OwnDevices, FsPlaced, FsWorking, FsSteps, FsBare, FsRuns, Unrecorded
  <2>10. HelperHeld'
    BY <2>1, <2>2, <2>3 DEF FsHold, HelperHeld
  <2>11. InUse' => image'
    BY <2>1, <2>2, <2>3 DEF FsHold, InUse, FsPlaced, FsWorking, FsSteps, FsRuns, FsBare, Alive
  <2> QED BY <2>5, <2>6, <2>8, <2>9, <2>10, <2>11, <2>3 DEF FsHold
<1> QED BY <1>1, <1>2

\* FsUnmounted keeps what the lab holds of the world.
LEMMA FsUnmountedHolds ==
  ASSUME Types, FsHold, NEW verified \in BOOLEAN, FsUnmounted(verified)
  PROVE  FsHold' /\ deletion' = deletion
<1>1. CASE ~verified
  <2>1. fs.at = "unmounting"
    BY <1>1 DEF FsUnmounted, HelperSucceeded, Step, FsHold, FsPlaced, FsWorking, FsSteps
  <2>2. /\ (fs.recovering => fs'.at = "drop") /\ (~fs.recovering => fs'.at = "failed")
        /\ fs'.step = fs.step /\ fs'.device = fs.device /\ fs'.daemon = fs.daemon
        /\ fs'.command = FALSE /\ fs'.recovering = fs.recovering
    BY <2>1, <1>1 DEF FsUnmounted, Proceed, Fails, AfterCleanup, RunHelper, HelperSucceeded, Types,
       FsType, FsOK
  <2>3. /\ devices' = devices
        /\ daemon' = daemon
        /\ reap' = reap
        /\ deletion' = deletion
        /\ image' = image
        /\ mount' = mount
        /\ helper' = NoHelper
    BY <2>1, <1>1 DEF FsUnmounted, worldVars, kernelVars, processVars, fileVars, helperVars,
       mountVars, Spawn, NoDaemon, BeginCleanup, HelperSucceeded, RemoveFixture, Types, WorldType,
       KernelType, ProcessType, Device, FsHold, HelperHeld
  <2>4. OwnDevices' = OwnDevices
    BY <2>3 DEF OwnDevices
  <2>5. FsHeld' /\ FsReap'
    BY <2>1, <2>2, <2>3 DEF FsHold, FsHeld, FsReap, FsPlaced, FsBare, FsRuns
  <2>6. FsKnown'
    BY <2>1, <2>2, <2>3, NoneNotId
       DEF FsHold, FsKnown, FsPlaced, FsWorking, FsBare, Unrecorded, FsSteps
  <2>7. Alive => daemon # NoDaemon
    BY DEF Alive, NoDaemon
  <2>8. FsPlaced'
    BY <2>1, <2>2, <2>3, <2>7
       DEF FsHold, FsHeld, FsReap, FsPlaced, FsWorking, FsBare, FsRuns, FsSteps, Alive
  <2>9. FsOwns'
    BY <2>1, <2>2, <2>3, <2>4, NoneNotId
       DEF FsHold, FsOwns, OwnDevices, FsPlaced, FsWorking, FsSteps, FsBare, FsRuns, Unrecorded
  <2>10. HelperHeld'
    BY <2>1, <2>2, <2>3 DEF FsHold, HelperHeld
  <2>11. InUse' => image'
    BY <2>1, <2>2, <2>3 DEF FsHold, InUse, FsPlaced, FsWorking, FsSteps, FsRuns, FsBare, Alive
  <2> QED BY <2>5, <2>6, <2>8, <2>9, <2>10, <2>11, <2>3 DEF FsHold
<1>2. CASE verified /\ fs.recovering
  <2>1. fs.at = "unmounting" /\ fs.recovering
    BY <1>2 DEF FsUnmounted, HelperSucceeded, Step, FsHold, FsPlaced, FsWorking, FsSteps
  <2>2. /\ fs'.at = "recover_stop"
        /\ fs'.step = fs.step /\ fs'.device = fs.device /\ fs'.daemon = fs.daemon
        /\ fs'.command = FALSE /\ fs'.recovering = fs.recovering
    BY <2>1, <1>2 DEF FsUnmounted, Proceed, Fails, AfterCleanup, RunHelper, HelperSucceeded, Types,
       FsType, FsOK
  <2>3. /\ devices' = devices
        /\ daemon' = daemon
        /\ reap' = reap
        /\ deletion' = deletion
        /\ image' = image
        /\ mount' = mount
        /\ helper' = NoHelper
    BY <2>1, <1>2 DEF FsUnmounted, worldVars, kernelVars, processVars, fileVars, helperVars,
       mountVars, Spawn, NoDaemon, BeginCleanup, HelperSucceeded, RemoveFixture, Types, WorldType,
       KernelType, ProcessType, Device, FsHold, HelperHeld
  <2>4. OwnDevices' = OwnDevices
    BY <2>3 DEF OwnDevices
  <2>5. FsHeld' /\ FsReap'
    BY <2>1, <2>2, <2>3 DEF FsHold, FsHeld, FsReap, FsPlaced, FsBare, FsRuns
  <2>6. FsKnown'
    BY <2>1, <2>2, <2>3, NoneNotId
       DEF FsHold, FsKnown, FsPlaced, FsWorking, FsBare, Unrecorded, FsSteps
  <2>7. Alive => daemon # NoDaemon
    BY DEF Alive, NoDaemon
  <2>8. FsPlaced'
    BY <2>1, <2>2, <2>3, <2>7
       DEF FsHold, FsHeld, FsReap, FsPlaced, FsWorking, FsBare, FsRuns, FsSteps, Alive
  <2>9. FsOwns'
    BY <2>1, <2>2, <2>3, <2>4, NoneNotId
       DEF FsHold, FsOwns, OwnDevices, FsPlaced, FsWorking, FsSteps, FsBare, FsRuns, Unrecorded
  <2>10. HelperHeld'
    BY <2>1, <2>2, <2>3 DEF FsHold, HelperHeld
  <2>11. InUse' => image'
    BY <2>1, <2>2, <2>3 DEF FsHold, InUse, FsPlaced, FsWorking, FsSteps, FsRuns, FsBare, Alive
  <2> QED BY <2>5, <2>6, <2>8, <2>9, <2>10, <2>11, <2>3 DEF FsHold
<1>3. CASE verified /\ ~fs.recovering
  <2>1. fs.at = "unmounting" /\ ~fs.recovering /\ fs.step \in {8, 15}
    BY <1>3 DEF FsUnmounted, HelperSucceeded, Step, FsHold, FsPlaced, FsWorking, FsSteps
  <2>2. /\ fs'.at = "script"
        /\ fs'.step = fs.step + 1 /\ fs'.device = fs.device /\ fs'.daemon = fs.daemon
        /\ fs'.command = FALSE /\ fs'.recovering = fs.recovering
    BY <2>1, <1>3 DEF FsUnmounted, Proceed, Fails, AfterCleanup, RunHelper, HelperSucceeded, Types,
       FsType, FsOK
  <2>3. /\ devices' = devices
        /\ daemon' = daemon
        /\ reap' = reap
        /\ deletion' = deletion
        /\ image' = image
        /\ mount' = mount
        /\ helper' = NoHelper
    BY <2>1, <1>3 DEF FsUnmounted, worldVars, kernelVars, processVars, fileVars, helperVars,
       mountVars, Spawn, NoDaemon, BeginCleanup, HelperSucceeded, RemoveFixture, Types, WorldType,
       KernelType, ProcessType, Device, FsHold, HelperHeld
  <2>4. OwnDevices' = OwnDevices
    BY <2>3 DEF OwnDevices
  <2>5. FsHeld' /\ FsReap'
    BY <2>1, <2>2, <2>3 DEF FsHold, FsHeld, FsReap, FsPlaced, FsBare, FsRuns
  <2>6. FsKnown'
    BY <2>1, <2>2, <2>3, NoneNotId
       DEF FsHold, FsKnown, FsPlaced, FsWorking, FsBare, Unrecorded, FsSteps
  <2>7. Alive => daemon # NoDaemon
    BY DEF Alive, NoDaemon
  <2>8. FsPlaced'
    BY <2>1, <2>2, <2>3, <2>7
       DEF FsHold, FsHeld, FsReap, FsPlaced, FsWorking, FsBare, FsRuns, FsSteps, Alive
  <2>9. FsOwns'
    BY <2>1, <2>2, <2>3, <2>4, NoneNotId
       DEF FsHold, FsOwns, OwnDevices, FsPlaced, FsWorking, FsSteps, FsBare, FsRuns, Unrecorded
  <2>10. HelperHeld'
    BY <2>1, <2>2, <2>3 DEF FsHold, HelperHeld
  <2>11. InUse' => image'
    BY <2>1, <2>2, <2>3 DEF FsHold, InUse, FsPlaced, FsWorking, FsSteps, FsRuns, FsBare, Alive
  <2> QED BY <2>5, <2>6, <2>8, <2>9, <2>10, <2>11, <2>3 DEF FsHold
<1> QED BY <1>1, <1>2, <1>3

\* FsTerminate keeps what the lab holds of the world.
LEMMA FsTerminateHolds ==
  ASSUME Types, FsHold, FsTerminate
  PROVE  FsHold' /\ deletion' = deletion
<1>1. fs.at = "term"
  BY DEF FsTerminate, HelperSucceeded, Step, FsHold, FsPlaced, FsWorking, FsSteps
<1>2. /\ fs'.at = "exit"
      /\ fs'.step = fs.step /\ fs'.device = fs.device /\ fs'.daemon = fs.daemon
      /\ fs'.command = fs.command /\ fs'.recovering = fs.recovering
  BY <1>1 DEF FsTerminate, Proceed, Fails, AfterCleanup, RunHelper, HelperSucceeded, Types, FsType,
     FsOK
<1>3. /\ devices' = devices
      /\ daemon'.state = daemon.state
      /\ daemon = NoDaemon => daemon' = NoDaemon
      /\ Alive' = Alive
      /\ daemon'.id = daemon.id
      /\ reap' = reap
      /\ deletion' = deletion
      /\ image' = image
      /\ mount' = mount
      /\ helper' = helper
  BY <1>1, SignalKeeps DEF FsTerminate, worldVars, kernelVars, processVars, fileVars, helperVars,
     mountVars, Spawn, NoDaemon, BeginCleanup, HelperSucceeded, RemoveFixture, Types, WorldType,
     KernelType, ProcessType, Device, FsHold, HelperHeld
<1>4. OwnDevices' = OwnDevices
  BY <1>3 DEF OwnDevices
<1>5. FsHeld' /\ FsReap'
  BY <1>1, <1>2, <1>3 DEF FsHold, FsHeld, FsReap, FsPlaced, FsBare, FsRuns
<1>6. FsKnown'
  BY <1>1, <1>2, <1>3, NoneNotId
     DEF FsHold, FsKnown, FsPlaced, FsWorking, FsBare, Unrecorded, FsSteps
<1>7. Alive => daemon # NoDaemon
  BY DEF Alive, NoDaemon
<1>8. FsPlaced'
  BY <1>1, <1>2, <1>3, <1>7
     DEF FsHold, FsHeld, FsReap, FsPlaced, FsWorking, FsBare, FsRuns, FsSteps, Alive
<1>9. FsOwns'
  BY <1>1, <1>2, <1>3, <1>4, NoneNotId
     DEF FsHold, FsOwns, OwnDevices, FsPlaced, FsWorking, FsSteps, FsBare, FsRuns, Unrecorded
<1>10. HelperHeld'
  BY <1>1, <1>2, <1>3 DEF FsHold, HelperHeld
<1>11. InUse' => image'
  BY <1>1, <1>2, <1>3 DEF FsHold, InUse, FsPlaced, FsWorking, FsSteps, FsRuns, FsBare, Alive
<1> QED BY <1>5, <1>6, <1>8, <1>9, <1>10, <1>11, <1>3 DEF FsHold

\* FsExited keeps what the lab holds of the world.
LEMMA FsExitedHolds ==
  ASSUME Types, FsHold, FsExited
  PROVE  FsHold' /\ deletion' = deletion
<1>1. fs.at = "exit" /\ daemon.state = "exited" /\ ~Alive
  BY DEF FsExited, HelperSucceeded, Step, FsHold, FsPlaced, FsWorking, FsSteps, Alive
<1>2. /\ fs'.at = "reap"
      /\ fs'.step = fs.step /\ fs'.device = fs.device /\ fs'.daemon = fs.daemon
      /\ fs'.command = fs.command /\ fs'.recovering = fs.recovering
  BY <1>1 DEF FsExited, Proceed, Fails, AfterCleanup, RunHelper, HelperSucceeded, Types, FsType,
     FsOK
<1>3. /\ devices' = devices
      /\ daemon'.state = daemon.state
      /\ daemon = NoDaemon => daemon' = NoDaemon
      /\ Alive' = Alive
      /\ daemon'.id = daemon.id
      /\ reap' = "grace"
      /\ deletion' = deletion
      /\ image' = image
      /\ mount' = mount
      /\ helper' = helper
  BY <1>1, SignalKeeps DEF FsExited, worldVars, kernelVars, processVars, fileVars, helperVars,
     mountVars, Spawn, NoDaemon, BeginCleanup, HelperSucceeded, RemoveFixture, Types, WorldType,
     KernelType, ProcessType, Device, FsHold, HelperHeld
<1>4. OwnDevices' = OwnDevices
  BY <1>3 DEF OwnDevices
<1>5. FsHeld' /\ FsReap'
  BY <1>1, <1>2, <1>3 DEF FsHold, FsHeld, FsReap, FsPlaced, FsBare, FsRuns
<1>6. FsKnown'
  BY <1>1, <1>2, <1>3, NoneNotId
     DEF FsHold, FsKnown, FsPlaced, FsWorking, FsBare, Unrecorded, FsSteps
<1>7. Alive => daemon # NoDaemon
  BY DEF Alive, NoDaemon
<1>8. FsPlaced'
  BY <1>1, <1>2, <1>3, <1>7
     DEF FsHold, FsHeld, FsReap, FsPlaced, FsWorking, FsBare, FsRuns, FsSteps, Alive
<1>9. FsOwns'
  BY <1>1, <1>2, <1>3, <1>4, NoneNotId
     DEF FsHold, FsOwns, OwnDevices, FsPlaced, FsWorking, FsSteps, FsBare, FsRuns, Unrecorded
<1>10. HelperHeld'
  BY <1>1, <1>2, <1>3 DEF FsHold, HelperHeld
<1>11. InUse' => image'
  BY <1>1, <1>2, <1>3 DEF FsHold, InUse, FsPlaced, FsWorking, FsSteps, FsRuns, FsBare, Alive
<1> QED BY <1>5, <1>6, <1>8, <1>9, <1>10, <1>11, <1>3 DEF FsHold

\* FsReaped keeps what the lab holds of the world.
LEMMA FsReapedHolds ==
  ASSUME Types, FsHold, FsReaped
  PROVE  FsHold' /\ deletion' = deletion
<1>1. CASE reap = "ok"
  <2>1. fs.at = "reap" /\ daemon = NoDaemon
    BY <1>1 DEF FsReaped, HelperSucceeded, Step, FsHold, FsPlaced, FsWorking, FsSteps, FsHold,
       FsReap
  <2>2. /\ fs'.at = "gone"
        /\ fs'.step = fs.step /\ fs'.device = fs.device /\ fs'.daemon = fs.daemon
        /\ fs'.command = fs.command /\ fs'.recovering = fs.recovering
    BY <2>1, <1>1 DEF FsReaped, Proceed, Fails, AfterCleanup, RunHelper, HelperSucceeded, Types,
       FsType, FsOK
  <2>3. /\ devices' = devices
        /\ daemon' = daemon
        /\ reap' = "idle"
        /\ deletion' = deletion
        /\ image' = image
        /\ mount' = mount
        /\ helper' = helper
    BY <2>1, <1>1 DEF FsReaped, worldVars, kernelVars, processVars, fileVars, helperVars, mountVars,
       Spawn, NoDaemon, BeginCleanup, HelperSucceeded, RemoveFixture, Types, WorldType, KernelType,
       ProcessType, Device, FsHold, HelperHeld
  <2>4. OwnDevices' = OwnDevices
    BY <2>3 DEF OwnDevices
  <2>5. FsHeld' /\ FsReap'
    BY <2>1, <2>2, <2>3 DEF FsHold, FsHeld, FsReap, FsPlaced, FsBare, FsRuns
  <2>6. FsKnown'
    BY <2>1, <2>2, <2>3, NoneNotId
       DEF FsHold, FsKnown, FsPlaced, FsWorking, FsBare, Unrecorded, FsSteps
  <2>7. Alive => daemon # NoDaemon
    BY DEF Alive, NoDaemon
  <2>8. FsPlaced'
    BY <2>1, <2>2, <2>3, <2>7
       DEF FsHold, FsHeld, FsReap, FsPlaced, FsWorking, FsBare, FsRuns, FsSteps, Alive
  <2>9. FsOwns'
    BY <2>1, <2>2, <2>3, <2>4, NoneNotId
       DEF FsHold, FsOwns, OwnDevices, FsPlaced, FsWorking, FsSteps, FsBare, FsRuns, Unrecorded
  <2>10. HelperHeld'
    BY <2>1, <2>2, <2>3 DEF FsHold, HelperHeld
  <2>11. InUse' => image'
    BY <2>1, <2>2, <2>3 DEF FsHold, InUse, FsPlaced, FsWorking, FsSteps, FsRuns, FsBare, Alive
  <2> QED BY <2>5, <2>6, <2>8, <2>9, <2>10, <2>11, <2>3 DEF FsHold
<1>2. CASE reap # "ok"
  <2>1. fs.at = "reap"
    BY <1>2 DEF FsReaped, HelperSucceeded, Step, FsHold, FsPlaced, FsWorking, FsSteps
  <2>2. /\ (fs.recovering => fs'.at = "drop") /\ (~fs.recovering => fs'.at = "failed")
        /\ fs'.step = fs.step /\ fs'.device = fs.device /\ fs'.daemon = fs.daemon
        /\ fs'.command = fs.command /\ fs'.recovering = fs.recovering
    BY <2>1, <1>2 DEF FsReaped, Proceed, Fails, AfterCleanup, RunHelper, HelperSucceeded, Types,
       FsType, FsOK
  <2>3. /\ devices' = devices
        /\ daemon' = daemon
        /\ reap' = "idle"
        /\ deletion' = deletion
        /\ image' = image
        /\ mount' = mount
        /\ helper' = helper
    BY <2>1, <1>2 DEF FsReaped, worldVars, kernelVars, processVars, fileVars, helperVars, mountVars,
       Spawn, NoDaemon, BeginCleanup, HelperSucceeded, RemoveFixture, Types, WorldType, KernelType,
       ProcessType, Device, FsHold, HelperHeld
  <2>4. OwnDevices' = OwnDevices
    BY <2>3 DEF OwnDevices
  <2>5. FsHeld' /\ FsReap'
    BY <2>1, <2>2, <2>3 DEF FsHold, FsHeld, FsReap, FsPlaced, FsBare, FsRuns
  <2>6. FsKnown'
    BY <2>1, <2>2, <2>3, NoneNotId
       DEF FsHold, FsKnown, FsPlaced, FsWorking, FsBare, Unrecorded, FsSteps
  <2>7. Alive => daemon # NoDaemon
    BY DEF Alive, NoDaemon
  <2>8. FsPlaced'
    BY <2>1, <2>2, <2>3, <2>7
       DEF FsHold, FsHeld, FsReap, FsPlaced, FsWorking, FsBare, FsRuns, FsSteps, Alive
  <2>9. FsOwns'
    BY <2>1, <2>2, <2>3, <2>4, NoneNotId
       DEF FsHold, FsOwns, OwnDevices, FsPlaced, FsWorking, FsSteps, FsBare, FsRuns, Unrecorded
  <2>10. HelperHeld'
    BY <2>1, <2>2, <2>3 DEF FsHold, HelperHeld
  <2>11. InUse' => image'
    BY <2>1, <2>2, <2>3 DEF FsHold, InUse, FsPlaced, FsWorking, FsSteps, FsRuns, FsBare, Alive
  <2> QED BY <2>5, <2>6, <2>8, <2>9, <2>10, <2>11, <2>3 DEF FsHold
<1> QED BY <1>1, <1>2

\* FsRecover keeps what the lab holds of the world.
LEMMA FsRecoverHolds ==
  ASSUME Types, FsHold, NEW reaped \in BOOLEAN, FsRecover(reaped)
  PROVE  FsHold' /\ deletion' = deletion
<1>1. CASE reaped
  <2>1. fs.at = "failed"
    BY <1>1 DEF FsRecover, HelperSucceeded, Step, FsHold, FsPlaced, FsWorking, FsSteps
  <2>2. /\ fs'.at = "recover"
        /\ fs'.step = fs.step /\ fs'.device = fs.device /\ fs'.daemon = fs.daemon
        /\ fs'.command = FALSE /\ fs'.recovering = TRUE
    BY <2>1, <1>1 DEF FsRecover, Proceed, Fails, AfterCleanup, RunHelper, HelperSucceeded, Types,
       FsType, FsOK
  <2>3. /\ devices' = devices
        /\ daemon' = daemon
        /\ reap' = reap
        /\ deletion' = deletion
        /\ image' = image
        /\ mount' = mount
        /\ helper' = NoHelper
    BY <2>1, <1>1 DEF FsRecover, worldVars, kernelVars, processVars, fileVars, helperVars,
       mountVars, Spawn, NoDaemon, BeginCleanup, HelperSucceeded, RemoveFixture, Types, WorldType,
       KernelType, ProcessType, Device, FsHold, HelperHeld
  <2>4. OwnDevices' = OwnDevices
    BY <2>3 DEF OwnDevices
  <2>5. FsHeld' /\ FsReap'
    BY <2>1, <2>2, <2>3 DEF FsHold, FsHeld, FsReap, FsPlaced, FsBare, FsRuns
  <2>6. FsKnown'
    BY <2>1, <2>2, <2>3, NoneNotId
       DEF FsHold, FsKnown, FsPlaced, FsWorking, FsBare, Unrecorded, FsSteps
  <2>7. Alive => daemon # NoDaemon
    BY DEF Alive, NoDaemon
  <2>8. FsPlaced'
    BY <2>1, <2>2, <2>3, <2>7
       DEF FsHold, FsHeld, FsReap, FsPlaced, FsWorking, FsBare, FsRuns, FsSteps, Alive
  <2>9. FsOwns'
    BY <2>1, <2>2, <2>3, <2>4, NoneNotId
       DEF FsHold, FsOwns, OwnDevices, FsPlaced, FsWorking, FsSteps, FsBare, FsRuns, Unrecorded
  <2>10. HelperHeld'
    BY <2>1, <2>2, <2>3 DEF FsHold, HelperHeld
  <2>11. InUse' => image'
    BY <2>1, <2>2, <2>3 DEF FsHold, InUse, FsPlaced, FsWorking, FsSteps, FsRuns, FsBare, Alive
  <2> QED BY <2>5, <2>6, <2>8, <2>9, <2>10, <2>11, <2>3 DEF FsHold
<1>2. CASE ~reaped
  <2>1. fs.at = "failed" /\ fs.command
    BY <1>2 DEF FsRecover, HelperSucceeded, Step, FsHold, FsPlaced, FsWorking, FsSteps
  <2>2. /\ fs'.at = "drop"
        /\ fs'.step = fs.step /\ fs'.device = fs.device /\ fs'.daemon = fs.daemon
        /\ fs'.command = fs.command /\ fs'.recovering = fs.recovering
    BY <2>1, <1>2 DEF FsRecover, Proceed, Fails, AfterCleanup, RunHelper, HelperSucceeded, Types,
       FsType, FsOK
  <2>3. /\ devices' = devices
        /\ daemon' = daemon
        /\ reap' = reap
        /\ deletion' = deletion
        /\ image' = image
        /\ mount' = mount
    BY <2>1, <1>2 DEF FsRecover, worldVars, kernelVars, processVars, fileVars, helperVars,
       mountVars, Spawn, NoDaemon, BeginCleanup, HelperSucceeded, RemoveFixture, Types, WorldType,
       KernelType, ProcessType, Device, FsHold, HelperHeld
  <2>4. OwnDevices' = OwnDevices
    BY <2>3 DEF OwnDevices
  <2>5. FsHeld' /\ FsReap'
    BY <2>1, <2>2, <2>3 DEF FsHold, FsHeld, FsReap, FsPlaced, FsBare, FsRuns
  <2>6. FsKnown'
    BY <2>1, <2>2, <2>3, NoneNotId
       DEF FsHold, FsKnown, FsPlaced, FsWorking, FsBare, Unrecorded, FsSteps
  <2>7. Alive => daemon # NoDaemon
    BY DEF Alive, NoDaemon
  <2>8. FsPlaced'
    BY <2>1, <2>2, <2>3, <2>7
       DEF FsHold, FsHeld, FsReap, FsPlaced, FsWorking, FsBare, FsRuns, FsSteps, Alive
  <2>9. FsOwns'
    BY <2>1, <2>2, <2>3, <2>4, NoneNotId
       DEF FsHold, FsOwns, OwnDevices, FsPlaced, FsWorking, FsSteps, FsBare, FsRuns, Unrecorded
  <2>10. HelperHeld'
    BY <2>1, <2>2, <2>3 DEF FsHold, HelperHeld
  <2>11. InUse' => image'
    BY <2>1, <2>2, <2>3 DEF FsHold, InUse, FsPlaced, FsWorking, FsSteps, FsRuns, FsBare, Alive
  <2> QED BY <2>5, <2>6, <2>8, <2>9, <2>10, <2>11, <2>3 DEF FsHold
<1> QED BY <1>1, <1>2

\* FsRecoverReaped keeps what the lab holds of the world.
LEMMA FsRecoverReapedHolds ==
  ASSUME Types, FsHold, FsRecoverReaped
  PROVE  FsHold' /\ deletion' = deletion
<1>1. fs.at = "recover_reap"
  BY DEF FsRecoverReaped, HelperSucceeded, Step, FsHold, FsPlaced, FsWorking, FsSteps
<1>2. /\ fs'.at = "drop"
      /\ fs'.step = fs.step /\ fs'.device = fs.device /\ fs'.daemon = (reap # "ok")
      /\ fs'.command = fs.command /\ fs'.recovering = fs.recovering
  BY <1>1 DEF FsRecoverReaped, Proceed, Fails, AfterCleanup, RunHelper, HelperSucceeded, Types,
     FsType, FsOK
<1>3. /\ devices' = devices
      /\ daemon' = daemon
      /\ reap' = "idle"
      /\ deletion' = deletion
      /\ image' = image
      /\ mount' = mount
      /\ helper' = helper
  BY <1>1 DEF FsRecoverReaped, worldVars, kernelVars, processVars, fileVars, helperVars, mountVars,
     Spawn, NoDaemon, BeginCleanup, HelperSucceeded, RemoveFixture, Types, WorldType, KernelType,
     ProcessType, Device, FsHold, HelperHeld
<1>4. OwnDevices' = OwnDevices
  BY <1>3 DEF OwnDevices
<1>5. FsHeld' /\ FsReap'
  BY <1>1, <1>2, <1>3 DEF FsHold, FsHeld, FsReap, FsPlaced, FsBare, FsRuns
<1>6. FsKnown'
  BY <1>1, <1>2, <1>3, NoneNotId
     DEF FsHold, FsKnown, FsPlaced, FsWorking, FsBare, Unrecorded, FsSteps
<1>7. Alive => daemon # NoDaemon
  BY DEF Alive, NoDaemon
<1>8. FsPlaced'
  BY <1>1, <1>2, <1>3, <1>7
     DEF FsHold, FsHeld, FsReap, FsPlaced, FsWorking, FsBare, FsRuns, FsSteps, Alive
<1>9. FsOwns'
  BY <1>1, <1>2, <1>3, <1>4, NoneNotId
     DEF FsHold, FsOwns, OwnDevices, FsPlaced, FsWorking, FsSteps, FsBare, FsRuns, Unrecorded
<1>10. HelperHeld'
  BY <1>1, <1>2, <1>3 DEF FsHold, HelperHeld
<1>11. InUse' => image'
  BY <1>1, <1>2, <1>3 DEF FsHold, InUse, FsPlaced, FsWorking, FsSteps, FsRuns, FsBare, Alive
<1> QED BY <1>5, <1>6, <1>8, <1>9, <1>10, <1>11, <1>3 DEF FsHold

\* FsRecoverDevice keeps what the lab holds of the world.
LEMMA FsRecoverDeviceHolds ==
  ASSUME Types, FsHold, FsRecoverDevice
  PROVE  FsHold' /\ deletion' = deletion
<1>1. fs.at = "recover"
  BY DEF FsRecoverDevice, HelperSucceeded, Step, FsHold, FsPlaced, FsWorking, FsSteps
<1>2. /\ fs'.at \in {"recover_stop", "recover_mounted", "drop"}
      /\ fs'.step = fs.step /\ fs'.device = fs.device /\ fs'.daemon = fs.daemon
      /\ fs'.command = fs.command /\ fs'.recovering = fs.recovering
  BY <1>1 DEF FsRecoverDevice, Proceed, Fails, AfterCleanup, RunHelper, HelperSucceeded, Types,
     FsType, FsOK
<1>3. /\ devices' = devices
      /\ daemon' = daemon
      /\ reap' = reap
      /\ deletion' = deletion
      /\ image' = image
      /\ mount' = mount
      /\ helper' = helper
  BY <1>1 DEF FsRecoverDevice, worldVars, kernelVars, processVars, fileVars, helperVars, mountVars,
     Spawn, NoDaemon, BeginCleanup, HelperSucceeded, RemoveFixture, Types, WorldType, KernelType,
     ProcessType, Device, FsHold, HelperHeld
<1>4. OwnDevices' = OwnDevices
  BY <1>3 DEF OwnDevices
<1>5. FsHeld' /\ FsReap'
  BY <1>1, <1>2, <1>3 DEF FsHold, FsHeld, FsReap, FsPlaced, FsBare, FsRuns
<1>6. FsKnown'
  BY <1>1, <1>2, <1>3, NoneNotId
     DEF FsHold, FsKnown, FsPlaced, FsWorking, FsBare, Unrecorded, FsSteps
<1>7. Alive => daemon # NoDaemon
  BY DEF Alive, NoDaemon
<1>8. FsPlaced'
  BY <1>1, <1>2, <1>3, <1>7
     DEF FsHold, FsHeld, FsReap, FsPlaced, FsWorking, FsBare, FsRuns, FsSteps, Alive
<1>9. FsOwns'
  BY <1>1, <1>2, <1>3, <1>4, NoneNotId
     DEF FsHold, FsOwns, OwnDevices, FsPlaced, FsWorking, FsSteps, FsBare, FsRuns, Unrecorded
<1>10. HelperHeld'
  BY <1>1, <1>2, <1>3 DEF FsHold, HelperHeld
<1>11. InUse' => image'
  BY <1>1, <1>2, <1>3 DEF FsHold, InUse, FsPlaced, FsWorking, FsSteps, FsRuns, FsBare, Alive
<1> QED BY <1>5, <1>6, <1>8, <1>9, <1>10, <1>11, <1>3 DEF FsHold

\* FsUnrecoverable keeps what the lab holds of the world.
LEMMA FsUnrecoverableHolds ==
  ASSUME Types, FsHold, FsUnrecoverable
  PROVE  FsHold' /\ deletion' = deletion
<1>1. fs.at = "failed"
  BY DEF FsUnrecoverable, HelperSucceeded, Step, FsHold, FsPlaced, FsWorking, FsSteps
<1>2. /\ fs'.at = "drop"
      /\ fs'.step = fs.step /\ fs'.device = fs.device /\ fs'.daemon = fs.daemon
      /\ fs'.command = fs.command /\ fs'.recovering = fs.recovering
  BY <1>1 DEF FsUnrecoverable, Proceed, Fails, AfterCleanup, RunHelper, HelperSucceeded, Types,
     FsType, FsOK
<1>3. /\ devices' = devices
      /\ daemon' = daemon
      /\ reap' = reap
      /\ deletion' = deletion
      /\ image' = image
      /\ mount' = mount
      /\ helper' = helper
  BY <1>1 DEF FsUnrecoverable, worldVars, kernelVars, processVars, fileVars, helperVars, mountVars,
     Spawn, NoDaemon, BeginCleanup, HelperSucceeded, RemoveFixture, Types, WorldType, KernelType,
     ProcessType, Device, FsHold, HelperHeld
<1>4. OwnDevices' = OwnDevices
  BY <1>3 DEF OwnDevices
<1>5. FsHeld' /\ FsReap'
  BY <1>1, <1>2, <1>3 DEF FsHold, FsHeld, FsReap, FsPlaced, FsBare, FsRuns
<1>6. FsKnown'
  BY <1>1, <1>2, <1>3, NoneNotId
     DEF FsHold, FsKnown, FsPlaced, FsWorking, FsBare, Unrecorded, FsSteps
<1>7. Alive => daemon # NoDaemon
  BY DEF Alive, NoDaemon
<1>8. FsPlaced'
  BY <1>1, <1>2, <1>3, <1>7
     DEF FsHold, FsHeld, FsReap, FsPlaced, FsWorking, FsBare, FsRuns, FsSteps, Alive
<1>9. FsOwns'
  BY <1>1, <1>2, <1>3, <1>4, NoneNotId
     DEF FsHold, FsOwns, OwnDevices, FsPlaced, FsWorking, FsSteps, FsBare, FsRuns, Unrecorded
<1>10. HelperHeld'
  BY <1>1, <1>2, <1>3 DEF FsHold, HelperHeld
<1>11. InUse' => image'
  BY <1>1, <1>2, <1>3 DEF FsHold, InUse, FsPlaced, FsWorking, FsSteps, FsRuns, FsBare, Alive
<1> QED BY <1>5, <1>6, <1>8, <1>9, <1>10, <1>11, <1>3 DEF FsHold

\* FsFormat keeps what the lab holds of the world.
LEMMA FsFormatHolds ==
  ASSUME Types, FsHold, NEW done \in BOOLEAN, FsFormat(done)
  PROVE  FsHold' /\ deletion' = deletion
<1>1. CASE done
  <2>1. fs.at = "script" /\ fs.step \in 1..18 /\ ScriptStep
    BY <1>1, InScript DEF FsFormat, Step, FsHold, ScriptStep, RemoveFixture
  <2>2. fs.at = "script" /\ ScriptStep /\ (fs.step = 1)
    BY <2>1, <1>1, StepNumbers DEF FsFormat, Step, RemoveFixture
  <2>3. /\ fs'.at = "script"
        /\ fs'.step = fs.step + 1 /\ fs'.device = fs.device /\ fs'.daemon = fs.daemon
        /\ fs'.command = fs.command /\ fs'.recovering = fs.recovering
    BY <2>2, <1>1 DEF FsFormat, Proceed, Fails, AfterCleanup, RunHelper, HelperSucceeded, Types,
       FsType, FsOK, ScriptStep
  <2>4. /\ devices' = devices
        /\ daemon' = daemon
        /\ reap' = reap
        /\ deletion' = deletion
        /\ image' = TRUE
        /\ mount' = mount
        /\ helper' = helper
    BY <2>2, <1>1 DEF FsFormat, worldVars, kernelVars, processVars, fileVars, helperVars, mountVars,
       Spawn, NoDaemon, BeginCleanup, HelperSucceeded, RemoveFixture, Types, WorldType, KernelType,
       ProcessType, Device, FsHold, HelperHeld
  <2>5. OwnDevices' = OwnDevices
    BY <2>4 DEF OwnDevices
  <2>6. FsHeld' /\ FsReap'
    BY <2>2, <2>3, <2>4 DEF FsHold, FsHeld, FsReap, FsPlaced, FsBare, FsRuns, ScriptStep
  <2>7. FsKnown'
    BY <2>2, <2>3, <2>4, NoneNotId
       DEF FsHold, FsKnown, FsPlaced, FsWorking, FsBare, Unrecorded, ScriptStep, FsSteps
  <2>8. Alive => daemon # NoDaemon
    BY DEF Alive, NoDaemon
  <2>9. FsPlaced'
    BY <2>2, <2>3, <2>4, <2>8
       DEF FsHold, FsHeld, FsReap, FsPlaced, FsWorking, FsBare, FsRuns, FsSteps, Alive, ScriptStep
  <2>10. FsOwns'
    BY <2>2, <2>3, <2>4, <2>5, NoneNotId
       DEF FsHold, FsOwns, OwnDevices, FsPlaced, FsWorking, FsSteps, FsBare, FsRuns, Unrecorded,
       ScriptStep
  <2>11. HelperHeld'
    BY <2>2, <2>3, <2>4 DEF FsHold, HelperHeld
  <2>12. InUse' => image'
    BY <2>2, <2>3, <2>4 DEF FsHold, InUse, FsPlaced, FsWorking, FsSteps, FsRuns, FsBare, Alive,
       ScriptStep
  <2> QED BY <2>6, <2>7, <2>9, <2>10, <2>11, <2>12, <2>4 DEF FsHold
<1>2. CASE ~done
  <2>1. fs.at = "script" /\ fs.step \in 1..18 /\ ScriptStep
    BY <1>2, InScript DEF FsFormat, Step, FsHold, ScriptStep, RemoveFixture
  <2>2. fs.at = "script" /\ ScriptStep /\ (fs.step = 1)
    BY <2>1, <1>2, StepNumbers DEF FsFormat, Step, RemoveFixture
  <2>3. /\ (fs.recovering => fs'.at = "drop") /\ (~fs.recovering => fs'.at = "failed")
        /\ fs'.step = fs.step /\ fs'.device = fs.device /\ fs'.daemon = fs.daemon
        /\ fs'.command = fs.command /\ fs'.recovering = fs.recovering
    BY <2>2, <1>2 DEF FsFormat, Proceed, Fails, AfterCleanup, RunHelper, HelperSucceeded, Types,
       FsType, FsOK, ScriptStep
  <2>4. /\ devices' = devices
        /\ daemon' = daemon
        /\ reap' = reap
        /\ deletion' = deletion
        /\ image' = TRUE
        /\ mount' = mount
        /\ helper' = helper
    BY <2>2, <1>2 DEF FsFormat, worldVars, kernelVars, processVars, fileVars, helperVars, mountVars,
       Spawn, NoDaemon, BeginCleanup, HelperSucceeded, RemoveFixture, Types, WorldType, KernelType,
       ProcessType, Device, FsHold, HelperHeld
  <2>5. OwnDevices' = OwnDevices
    BY <2>4 DEF OwnDevices
  <2>6. FsHeld' /\ FsReap'
    BY <2>2, <2>3, <2>4 DEF FsHold, FsHeld, FsReap, FsPlaced, FsBare, FsRuns, ScriptStep
  <2>7. FsKnown'
    BY <2>2, <2>3, <2>4, NoneNotId
       DEF FsHold, FsKnown, FsPlaced, FsWorking, FsBare, Unrecorded, ScriptStep, FsSteps
  <2>8. Alive => daemon # NoDaemon
    BY DEF Alive, NoDaemon
  <2>9. FsPlaced'
    BY <2>2, <2>3, <2>4, <2>8
       DEF FsHold, FsHeld, FsReap, FsPlaced, FsWorking, FsBare, FsRuns, FsSteps, Alive, ScriptStep
  <2>10. FsOwns'
    BY <2>2, <2>3, <2>4, <2>5, NoneNotId
       DEF FsHold, FsOwns, OwnDevices, FsPlaced, FsWorking, FsSteps, FsBare, FsRuns, Unrecorded,
       ScriptStep
  <2>11. HelperHeld'
    BY <2>2, <2>3, <2>4 DEF FsHold, HelperHeld
  <2>12. InUse' => image'
    BY <2>2, <2>3, <2>4 DEF FsHold, InUse, FsPlaced, FsWorking, FsSteps, FsRuns, FsBare, Alive,
       ScriptStep
  <2> QED BY <2>6, <2>7, <2>9, <2>10, <2>11, <2>12, <2>4 DEF FsHold
<1> QED BY <1>1, <1>2

\* FsStart keeps what the lab holds of the world.
LEMMA FsStartHolds ==
  ASSUME Types, FsHold, FsStart
  PROVE  FsHold' /\ deletion' = deletion
<1>1. fs.at = "script" /\ fs.step \in 1..18 /\ ScriptStep
  BY InScript DEF FsStart, Step, FsHold, ScriptStep, RemoveFixture
<1>2. fs.at = "script" /\ ScriptStep /\ (fs.step \in {2, 11})
  BY <1>1, StepNumbers DEF FsStart, Step, RemoveFixture
<1>3. /\ fs'.at = "ready"
      /\ fs'.step = fs.step /\ fs'.device = fs.device /\ fs'.daemon = TRUE
      /\ fs'.command = fs.command /\ fs'.recovering = fs.recovering
  BY <1>2 DEF FsStart, Proceed, Fails, AfterCleanup, RunHelper, HelperSucceeded, Types, FsType,
     FsOK, ScriptStep
<1>4. /\ devices' = devices
      /\ daemon'.signal = "none"
      /\ reap' = reap
      /\ deletion' = deletion
      /\ image' = image
      /\ mount' = mount
      /\ helper' = helper
  BY <1>2 DEF FsStart, worldVars, kernelVars, processVars, fileVars, helperVars, mountVars, Spawn,
     NoDaemon, BeginCleanup, HelperSucceeded, RemoveFixture, Types, WorldType, KernelType,
     ProcessType, Device, FsHold, HelperHeld
<1>5. OwnDevices' = OwnDevices
  BY <1>4 DEF OwnDevices
<1>6. FsHeld' /\ FsReap'
  BY <1>2, <1>3, <1>4 DEF FsHold, FsHeld, FsReap, FsPlaced, FsBare, FsRuns, ScriptStep
<1>7. FsKnown'
  BY <1>2, <1>3, <1>4, NoneNotId
     DEF FsHold, FsKnown, FsPlaced, FsWorking, FsBare, Unrecorded, ScriptStep, FsSteps
<1>8. Alive => daemon # NoDaemon
  BY DEF Alive, NoDaemon
<1>9. FsPlaced'
  BY <1>2, <1>3, <1>4, <1>8
     DEF FsHold, FsHeld, FsReap, FsPlaced, FsWorking, FsBare, FsRuns, FsSteps, Alive, ScriptStep
<1>10. FsOwns'
  BY <1>2, <1>3, <1>4, <1>5, NoneNotId
     DEF FsHold, FsOwns, OwnDevices, FsPlaced, FsWorking, FsSteps, FsBare, FsRuns, Unrecorded,
     ScriptStep
<1>11. HelperHeld'
  BY <1>2, <1>3, <1>4 DEF FsHold, HelperHeld
<1>12. InUse' => image'
  BY <1>2, <1>3, <1>4 DEF FsHold, InUse, FsPlaced, FsWorking, FsSteps, FsRuns, FsBare, Alive,
     ScriptStep
<1> QED BY <1>6, <1>7, <1>9, <1>10, <1>11, <1>12, <1>4 DEF FsHold

\* FsMounted keeps what the lab holds of the world.
LEMMA FsMountedHolds ==
  ASSUME Types, FsHold, NEW verified \in BOOLEAN, FsMounted(verified)
  PROVE  FsHold' /\ deletion' = deletion
<1>1. CASE verified
  <2>1. fs.at = "mounting" /\ ~fs.recovering /\ fs.step \in {5, 13}
    BY <1>1 DEF FsMounted, HelperSucceeded, Step, FsHold, FsPlaced, FsWorking, FsSteps
  <2>2. /\ fs'.at = "script"
        /\ fs'.step = fs.step + 1 /\ fs'.device = fs.device /\ fs'.daemon = fs.daemon
        /\ fs'.command = FALSE /\ fs'.recovering = fs.recovering
    BY <2>1, <1>1 DEF FsMounted, Proceed, Fails, AfterCleanup, RunHelper, HelperSucceeded, Types,
       FsType, FsOK
  <2>3. /\ devices' = devices
        /\ daemon' = daemon
        /\ reap' = reap
        /\ deletion' = deletion
        /\ image' = image
        /\ mount' = mount
        /\ helper' = NoHelper
    BY <2>1, <1>1 DEF FsMounted, worldVars, kernelVars, processVars, fileVars, helperVars,
       mountVars, Spawn, NoDaemon, BeginCleanup, HelperSucceeded, RemoveFixture, Types, WorldType,
       KernelType, ProcessType, Device, FsHold, HelperHeld
  <2>4. OwnDevices' = OwnDevices
    BY <2>3 DEF OwnDevices
  <2>5. FsHeld' /\ FsReap'
    BY <2>1, <2>2, <2>3 DEF FsHold, FsHeld, FsReap, FsPlaced, FsBare, FsRuns
  <2>6. FsKnown'
    BY <2>1, <2>2, <2>3, NoneNotId
       DEF FsHold, FsKnown, FsPlaced, FsWorking, FsBare, Unrecorded, FsSteps
  <2>7. Alive => daemon # NoDaemon
    BY DEF Alive, NoDaemon
  <2>8. FsPlaced'
    BY <2>1, <2>2, <2>3, <2>7
       DEF FsHold, FsHeld, FsReap, FsPlaced, FsWorking, FsBare, FsRuns, FsSteps, Alive
  <2>9. FsOwns'
    BY <2>1, <2>2, <2>3, <2>4, NoneNotId
       DEF FsHold, FsOwns, OwnDevices, FsPlaced, FsWorking, FsSteps, FsBare, FsRuns, Unrecorded
  <2>10. HelperHeld'
    BY <2>1, <2>2, <2>3 DEF FsHold, HelperHeld
  <2>11. InUse' => image'
    BY <2>1, <2>2, <2>3 DEF FsHold, InUse, FsPlaced, FsWorking, FsSteps, FsRuns, FsBare, Alive
  <2> QED BY <2>5, <2>6, <2>8, <2>9, <2>10, <2>11, <2>3 DEF FsHold
<1>2. CASE ~verified
  <2>1. fs.at = "mounting"
    BY <1>2 DEF FsMounted, HelperSucceeded, Step, FsHold, FsPlaced, FsWorking, FsSteps
  <2>2. /\ (fs.recovering => fs'.at = "drop") /\ (~fs.recovering => fs'.at = "failed")
        /\ fs'.step = fs.step /\ fs'.device = fs.device /\ fs'.daemon = fs.daemon
        /\ fs'.command = FALSE /\ fs'.recovering = fs.recovering
    BY <2>1, <1>2 DEF FsMounted, Proceed, Fails, AfterCleanup, RunHelper, HelperSucceeded, Types,
       FsType, FsOK
  <2>3. /\ devices' = devices
        /\ daemon' = daemon
        /\ reap' = reap
        /\ deletion' = deletion
        /\ image' = image
        /\ mount' = mount
        /\ helper' = NoHelper
    BY <2>1, <1>2 DEF FsMounted, worldVars, kernelVars, processVars, fileVars, helperVars,
       mountVars, Spawn, NoDaemon, BeginCleanup, HelperSucceeded, RemoveFixture, Types, WorldType,
       KernelType, ProcessType, Device, FsHold, HelperHeld
  <2>4. OwnDevices' = OwnDevices
    BY <2>3 DEF OwnDevices
  <2>5. FsHeld' /\ FsReap'
    BY <2>1, <2>2, <2>3 DEF FsHold, FsHeld, FsReap, FsPlaced, FsBare, FsRuns
  <2>6. FsKnown'
    BY <2>1, <2>2, <2>3, NoneNotId
       DEF FsHold, FsKnown, FsPlaced, FsWorking, FsBare, Unrecorded, FsSteps
  <2>7. Alive => daemon # NoDaemon
    BY DEF Alive, NoDaemon
  <2>8. FsPlaced'
    BY <2>1, <2>2, <2>3, <2>7
       DEF FsHold, FsHeld, FsReap, FsPlaced, FsWorking, FsBare, FsRuns, FsSteps, Alive
  <2>9. FsOwns'
    BY <2>1, <2>2, <2>3, <2>4, NoneNotId
       DEF FsHold, FsOwns, OwnDevices, FsPlaced, FsWorking, FsSteps, FsBare, FsRuns, Unrecorded
  <2>10. HelperHeld'
    BY <2>1, <2>2, <2>3 DEF FsHold, HelperHeld
  <2>11. InUse' => image'
    BY <2>1, <2>2, <2>3 DEF FsHold, InUse, FsPlaced, FsWorking, FsSteps, FsRuns, FsBare, Alive
  <2> QED BY <2>5, <2>6, <2>8, <2>9, <2>10, <2>11, <2>3 DEF FsHold
<1> QED BY <1>1, <1>2

\* FsFiles keeps what the lab holds of the world.
LEMMA FsFilesHolds ==
  ASSUME Types, FsHold, FsFiles
  PROVE  FsHold' /\ deletion' = deletion
<1>1. fs.at = "script" /\ fs.step \in 1..18 /\ ScriptStep
  BY InScript DEF FsFiles, Step, FsHold, ScriptStep, RemoveFixture
<1>2. fs.at = "script" /\ ScriptStep /\ (fs.step = 6 \/ fs.step \in {7, 14})
  BY <1>1, StepNumbers DEF FsFiles, Step, RemoveFixture
<1>3. /\ fs'.at = "script"
      /\ fs'.step = fs.step + 1 /\ fs'.device = fs.device /\ fs'.daemon = fs.daemon
      /\ fs'.command = fs.command /\ fs'.recovering = fs.recovering
  BY <1>2 DEF FsFiles, Proceed, Fails, AfterCleanup, RunHelper, HelperSucceeded, Types, FsType,
     FsOK, ScriptStep
<1>4. /\ devices' = devices
      /\ daemon' = daemon
      /\ reap' = reap
      /\ deletion' = deletion
      /\ image' = image
      /\ mount' = mount
      /\ helper' = helper
  BY <1>2 DEF FsFiles, worldVars, kernelVars, processVars, fileVars, helperVars, mountVars, Spawn,
     NoDaemon, BeginCleanup, HelperSucceeded, RemoveFixture, Types, WorldType, KernelType,
     ProcessType, Device, FsHold, HelperHeld
<1>5. OwnDevices' = OwnDevices
  BY <1>4 DEF OwnDevices
<1>6. FsHeld' /\ FsReap'
  BY <1>2, <1>3, <1>4 DEF FsHold, FsHeld, FsReap, FsPlaced, FsBare, FsRuns, ScriptStep
<1>7. FsKnown'
  BY <1>2, <1>3, <1>4, NoneNotId
     DEF FsHold, FsKnown, FsPlaced, FsWorking, FsBare, Unrecorded, ScriptStep, FsSteps
<1>8. Alive => daemon # NoDaemon
  BY DEF Alive, NoDaemon
<1>9. FsPlaced'
  BY <1>2, <1>3, <1>4, <1>8
     DEF FsHold, FsHeld, FsReap, FsPlaced, FsWorking, FsBare, FsRuns, FsSteps, Alive, ScriptStep
<1>10. FsOwns'
  BY <1>2, <1>3, <1>4, <1>5, NoneNotId
     DEF FsHold, FsOwns, OwnDevices, FsPlaced, FsWorking, FsSteps, FsBare, FsRuns, Unrecorded,
     ScriptStep
<1>11. HelperHeld'
  BY <1>2, <1>3, <1>4 DEF FsHold, HelperHeld
<1>12. InUse' => image'
  BY <1>2, <1>3, <1>4 DEF FsHold, InUse, FsPlaced, FsWorking, FsSteps, FsRuns, FsBare, Alive,
     ScriptStep
<1> QED BY <1>6, <1>7, <1>9, <1>10, <1>11, <1>12, <1>4 DEF FsHold

\* FsStop keeps what the lab holds of the world.
LEMMA FsStopHolds ==
  ASSUME Types, FsHold, FsStop
  PROVE  FsHold' /\ deletion' = deletion
<1>1. CASE fs.at = "script"
  <2>1. fs.at = "script" /\ fs.step \in 1..18 /\ ScriptStep
    BY <1>1, InScript DEF FsStop, Step, FsHold, ScriptStep, RemoveFixture
  <2>2. fs.at = "script" /\ ScriptStep /\ (fs.step \in {10, 17}) /\ fs.daemon /\
          fs.device # Unrecorded /\ ~mount
    BY <2>1, <1>1, StepNumbers
       DEF FsStop, Step, RemoveFixture, RequireUnmounted, Validated, TableUnmounted
  <2>3. /\ fs'.at = "term"
        /\ fs'.step = fs.step /\ fs'.device = fs.device /\ fs'.daemon = fs.daemon
        /\ fs'.command = fs.command /\ fs'.recovering = fs.recovering
    BY <2>2, <1>1 DEF FsStop, Proceed, Fails, AfterCleanup, RunHelper, HelperSucceeded, Types,
       FsType, FsOK, ScriptStep
  <2>4. /\ devices' = devices
        /\ daemon' = daemon
        /\ reap' = reap
        /\ deletion' = deletion
        /\ image' = image
        /\ mount' = mount
        /\ helper' = helper
    BY <2>2, <1>1 DEF FsStop, worldVars, kernelVars, processVars, fileVars, helperVars, mountVars,
       Spawn, NoDaemon, BeginCleanup, HelperSucceeded, RemoveFixture, Types, WorldType, KernelType,
       ProcessType, Device, FsHold, HelperHeld
  <2>5. OwnDevices' = OwnDevices
    BY <2>4 DEF OwnDevices
  <2>6. FsHeld' /\ FsReap'
    BY <2>2, <2>3, <2>4 DEF FsHold, FsHeld, FsReap, FsPlaced, FsBare, FsRuns, ScriptStep
  <2>7. FsKnown'
    BY <2>2, <2>3, <2>4, NoneNotId
       DEF FsHold, FsKnown, FsPlaced, FsWorking, FsBare, Unrecorded, ScriptStep, FsSteps
  <2>8. Alive => daemon # NoDaemon
    BY DEF Alive, NoDaemon
  <2>9. FsPlaced'
    BY <2>2, <2>3, <2>4, <2>8
       DEF FsHold, FsHeld, FsReap, FsPlaced, FsWorking, FsBare, FsRuns, FsSteps, Alive, ScriptStep
  <2>10. FsOwns'
    BY <2>2, <2>3, <2>4, <2>5, NoneNotId
       DEF FsHold, FsOwns, OwnDevices, FsPlaced, FsWorking, FsSteps, FsBare, FsRuns, Unrecorded,
       ScriptStep
  <2>11. HelperHeld'
    BY <2>2, <2>3, <2>4 DEF FsHold, HelperHeld
  <2>12. InUse' => image'
    BY <2>2, <2>3, <2>4 DEF FsHold, InUse, FsPlaced, FsWorking, FsSteps, FsRuns, FsBare, Alive,
       ScriptStep
  <2> QED BY <2>6, <2>7, <2>9, <2>10, <2>11, <2>12, <2>4 DEF FsHold
<1>2. CASE fs.at # "script"
  <2>1. fs.at = "recover_stop" /\ fs.daemon /\ fs.device # Unrecorded /\ ~mount
    BY <1>2 DEF FsStop, HelperSucceeded, Step, FsHold, FsPlaced, FsWorking, FsSteps,
       RequireUnmounted, Validated, TableUnmounted
  <2>2. /\ fs'.at = "term"
        /\ fs'.step = fs.step /\ fs'.device = fs.device /\ fs'.daemon = fs.daemon
        /\ fs'.command = fs.command /\ fs'.recovering = fs.recovering
    BY <2>1, <1>2 DEF FsStop, Proceed, Fails, AfterCleanup, RunHelper, HelperSucceeded, Types,
       FsType, FsOK
  <2>3. /\ devices' = devices
        /\ daemon' = daemon
        /\ reap' = reap
        /\ deletion' = deletion
        /\ image' = image
        /\ mount' = mount
        /\ helper' = helper
    BY <2>1, <1>2 DEF FsStop, worldVars, kernelVars, processVars, fileVars, helperVars, mountVars,
       Spawn, NoDaemon, BeginCleanup, HelperSucceeded, RemoveFixture, Types, WorldType, KernelType,
       ProcessType, Device, FsHold, HelperHeld
  <2>4. OwnDevices' = OwnDevices
    BY <2>3 DEF OwnDevices
  <2>5. FsHeld' /\ FsReap'
    BY <2>1, <2>2, <2>3 DEF FsHold, FsHeld, FsReap, FsPlaced, FsBare, FsRuns
  <2>6. FsKnown'
    BY <2>1, <2>2, <2>3, NoneNotId
       DEF FsHold, FsKnown, FsPlaced, FsWorking, FsBare, Unrecorded, FsSteps
  <2>7. Alive => daemon # NoDaemon
    BY DEF Alive, NoDaemon
  <2>8. FsPlaced'
    BY <2>1, <2>2, <2>3, <2>7
       DEF FsHold, FsHeld, FsReap, FsPlaced, FsWorking, FsBare, FsRuns, FsSteps, Alive
  <2>9. FsOwns'
    BY <2>1, <2>2, <2>3, <2>4, NoneNotId
       DEF FsHold, FsOwns, OwnDevices, FsPlaced, FsWorking, FsSteps, FsBare, FsRuns, Unrecorded
  <2>10. HelperHeld'
    BY <2>1, <2>2, <2>3 DEF FsHold, HelperHeld
  <2>11. InUse' => image'
    BY <2>1, <2>2, <2>3 DEF FsHold, InUse, FsPlaced, FsWorking, FsSteps, FsRuns, FsBare, Alive
  <2> QED BY <2>5, <2>6, <2>8, <2>9, <2>10, <2>11, <2>3 DEF FsHold
<1> QED BY <1>1, <1>2

\* FsGone keeps what the lab holds of the world.
LEMMA FsGoneHolds ==
  ASSUME Types, FsHold, NEW logged \in BOOLEAN, FsGone(logged)
  PROVE  FsHold' /\ deletion' = deletion
<1>1. CASE ~logged
  <2>1. fs.at = "gone"
    BY <1>1 DEF FsGone, HelperSucceeded, Step, FsHold, FsPlaced, FsWorking, FsSteps
  <2>2. /\ (fs.recovering => fs'.at = "drop") /\ (~fs.recovering => fs'.at = "failed")
        /\ fs'.step = fs.step /\ fs'.device = Unrecorded /\ fs'.daemon = FALSE
        /\ fs'.command = fs.command /\ fs'.recovering = fs.recovering
    BY <2>1, <1>1 DEF FsGone, Proceed, Fails, AfterCleanup, RunHelper, HelperSucceeded, Types,
       FsType, FsOK
  <2>3. /\ devices' = devices
        /\ daemon' = daemon
        /\ reap' = reap
        /\ deletion' = deletion
        /\ image' = image
        /\ mount' = mount
        /\ helper' = helper
    BY <2>1, <1>1 DEF FsGone, worldVars, kernelVars, processVars, fileVars, helperVars, mountVars,
       Spawn, NoDaemon, BeginCleanup, HelperSucceeded, RemoveFixture, Types, WorldType, KernelType,
       ProcessType, Device, FsHold, HelperHeld
  <2>4. devices[fs.device.id].owner # "lab" /\ ~devices[fs.device.id].known
    BY <1>1 DEF FsGone, NoDevice
  <2>5. OwnDevices' = OwnDevices
    BY <2>3 DEF OwnDevices
  <2>6. FsHeld' /\ FsReap'
    BY <2>1, <2>2, <2>3, <2>4 DEF FsHold, FsHeld, FsReap, FsPlaced, FsBare, FsRuns
  <2>7. FsKnown'
    BY <2>1, <2>2, <2>3, <2>4, NoneNotId
       DEF FsHold, FsKnown, FsPlaced, FsWorking, FsBare, Unrecorded, FsSteps
  <2>8. Alive => daemon # NoDaemon
    BY DEF Alive, NoDaemon
  <2>9. FsPlaced'
    BY <2>1, <2>2, <2>3, <2>4, <2>8
       DEF FsHold, FsHeld, FsReap, FsPlaced, FsWorking, FsBare, FsRuns, FsSteps, Alive
  <2>10. FsOwns'
    BY <2>1, <2>2, <2>3, <2>4, <2>5, NoneNotId
       DEF FsHold, FsOwns, OwnDevices, FsPlaced, FsWorking, FsSteps, FsBare, FsRuns, Unrecorded
  <2>11. HelperHeld'
    BY <2>1, <2>2, <2>3, <2>4 DEF FsHold, HelperHeld
  <2>12. InUse' => image'
    BY <2>1, <2>2, <2>3, <2>4 DEF FsHold, InUse, FsPlaced, FsWorking, FsSteps, FsRuns, FsBare, Alive
  <2> QED BY <2>6, <2>7, <2>9, <2>10, <2>11, <2>12, <2>3 DEF FsHold
<1>2. CASE logged /\ fs.recovering
  <2>1. fs.at = "gone" /\ fs.recovering
    BY <1>2 DEF FsGone, HelperSucceeded, Step, FsHold, FsPlaced, FsWorking, FsSteps
  <2>2. /\ fs'.at = "drop"
        /\ fs'.step = fs.step /\ fs'.device = Unrecorded /\ fs'.daemon = FALSE
        /\ fs'.command = fs.command /\ fs'.recovering = fs.recovering
    BY <2>1, <1>2 DEF FsGone, Proceed, Fails, AfterCleanup, RunHelper, HelperSucceeded, Types,
       FsType, FsOK
  <2>3. /\ devices' = devices
        /\ daemon' = daemon
        /\ reap' = reap
        /\ deletion' = deletion
        /\ image' = image
        /\ mount' = mount
        /\ helper' = helper
    BY <2>1, <1>2 DEF FsGone, worldVars, kernelVars, processVars, fileVars, helperVars, mountVars,
       Spawn, NoDaemon, BeginCleanup, HelperSucceeded, RemoveFixture, Types, WorldType, KernelType,
       ProcessType, Device, FsHold, HelperHeld
  <2>4. devices[fs.device.id].owner # "lab" /\ ~devices[fs.device.id].known
    BY <1>2 DEF FsGone, NoDevice
  <2>5. OwnDevices' = OwnDevices
    BY <2>3 DEF OwnDevices
  <2>6. FsHeld' /\ FsReap'
    BY <2>1, <2>2, <2>3, <2>4 DEF FsHold, FsHeld, FsReap, FsPlaced, FsBare, FsRuns
  <2>7. FsKnown'
    BY <2>1, <2>2, <2>3, <2>4, NoneNotId
       DEF FsHold, FsKnown, FsPlaced, FsWorking, FsBare, Unrecorded, FsSteps
  <2>8. Alive => daemon # NoDaemon
    BY DEF Alive, NoDaemon
  <2>9. FsPlaced'
    BY <2>1, <2>2, <2>3, <2>4, <2>8
       DEF FsHold, FsHeld, FsReap, FsPlaced, FsWorking, FsBare, FsRuns, FsSteps, Alive
  <2>10. FsOwns'
    BY <2>1, <2>2, <2>3, <2>4, <2>5, NoneNotId
       DEF FsHold, FsOwns, OwnDevices, FsPlaced, FsWorking, FsSteps, FsBare, FsRuns, Unrecorded
  <2>11. HelperHeld'
    BY <2>1, <2>2, <2>3, <2>4 DEF FsHold, HelperHeld
  <2>12. InUse' => image'
    BY <2>1, <2>2, <2>3, <2>4 DEF FsHold, InUse, FsPlaced, FsWorking, FsSteps, FsRuns, FsBare, Alive
  <2> QED BY <2>6, <2>7, <2>9, <2>10, <2>11, <2>12, <2>3 DEF FsHold
<1>3. CASE logged /\ ~fs.recovering
  <2>1. fs.at = "gone" /\ ~fs.recovering /\ fs.step \in {10, 17}
    BY <1>3 DEF FsGone, HelperSucceeded, Step, FsHold, FsPlaced, FsWorking, FsSteps
  <2>2. /\ fs'.at = "script"
        /\ fs'.step = fs.step + 1 /\ fs'.device = Unrecorded /\ fs'.daemon = FALSE
        /\ fs'.command = fs.command /\ fs'.recovering = fs.recovering
    BY <2>1, <1>3 DEF FsGone, Proceed, Fails, AfterCleanup, RunHelper, HelperSucceeded, Types,
       FsType, FsOK
  <2>3. /\ devices' = devices
        /\ daemon' = daemon
        /\ reap' = reap
        /\ deletion' = deletion
        /\ image' = image
        /\ mount' = mount
        /\ helper' = helper
    BY <2>1, <1>3 DEF FsGone, worldVars, kernelVars, processVars, fileVars, helperVars, mountVars,
       Spawn, NoDaemon, BeginCleanup, HelperSucceeded, RemoveFixture, Types, WorldType, KernelType,
       ProcessType, Device, FsHold, HelperHeld
  <2>4. devices[fs.device.id].owner # "lab" /\ ~devices[fs.device.id].known
    BY <1>3 DEF FsGone, NoDevice
  <2>5. OwnDevices' = OwnDevices
    BY <2>3 DEF OwnDevices
  <2>6. FsHeld' /\ FsReap'
    BY <2>1, <2>2, <2>3, <2>4 DEF FsHold, FsHeld, FsReap, FsPlaced, FsBare, FsRuns
  <2>7. FsKnown'
    BY <2>1, <2>2, <2>3, <2>4, NoneNotId
       DEF FsHold, FsKnown, FsPlaced, FsWorking, FsBare, Unrecorded, FsSteps
  <2>8. Alive => daemon # NoDaemon
    BY DEF Alive, NoDaemon
  <2>9. FsPlaced'
    BY <2>1, <2>2, <2>3, <2>4, <2>8
       DEF FsHold, FsHeld, FsReap, FsPlaced, FsWorking, FsBare, FsRuns, FsSteps, Alive
  <2>10. FsOwns'
    BY <2>1, <2>2, <2>3, <2>4, <2>5, NoneNotId
       DEF FsHold, FsOwns, OwnDevices, FsPlaced, FsWorking, FsSteps, FsBare, FsRuns, Unrecorded
  <2>11. HelperHeld'
    BY <2>1, <2>2, <2>3, <2>4 DEF FsHold, HelperHeld
  <2>12. InUse' => image'
    BY <2>1, <2>2, <2>3, <2>4 DEF FsHold, InUse, FsPlaced, FsWorking, FsSteps, FsRuns, FsBare, Alive
  <2> QED BY <2>6, <2>7, <2>9, <2>10, <2>11, <2>12, <2>3 DEF FsHold
<1> QED BY <1>1, <1>2, <1>3

\* FsFinish keeps what the lab holds of the world.
LEMMA FsFinishHolds ==
  ASSUME Types, FsHold, FsFinish
  PROVE  FsHold' /\ deletion' = deletion
<1>1. CASE fs.round = FsRounds
  <2>1. fs.at = "script" /\ fs.step \in 1..18 /\ ScriptStep
    BY <1>1, InScript DEF FsFinish, Step, FsHold, ScriptStep, RemoveFixture
  <2>2. fs.at = "script" /\ ScriptStep /\ (fs.step = 18)
    BY <2>1, <1>1, StepNumbers DEF FsFinish, Step, RemoveFixture, RemoveFixture
  <2>3. /\ fs'.at = "pass"
        /\ fs'.step = fs.step /\ fs'.device = fs.device /\ fs'.daemon = fs.daemon
        /\ fs'.command = fs.command /\ fs'.recovering = fs.recovering
    BY <2>2, <1>1 DEF FsFinish, Proceed, Fails, AfterCleanup, RunHelper, HelperSucceeded, Types,
       FsType, FsOK, ScriptStep
  <2>4. /\ devices' = devices
        /\ daemon' = daemon
        /\ reap' = reap
        /\ deletion' = deletion
        /\ mount' = mount
        /\ helper' = helper
    BY <2>2, <1>1 DEF FsFinish, worldVars, kernelVars, processVars, fileVars, helperVars, mountVars,
       Spawn, NoDaemon, BeginCleanup, HelperSucceeded, RemoveFixture, Types, WorldType, KernelType,
       ProcessType, Device, FsHold, HelperHeld
  <2>5. ~InUse
    BY <2>2, FsBareIdle DEF FsHold, ScriptStep
  <2>6. OwnDevices' = OwnDevices
    BY <2>4 DEF OwnDevices
  <2>7. FsHeld' /\ FsReap'
    BY <2>2, <2>3, <2>4, <2>5 DEF FsHold, FsHeld, FsReap, FsPlaced, FsBare, FsRuns, ScriptStep
  <2>8. FsKnown'
    BY <2>2, <2>3, <2>4, <2>5, NoneNotId
       DEF FsHold, FsKnown, FsPlaced, FsWorking, FsBare, Unrecorded, ScriptStep, FsSteps
  <2>9. Alive => daemon # NoDaemon
    BY DEF Alive, NoDaemon
  <2>10. FsPlaced'
    BY <2>2, <2>3, <2>4, <2>5, <2>9
       DEF FsHold, FsHeld, FsReap, FsPlaced, FsWorking, FsBare, FsRuns, FsSteps, Alive, ScriptStep
  <2>11. FsOwns'
    BY <2>2, <2>3, <2>4, <2>5, <2>6, NoneNotId
       DEF FsHold, FsOwns, OwnDevices, FsPlaced, FsWorking, FsSteps, FsBare, FsRuns, Unrecorded,
       ScriptStep
  <2>12. HelperHeld'
    BY <2>2, <2>3, <2>4, <2>5 DEF FsHold, HelperHeld
  <2>13. InUse' => image'
    BY <2>2, <2>3, <2>4, <2>5
       DEF FsHold, InUse, FsPlaced, FsWorking, FsSteps, FsRuns, FsBare, Alive, ScriptStep
  <2> QED BY <2>7, <2>8, <2>10, <2>11, <2>12, <2>13, <2>4 DEF FsHold
<1>2. CASE fs.round # FsRounds
  <2>1. fs.at = "script" /\ fs.step \in 1..18 /\ ScriptStep
    BY <1>2, InScript DEF FsFinish, Step, FsHold, ScriptStep, RemoveFixture
  <2>2. fs.at = "script" /\ ScriptStep /\ (fs.step = 18)
    BY <2>1, <1>2, StepNumbers DEF FsFinish, Step, RemoveFixture, RemoveFixture
  <2>3. /\ fs'.at = "script"
        /\ fs'.step = 1 /\ fs'.device = fs.device /\ fs'.daemon = fs.daemon
        /\ fs'.command = fs.command /\ fs'.recovering = fs.recovering
    BY <2>2, <1>2 DEF FsFinish, Proceed, Fails, AfterCleanup, RunHelper, HelperSucceeded, Types,
       FsType, FsOK, ScriptStep
  <2>4. /\ devices' = devices
        /\ daemon' = daemon
        /\ reap' = reap
        /\ deletion' = deletion
        /\ mount' = mount
        /\ helper' = helper
    BY <2>2, <1>2 DEF FsFinish, worldVars, kernelVars, processVars, fileVars, helperVars, mountVars,
       Spawn, NoDaemon, BeginCleanup, HelperSucceeded, RemoveFixture, Types, WorldType, KernelType,
       ProcessType, Device, FsHold, HelperHeld
  <2>5. ~InUse
    BY <2>2, FsBareIdle DEF FsHold, ScriptStep
  <2>6. OwnDevices' = OwnDevices
    BY <2>4 DEF OwnDevices
  <2>7. FsHeld' /\ FsReap'
    BY <2>2, <2>3, <2>4, <2>5 DEF FsHold, FsHeld, FsReap, FsPlaced, FsBare, FsRuns, ScriptStep
  <2>8. FsKnown'
    BY <2>2, <2>3, <2>4, <2>5, NoneNotId
       DEF FsHold, FsKnown, FsPlaced, FsWorking, FsBare, Unrecorded, ScriptStep, FsSteps
  <2>9. Alive => daemon # NoDaemon
    BY DEF Alive, NoDaemon
  <2>10. FsPlaced'
    BY <2>2, <2>3, <2>4, <2>5, <2>9
       DEF FsHold, FsHeld, FsReap, FsPlaced, FsWorking, FsBare, FsRuns, FsSteps, Alive, ScriptStep
  <2>11. FsOwns'
    BY <2>2, <2>3, <2>4, <2>5, <2>6, NoneNotId
       DEF FsHold, FsOwns, OwnDevices, FsPlaced, FsWorking, FsSteps, FsBare, FsRuns, Unrecorded,
       ScriptStep
  <2>12. HelperHeld'
    BY <2>2, <2>3, <2>4, <2>5 DEF FsHold, HelperHeld
  <2>13. InUse' => image'
    BY <2>2, <2>3, <2>4, <2>5
       DEF FsHold, InUse, FsPlaced, FsWorking, FsSteps, FsRuns, FsBare, Alive, ScriptStep
  <2> QED BY <2>7, <2>8, <2>10, <2>11, <2>12, <2>13, <2>4 DEF FsHold
<1> QED BY <1>1, <1>2

\* FsFinishFails keeps what the lab holds of the world.
LEMMA FsFinishFailsHolds ==
  ASSUME Types, FsHold, NEW imageLeft \in BOOLEAN, FsFinishFails(imageLeft)
  PROVE  FsHold' /\ deletion' = deletion
<1>1. fs.at = "script" /\ fs.step \in 1..18 /\ ScriptStep
  BY InScript DEF FsFinishFails, Step, FsHold, ScriptStep, RemoveFixture
<1>2. fs.at = "script" /\ ScriptStep /\ (fs.step = 18)
  BY <1>1, StepNumbers DEF FsFinishFails, Step, RemoveFixture
<1>3. /\ (fs.recovering => fs'.at = "drop") /\ (~fs.recovering => fs'.at = "failed")
      /\ fs'.step = fs.step /\ fs'.device = fs.device /\ fs'.daemon = fs.daemon
      /\ fs'.command = fs.command /\ fs'.recovering = fs.recovering
  BY <1>2 DEF FsFinishFails, Proceed, Fails, AfterCleanup, RunHelper, HelperSucceeded, Types,
     FsType, FsOK, ScriptStep
<1>4. /\ devices' = devices
      /\ daemon' = daemon
      /\ reap' = reap
      /\ deletion' = deletion
      /\ mount' = mount
      /\ helper' = helper
  BY <1>2 DEF FsFinishFails, worldVars, kernelVars, processVars, fileVars, helperVars, mountVars,
     Spawn, NoDaemon, BeginCleanup, HelperSucceeded, RemoveFixture, Types, WorldType, KernelType,
     ProcessType, Device, FsHold, HelperHeld
<1>5. ~InUse
  BY <1>2, FsBareIdle DEF FsHold, ScriptStep
<1>6. OwnDevices' = OwnDevices
  BY <1>4 DEF OwnDevices
<1>7. FsHeld' /\ FsReap'
  BY <1>2, <1>3, <1>4, <1>5 DEF FsHold, FsHeld, FsReap, FsPlaced, FsBare, FsRuns, ScriptStep
<1>8. FsKnown'
  BY <1>2, <1>3, <1>4, <1>5, NoneNotId
     DEF FsHold, FsKnown, FsPlaced, FsWorking, FsBare, Unrecorded, ScriptStep, FsSteps
<1>9. Alive => daemon # NoDaemon
  BY DEF Alive, NoDaemon
<1>10. FsPlaced'
  BY <1>2, <1>3, <1>4, <1>5, <1>9
     DEF FsHold, FsHeld, FsReap, FsPlaced, FsWorking, FsBare, FsRuns, FsSteps, Alive, ScriptStep
<1>11. FsOwns'
  BY <1>2, <1>3, <1>4, <1>5, <1>6, NoneNotId
     DEF FsHold, FsOwns, OwnDevices, FsPlaced, FsWorking, FsSteps, FsBare, FsRuns, Unrecorded,
     ScriptStep
<1>12. HelperHeld'
  BY <1>2, <1>3, <1>4, <1>5 DEF FsHold, HelperHeld
<1>13. InUse' => image'
  BY <1>2, <1>3, <1>4, <1>5
     DEF FsHold, InUse, FsPlaced, FsWorking, FsSteps, FsRuns, FsBare, Alive, ScriptStep
<1> QED BY <1>7, <1>8, <1>10, <1>11, <1>12, <1>13, <1>4 DEF FsHold

\* FsError keeps what the lab holds of the world.
LEMMA FsErrorHolds ==
  ASSUME Types, FsHold, FsError
  PROVE  FsHold' /\ deletion' = deletion
<1>1. fs.at \in {"script", "ready", "term", "exit", "gone", "recover_mounted", "recover_stop"}
  BY DEF FsError, HelperSucceeded, Step, FsHold, FsPlaced, FsWorking, FsSteps
<1>2. /\ (fs.recovering => fs'.at = "drop") /\ (~fs.recovering => fs'.at = "failed")
      /\ fs'.step = fs.step /\ fs'.device = fs.device /\ fs'.daemon = fs.daemon
      /\ fs'.command = fs.command /\ fs'.recovering = fs.recovering
  BY <1>1 DEF FsError, Proceed, Fails, AfterCleanup, RunHelper, HelperSucceeded, Types, FsType, FsOK
<1>3. /\ devices' = devices
      /\ daemon' = daemon
      /\ reap' = reap
      /\ deletion' = deletion
      /\ image' = image
      /\ mount' = mount
      /\ helper' = helper
  BY <1>1 DEF FsError, worldVars, kernelVars, processVars, fileVars, helperVars, mountVars, Spawn,
     NoDaemon, BeginCleanup, HelperSucceeded, RemoveFixture, Types, WorldType, KernelType,
     ProcessType, Device, FsHold, HelperHeld
<1>4. OwnDevices' = OwnDevices
  BY <1>3 DEF OwnDevices
<1>5. FsHeld' /\ FsReap'
  BY <1>1, <1>2, <1>3 DEF FsHold, FsHeld, FsReap, FsPlaced, FsBare, FsRuns
<1>6. FsKnown'
  BY <1>1, <1>2, <1>3, NoneNotId
     DEF FsHold, FsKnown, FsPlaced, FsWorking, FsBare, Unrecorded, FsSteps
<1>7. Alive => daemon # NoDaemon
  BY DEF Alive, NoDaemon
<1>8. FsPlaced'
  BY <1>1, <1>2, <1>3, <1>7
     DEF FsHold, FsHeld, FsReap, FsPlaced, FsWorking, FsBare, FsRuns, FsSteps, Alive
<1>9. FsOwns'
  BY <1>1, <1>2, <1>3, <1>4, NoneNotId
     DEF FsHold, FsOwns, OwnDevices, FsPlaced, FsWorking, FsSteps, FsBare, FsRuns, Unrecorded
<1>10. HelperHeld'
  BY <1>1, <1>2, <1>3 DEF FsHold, HelperHeld
<1>11. InUse' => image'
  BY <1>1, <1>2, <1>3 DEF FsHold, InUse, FsPlaced, FsWorking, FsSteps, FsRuns, FsBare, Alive
<1> QED BY <1>5, <1>6, <1>8, <1>9, <1>10, <1>11, <1>3 DEF FsHold

\* FsRecoverDaemon keeps what the lab holds of the world.
LEMMA FsRecoverDaemonHolds ==
  ASSUME Types, FsHold, FsRecoverDaemon
  PROVE  FsHold' /\ deletion' = deletion
<1>1. CASE fs.daemon /\ ~Alive
  <2>1. fs.at = "recover" /\ fs.daemon /\ ~Alive
    BY <1>1 DEF FsRecoverDaemon, HelperSucceeded, Step, FsHold, FsPlaced, FsWorking, FsSteps
  <2>2. /\ fs'.at = "recover_reap"
        /\ fs'.step = fs.step /\ fs'.device = fs.device /\ fs'.daemon = fs.daemon
        /\ fs'.command = fs.command /\ fs'.recovering = fs.recovering
    BY <2>1, <1>1 DEF FsRecoverDaemon, Proceed, Fails, AfterCleanup, RunHelper, HelperSucceeded,
       Types, FsType, FsOK
  <2>3. /\ devices' = devices
        /\ daemon'.state = daemon.state
        /\ daemon = NoDaemon => daemon' = NoDaemon
        /\ Alive' = Alive
        /\ daemon'.id = daemon.id
        /\ reap' = "grace"
        /\ deletion' = deletion
        /\ image' = image
        /\ mount' = mount
        /\ helper' = helper
    BY <2>1, <1>1, SignalKeeps
       DEF FsRecoverDaemon, worldVars, kernelVars, processVars, fileVars, helperVars, mountVars,
       Spawn, NoDaemon, BeginCleanup, HelperSucceeded, RemoveFixture, Types, WorldType, KernelType,
       ProcessType, Device, FsHold, HelperHeld
  <2>4. OwnDevices' = OwnDevices
    BY <2>3 DEF OwnDevices
  <2>5. FsHeld' /\ FsReap'
    BY <2>1, <2>2, <2>3 DEF FsHold, FsHeld, FsReap, FsPlaced, FsBare, FsRuns
  <2>6. FsKnown'
    BY <2>1, <2>2, <2>3, NoneNotId
       DEF FsHold, FsKnown, FsPlaced, FsWorking, FsBare, Unrecorded, FsSteps
  <2>7. Alive => daemon # NoDaemon
    BY DEF Alive, NoDaemon
  <2>8. FsPlaced'
    BY <2>1, <2>2, <2>3, <2>7
       DEF FsHold, FsHeld, FsReap, FsPlaced, FsWorking, FsBare, FsRuns, FsSteps, Alive
  <2>9. FsOwns'
    BY <2>1, <2>2, <2>3, <2>4, NoneNotId
       DEF FsHold, FsOwns, OwnDevices, FsPlaced, FsWorking, FsSteps, FsBare, FsRuns, Unrecorded
  <2>10. HelperHeld'
    BY <2>1, <2>2, <2>3 DEF FsHold, HelperHeld
  <2>11. InUse' => image'
    BY <2>1, <2>2, <2>3 DEF FsHold, InUse, FsPlaced, FsWorking, FsSteps, FsRuns, FsBare, Alive
  <2> QED BY <2>5, <2>6, <2>8, <2>9, <2>10, <2>11, <2>3 DEF FsHold
<1>2. CASE ~(fs.daemon /\ ~Alive)
  <2>1. fs.at = "recover"
    BY <1>2 DEF FsRecoverDaemon, HelperSucceeded, Step, FsHold, FsPlaced, FsWorking, FsSteps
  <2>2. /\ fs'.at = "drop"
        /\ fs'.step = fs.step /\ fs'.device = fs.device /\ fs'.daemon = fs.daemon
        /\ fs'.command = fs.command /\ fs'.recovering = fs.recovering
    BY <2>1, <1>2 DEF FsRecoverDaemon, Proceed, Fails, AfterCleanup, RunHelper, HelperSucceeded,
       Types, FsType, FsOK
  <2>3. /\ devices' = devices
        /\ daemon' = daemon
        /\ reap' = reap
        /\ deletion' = deletion
        /\ image' = image
        /\ mount' = mount
        /\ helper' = helper
    BY <2>1, <1>2 DEF FsRecoverDaemon, worldVars, kernelVars, processVars, fileVars, helperVars,
       mountVars, Spawn, NoDaemon, BeginCleanup, HelperSucceeded, RemoveFixture, Types, WorldType,
       KernelType, ProcessType, Device, FsHold, HelperHeld
  <2>4. OwnDevices' = OwnDevices
    BY <2>3 DEF OwnDevices
  <2>5. FsHeld' /\ FsReap'
    BY <2>1, <2>2, <2>3 DEF FsHold, FsHeld, FsReap, FsPlaced, FsBare, FsRuns
  <2>6. FsKnown'
    BY <2>1, <2>2, <2>3, NoneNotId
       DEF FsHold, FsKnown, FsPlaced, FsWorking, FsBare, Unrecorded, FsSteps
  <2>7. Alive => daemon # NoDaemon
    BY DEF Alive, NoDaemon
  <2>8. FsPlaced'
    BY <2>1, <2>2, <2>3, <2>7
       DEF FsHold, FsHeld, FsReap, FsPlaced, FsWorking, FsBare, FsRuns, FsSteps, Alive
  <2>9. FsOwns'
    BY <2>1, <2>2, <2>3, <2>4, NoneNotId
       DEF FsHold, FsOwns, OwnDevices, FsPlaced, FsWorking, FsSteps, FsBare, FsRuns, Unrecorded
  <2>10. HelperHeld'
    BY <2>1, <2>2, <2>3 DEF FsHold, HelperHeld
  <2>11. InUse' => image'
    BY <2>1, <2>2, <2>3 DEF FsHold, InUse, FsPlaced, FsWorking, FsSteps, FsRuns, FsBare, Alive
  <2> QED BY <2>5, <2>6, <2>8, <2>9, <2>10, <2>11, <2>3 DEF FsHold
<1> QED BY <1>1, <1>2

\* FsDrop keeps what the lab holds of the world.
LEMMA FsDropHolds ==
  ASSUME Types, FsHold, FsDrop
  PROVE  FsHold' /\ deletion' = deletion
<1>1. fs.at = "drop"
  BY DEF FsDrop, HelperSucceeded, Step, FsHold, FsPlaced, FsWorking, FsSteps
<1>2. /\ fs'.at = "fail"
      /\ fs'.step = fs.step /\ fs'.device = fs.device /\ fs'.daemon = fs.daemon
      /\ fs'.command = fs.command /\ fs'.recovering = fs.recovering
  BY <1>1 DEF FsDrop, Proceed, Fails, AfterCleanup, RunHelper, HelperSucceeded, Types, FsType, FsOK
<1>3. /\ devices' = devices
      /\ daemon' = daemon
      /\ reap' = reap
      /\ deletion' = deletion
      /\ image' = image
      /\ mount' = mount
      /\ helper' = helper
  BY <1>1 DEF FsDrop, worldVars, kernelVars, processVars, fileVars, helperVars, mountVars, Spawn,
     NoDaemon, BeginCleanup, HelperSucceeded, RemoveFixture, Types, WorldType, KernelType,
     ProcessType, Device, FsHold, HelperHeld
<1>4. OwnDevices' = OwnDevices
  BY <1>3 DEF OwnDevices
<1>5. FsHeld' /\ FsReap'
  BY <1>1, <1>2, <1>3 DEF FsHold, FsHeld, FsReap, FsPlaced, FsBare, FsRuns
<1>6. FsKnown'
  BY <1>1, <1>2, <1>3, NoneNotId
     DEF FsHold, FsKnown, FsPlaced, FsWorking, FsBare, Unrecorded, FsSteps
<1>7. Alive => daemon # NoDaemon
  BY DEF Alive, NoDaemon
<1>8. FsPlaced'
  BY <1>1, <1>2, <1>3, <1>7
     DEF FsHold, FsHeld, FsReap, FsPlaced, FsWorking, FsBare, FsRuns, FsSteps, Alive
<1>9. FsOwns'
  BY <1>1, <1>2, <1>3, <1>4, NoneNotId
     DEF FsHold, FsOwns, OwnDevices, FsPlaced, FsWorking, FsSteps, FsBare, FsRuns, Unrecorded
<1>10. HelperHeld'
  BY <1>1, <1>2, <1>3 DEF FsHold, HelperHeld
<1>11. InUse' => image'
  BY <1>1, <1>2, <1>3 DEF FsHold, InUse, FsPlaced, FsWorking, FsSteps, FsRuns, FsBare, Alive
<1> QED BY <1>5, <1>6, <1>8, <1>9, <1>10, <1>11, <1>3 DEF FsHold

\* SqliteTimeout keeps what the lab holds of the world.
LEMMA SqliteTimeoutHolds ==
  ASSUME Types, FsHold, SqliteTimeout
  PROVE  FsHold' /\ deletion' = deletion
<1>1. fs.at = "select"
  BY DEF SqliteTimeout, HelperSucceeded, Step, FsHold, FsPlaced, FsWorking, FsSteps
<1>2. /\ fs'.at = "fail"
      /\ fs'.step = fs.step /\ fs'.device = fs.device /\ fs'.daemon = fs.daemon
      /\ fs'.command = fs.command /\ fs'.recovering = fs.recovering
  BY <1>1 DEF SqliteTimeout, Proceed, Fails, AfterCleanup, RunHelper, HelperSucceeded, Types,
     FsType, FsOK
<1>3. /\ devices' = devices
      /\ daemon' = daemon
      /\ reap' = reap
      /\ deletion' = deletion
      /\ image' = image
      /\ mount' = mount
      /\ helper' = helper
  BY <1>1 DEF SqliteTimeout, worldVars, kernelVars, processVars, fileVars, helperVars, mountVars,
     Spawn, NoDaemon, BeginCleanup, HelperSucceeded, RemoveFixture, Types, WorldType, KernelType,
     ProcessType, Device, FsHold, HelperHeld
<1>4. OwnDevices' = OwnDevices
  BY <1>3 DEF OwnDevices
<1>5. FsHeld' /\ FsReap'
  BY <1>1, <1>2, <1>3 DEF FsHold, FsHeld, FsReap, FsPlaced, FsBare, FsRuns
<1>6. FsKnown'
  BY <1>1, <1>2, <1>3, NoneNotId
     DEF FsHold, FsKnown, FsPlaced, FsWorking, FsBare, Unrecorded, FsSteps
<1>7. Alive => daemon # NoDaemon
  BY DEF Alive, NoDaemon
<1>8. FsPlaced'
  BY <1>1, <1>2, <1>3, <1>7
     DEF FsHold, FsHeld, FsReap, FsPlaced, FsWorking, FsBare, FsRuns, FsSteps, Alive
<1>9. FsOwns'
  BY <1>1, <1>2, <1>3, <1>4, NoneNotId
     DEF FsHold, FsOwns, OwnDevices, FsPlaced, FsWorking, FsSteps, FsBare, FsRuns, Unrecorded
<1>10. HelperHeld'
  BY <1>1, <1>2, <1>3 DEF FsHold, HelperHeld
<1>11. InUse' => image'
  BY <1>1, <1>2, <1>3 DEF FsHold, InUse, FsPlaced, FsWorking, FsSteps, FsRuns, FsBare, Alive
<1> QED BY <1>5, <1>6, <1>8, <1>9, <1>10, <1>11, <1>3 DEF FsHold

\* SqliteNew keeps what the lab holds of the world.
LEMMA SqliteNewHolds ==
  ASSUME Types, FsHold, SqliteNew
  PROVE  FsHold' /\ deletion' = deletion
<1>1. fs.at = "select" /\ ~fs.recovering /\ fs.step = 1
  BY DEF SqliteNew, HelperSucceeded, Step, FsHold, FsPlaced, FsWorking, FsSteps
<1>2. /\ fs'.at = "preflight"
      /\ fs'.step = fs.step /\ fs'.device = fs.device /\ fs'.daemon = fs.daemon
      /\ fs'.command = fs.command /\ fs'.recovering = fs.recovering
  BY <1>1 DEF SqliteNew, Proceed, Fails, AfterCleanup, RunHelper, HelperSucceeded, Types, FsType,
     FsOK
<1>3. /\ devices' = devices
      /\ daemon' = daemon
      /\ reap' = reap
      /\ deletion' = deletion
      /\ image' = image
      /\ mount' = mount
      /\ helper' = helper
  BY <1>1 DEF SqliteNew, worldVars, kernelVars, processVars, fileVars, helperVars, mountVars, Spawn,
     NoDaemon, BeginCleanup, HelperSucceeded, RemoveFixture, Types, WorldType, KernelType,
     ProcessType, Device, FsHold, HelperHeld
<1>4. OwnDevices' = OwnDevices
  BY <1>3 DEF OwnDevices
<1>5. FsHeld' /\ FsReap'
  BY <1>1, <1>2, <1>3 DEF FsHold, FsHeld, FsReap, FsPlaced, FsBare, FsRuns
<1>6. FsKnown'
  BY <1>1, <1>2, <1>3, NoneNotId
     DEF FsHold, FsKnown, FsPlaced, FsWorking, FsBare, Unrecorded, FsSteps
<1>7. Alive => daemon # NoDaemon
  BY DEF Alive, NoDaemon
<1>8. FsPlaced'
  BY <1>1, <1>2, <1>3, <1>7
     DEF FsHold, FsHeld, FsReap, FsPlaced, FsWorking, FsBare, FsRuns, FsSteps, Alive
<1>9. FsOwns'
  BY <1>1, <1>2, <1>3, <1>4, NoneNotId
     DEF FsHold, FsOwns, OwnDevices, FsPlaced, FsWorking, FsSteps, FsBare, FsRuns, Unrecorded
<1>10. HelperHeld'
  BY <1>1, <1>2, <1>3 DEF FsHold, HelperHeld
<1>11. InUse' => image'
  BY <1>1, <1>2, <1>3 DEF FsHold, InUse, FsPlaced, FsWorking, FsSteps, FsRuns, FsBare, Alive
<1> QED BY <1>5, <1>6, <1>8, <1>9, <1>10, <1>11, <1>3 DEF FsHold

\* SqliteNewFails keeps what the lab holds of the world.
LEMMA SqliteNewFailsHolds ==
  ASSUME Types, FsHold, NEW left \in BOOLEAN, SqliteNewFails(left)
  PROVE  FsHold' /\ deletion' = deletion
<1>1. fs.at = "select"
  BY DEF SqliteNewFails, HelperSucceeded, Step, FsHold, FsPlaced, FsWorking, FsSteps
<1>2. /\ fs'.at = "fail"
      /\ fs'.step = fs.step /\ fs'.device = fs.device /\ fs'.daemon = fs.daemon
      /\ fs'.command = fs.command /\ fs'.recovering = fs.recovering
  BY <1>1 DEF SqliteNewFails, Proceed, Fails, AfterCleanup, RunHelper, HelperSucceeded, Types,
     FsType, FsOK
<1>3. /\ devices' = devices
      /\ daemon' = daemon
      /\ reap' = reap
      /\ deletion' = deletion
      /\ image' = image
      /\ mount' = mount
      /\ helper' = helper
  BY <1>1 DEF SqliteNewFails, worldVars, kernelVars, processVars, fileVars, helperVars, mountVars,
     Spawn, NoDaemon, BeginCleanup, HelperSucceeded, RemoveFixture, Types, WorldType, KernelType,
     ProcessType, Device, FsHold, HelperHeld
<1>4. OwnDevices' = OwnDevices
  BY <1>3 DEF OwnDevices
<1>5. FsHeld' /\ FsReap'
  BY <1>1, <1>2, <1>3 DEF FsHold, FsHeld, FsReap, FsPlaced, FsBare, FsRuns
<1>6. FsKnown'
  BY <1>1, <1>2, <1>3, NoneNotId
     DEF FsHold, FsKnown, FsPlaced, FsWorking, FsBare, Unrecorded, FsSteps
<1>7. Alive => daemon # NoDaemon
  BY DEF Alive, NoDaemon
<1>8. FsPlaced'
  BY <1>1, <1>2, <1>3, <1>7
     DEF FsHold, FsHeld, FsReap, FsPlaced, FsWorking, FsBare, FsRuns, FsSteps, Alive
<1>9. FsOwns'
  BY <1>1, <1>2, <1>3, <1>4, NoneNotId
     DEF FsHold, FsOwns, OwnDevices, FsPlaced, FsWorking, FsSteps, FsBare, FsRuns, Unrecorded
<1>10. HelperHeld'
  BY <1>1, <1>2, <1>3 DEF FsHold, HelperHeld
<1>11. InUse' => image'
  BY <1>1, <1>2, <1>3 DEF FsHold, InUse, FsPlaced, FsWorking, FsSteps, FsRuns, FsBare, Alive
<1> QED BY <1>5, <1>6, <1>8, <1>9, <1>10, <1>11, <1>3 DEF FsHold

\* SqlitePreflight keeps what the lab holds of the world.
LEMMA SqlitePreflightHolds ==
  ASSUME Types, FsHold, NEW done \in BOOLEAN, NEW reaped \in BOOLEAN, SqlitePreflight(done, reaped)
  PROVE  FsHold' /\ deletion' = deletion
<1>1. CASE done
  <2>1. fs.at = "preflight" /\ ~fs.recovering /\ fs.step = 1
    BY <1>1 DEF SqlitePreflight, HelperSucceeded, Step, FsHold, FsPlaced, FsWorking, FsSteps
  <2>2. /\ fs'.at = "script"
        /\ fs'.step = fs.step /\ fs'.device = fs.device /\ fs'.daemon = fs.daemon
        /\ fs'.command = fs.command /\ fs'.recovering = fs.recovering
    BY <2>1, <1>1 DEF SqlitePreflight, Proceed, Fails, AfterCleanup, RunHelper, HelperSucceeded,
       Types, FsType, FsOK
  <2>3. /\ devices' = devices
        /\ daemon' = daemon
        /\ reap' = reap
        /\ deletion' = deletion
        /\ image' = image
        /\ mount' = mount
        /\ helper' = helper
    BY <2>1, <1>1 DEF SqlitePreflight, worldVars, kernelVars, processVars, fileVars, helperVars,
       mountVars, Spawn, NoDaemon, BeginCleanup, HelperSucceeded, RemoveFixture, Types, WorldType,
       KernelType, ProcessType, Device, FsHold, HelperHeld
  <2>4. OwnDevices' = OwnDevices
    BY <2>3 DEF OwnDevices
  <2>5. FsHeld' /\ FsReap'
    BY <2>1, <2>2, <2>3 DEF FsHold, FsHeld, FsReap, FsPlaced, FsBare, FsRuns
  <2>6. FsKnown'
    BY <2>1, <2>2, <2>3, NoneNotId
       DEF FsHold, FsKnown, FsPlaced, FsWorking, FsBare, Unrecorded, FsSteps
  <2>7. Alive => daemon # NoDaemon
    BY DEF Alive, NoDaemon
  <2>8. FsPlaced'
    BY <2>1, <2>2, <2>3, <2>7
       DEF FsHold, FsHeld, FsReap, FsPlaced, FsWorking, FsBare, FsRuns, FsSteps, Alive
  <2>9. FsOwns'
    BY <2>1, <2>2, <2>3, <2>4, NoneNotId
       DEF FsHold, FsOwns, OwnDevices, FsPlaced, FsWorking, FsSteps, FsBare, FsRuns, Unrecorded
  <2>10. HelperHeld'
    BY <2>1, <2>2, <2>3 DEF FsHold, HelperHeld
  <2>11. InUse' => image'
    BY <2>1, <2>2, <2>3 DEF FsHold, InUse, FsPlaced, FsWorking, FsSteps, FsRuns, FsBare, Alive
  <2> QED BY <2>5, <2>6, <2>8, <2>9, <2>10, <2>11, <2>3 DEF FsHold
<1>2. CASE ~done
  <2>1. fs.at = "preflight"
    BY <1>2 DEF SqlitePreflight, HelperSucceeded, Step, FsHold, FsPlaced, FsWorking, FsSteps
  <2>2. /\ (fs.recovering => fs'.at = "drop") /\ (~fs.recovering => fs'.at = "failed")
        /\ fs'.step = fs.step /\ fs'.device = fs.device /\ fs'.daemon = fs.daemon
        /\ fs'.command = ~reaped /\ fs'.recovering = fs.recovering
    BY <2>1, <1>2 DEF SqlitePreflight, Proceed, Fails, AfterCleanup, RunHelper, HelperSucceeded,
       Types, FsType, FsOK
  <2>3. /\ devices' = devices
        /\ daemon' = daemon
        /\ reap' = reap
        /\ deletion' = deletion
        /\ image' = image
        /\ mount' = mount
        /\ helper' = helper
    BY <2>1, <1>2 DEF SqlitePreflight, worldVars, kernelVars, processVars, fileVars, helperVars,
       mountVars, Spawn, NoDaemon, BeginCleanup, HelperSucceeded, RemoveFixture, Types, WorldType,
       KernelType, ProcessType, Device, FsHold, HelperHeld
  <2>4. OwnDevices' = OwnDevices
    BY <2>3 DEF OwnDevices
  <2>5. FsHeld' /\ FsReap'
    BY <2>1, <2>2, <2>3 DEF FsHold, FsHeld, FsReap, FsPlaced, FsBare, FsRuns
  <2>6. FsKnown'
    BY <2>1, <2>2, <2>3, NoneNotId
       DEF FsHold, FsKnown, FsPlaced, FsWorking, FsBare, Unrecorded, FsSteps
  <2>7. Alive => daemon # NoDaemon
    BY DEF Alive, NoDaemon
  <2>8. FsPlaced'
    BY <2>1, <2>2, <2>3, <2>7
       DEF FsHold, FsHeld, FsReap, FsPlaced, FsWorking, FsBare, FsRuns, FsSteps, Alive
  <2>9. FsOwns'
    BY <2>1, <2>2, <2>3, <2>4, NoneNotId
       DEF FsHold, FsOwns, OwnDevices, FsPlaced, FsWorking, FsSteps, FsBare, FsRuns, Unrecorded
  <2>10. HelperHeld'
    BY <2>1, <2>2, <2>3 DEF FsHold, HelperHeld
  <2>11. InUse' => image'
    BY <2>1, <2>2, <2>3 DEF FsHold, InUse, FsPlaced, FsWorking, FsSteps, FsRuns, FsBare, Alive
  <2> QED BY <2>5, <2>6, <2>8, <2>9, <2>10, <2>11, <2>3 DEF FsHold
<1> QED BY <1>1, <1>2

\* SqliteSetup keeps what the lab holds of the world.
LEMMA SqliteSetupHolds ==
  ASSUME Types, FsHold, NEW speedtest \in BOOLEAN, SqliteSetup(speedtest)
  PROVE  FsHold' /\ deletion' = deletion
<1>1. fs.at = "script" /\ fs.step \in 1..18 /\ ScriptStep
  BY InScript DEF SqliteSetup, Step, FsHold, ScriptStep, RemoveFixture
<1>2. fs.at = "script" /\ ScriptStep /\ (fs.step = 6)
  BY <1>1, StepNumbers DEF SqliteSetup, Step, RemoveFixture
<1>3. /\ fs'.at \in {"workload", "initialize"}
      /\ fs'.step = fs.step /\ fs'.device = fs.device /\ fs'.daemon = fs.daemon
      /\ fs'.command = fs.command /\ fs'.recovering = fs.recovering
  BY <1>2 DEF SqliteSetup, Proceed, Fails, AfterCleanup, RunHelper, HelperSucceeded, Types, FsType,
     FsOK, ScriptStep
<1>4. /\ devices' = devices
      /\ daemon' = daemon
      /\ reap' = reap
      /\ deletion' = deletion
      /\ image' = image
      /\ mount' = mount
      /\ helper' = helper
  BY <1>2 DEF SqliteSetup, worldVars, kernelVars, processVars, fileVars, helperVars, mountVars,
     Spawn, NoDaemon, BeginCleanup, HelperSucceeded, RemoveFixture, Types, WorldType, KernelType,
     ProcessType, Device, FsHold, HelperHeld
<1>5. OwnDevices' = OwnDevices
  BY <1>4 DEF OwnDevices
<1>6. FsHeld' /\ FsReap'
  BY <1>2, <1>3, <1>4 DEF FsHold, FsHeld, FsReap, FsPlaced, FsBare, FsRuns, ScriptStep
<1>7. FsKnown'
  BY <1>2, <1>3, <1>4, NoneNotId
     DEF FsHold, FsKnown, FsPlaced, FsWorking, FsBare, Unrecorded, ScriptStep, FsSteps
<1>8. Alive => daemon # NoDaemon
  BY DEF Alive, NoDaemon
<1>9. FsPlaced'
  BY <1>2, <1>3, <1>4, <1>8
     DEF FsHold, FsHeld, FsReap, FsPlaced, FsWorking, FsBare, FsRuns, FsSteps, Alive, ScriptStep
<1>10. FsOwns'
  BY <1>2, <1>3, <1>4, <1>5, NoneNotId
     DEF FsHold, FsOwns, OwnDevices, FsPlaced, FsWorking, FsSteps, FsBare, FsRuns, Unrecorded,
     ScriptStep
<1>11. HelperHeld'
  BY <1>2, <1>3, <1>4 DEF FsHold, HelperHeld
<1>12. InUse' => image'
  BY <1>2, <1>3, <1>4 DEF FsHold, InUse, FsPlaced, FsWorking, FsSteps, FsRuns, FsBare, Alive,
     ScriptStep
<1> QED BY <1>6, <1>7, <1>9, <1>10, <1>11, <1>12, <1>4 DEF FsHold

\* SqliteInitialized keeps what the lab holds of the world.
LEMMA SqliteInitializedHolds ==
  ASSUME Types, FsHold, SqliteInitialized
  PROVE  FsHold' /\ deletion' = deletion
<1>1. fs.at = "initialize" /\ ~fs.recovering /\ fs.step = 6
  BY DEF SqliteInitialized, HelperSucceeded, Step, FsHold, FsPlaced, FsWorking, FsSteps
<1>2. /\ fs'.at = "workload"
      /\ fs'.step = fs.step /\ fs'.device = fs.device /\ fs'.daemon = fs.daemon
      /\ fs'.command = fs.command /\ fs'.recovering = fs.recovering
  BY <1>1 DEF SqliteInitialized, Proceed, Fails, AfterCleanup, RunHelper, HelperSucceeded, Types,
     FsType, FsOK
<1>3. /\ devices' = devices
      /\ daemon' = daemon
      /\ reap' = reap
      /\ deletion' = deletion
      /\ image' = image
      /\ mount' = mount
      /\ helper' = helper
  BY <1>1 DEF SqliteInitialized, worldVars, kernelVars, processVars, fileVars, helperVars,
     mountVars, Spawn, NoDaemon, BeginCleanup, HelperSucceeded, RemoveFixture, Types, WorldType,
     KernelType, ProcessType, Device, FsHold, HelperHeld
<1>4. OwnDevices' = OwnDevices
  BY <1>3 DEF OwnDevices
<1>5. FsHeld' /\ FsReap'
  BY <1>1, <1>2, <1>3 DEF FsHold, FsHeld, FsReap, FsPlaced, FsBare, FsRuns
<1>6. FsKnown'
  BY <1>1, <1>2, <1>3, NoneNotId
     DEF FsHold, FsKnown, FsPlaced, FsWorking, FsBare, Unrecorded, FsSteps
<1>7. Alive => daemon # NoDaemon
  BY DEF Alive, NoDaemon
<1>8. FsPlaced'
  BY <1>1, <1>2, <1>3, <1>7
     DEF FsHold, FsHeld, FsReap, FsPlaced, FsWorking, FsBare, FsRuns, FsSteps, Alive
<1>9. FsOwns'
  BY <1>1, <1>2, <1>3, <1>4, NoneNotId
     DEF FsHold, FsOwns, OwnDevices, FsPlaced, FsWorking, FsSteps, FsBare, FsRuns, Unrecorded
<1>10. HelperHeld'
  BY <1>1, <1>2, <1>3 DEF FsHold, HelperHeld
<1>11. InUse' => image'
  BY <1>1, <1>2, <1>3 DEF FsHold, InUse, FsPlaced, FsWorking, FsSteps, FsRuns, FsBare, Alive
<1> QED BY <1>5, <1>6, <1>8, <1>9, <1>10, <1>11, <1>3 DEF FsHold

\* SqliteDrainStart keeps what the lab holds of the world.
LEMMA SqliteDrainStartHolds ==
  ASSUME Types, FsHold, SqliteDrainStart
  PROVE  FsHold' /\ deletion' = deletion
<1>1. fs.at = "workload" /\ ~fs.recovering /\ fs.step = 6
  BY DEF SqliteDrainStart, HelperSucceeded, Step, FsHold, FsPlaced, FsWorking, FsSteps
<1>2. /\ fs'.at = "drain"
      /\ fs'.step = fs.step /\ fs'.device = fs.device /\ fs'.daemon = fs.daemon
      /\ fs'.command = fs.command /\ fs'.recovering = fs.recovering
  BY <1>1 DEF SqliteDrainStart, Proceed, Fails, AfterCleanup, RunHelper, HelperSucceeded, Types,
     FsType, FsOK
<1>3. /\ devices' = devices
      /\ daemon' = daemon
      /\ reap' = reap
      /\ deletion' = deletion
      /\ image' = image
      /\ mount' = mount
      /\ helper' = helper
  BY <1>1 DEF SqliteDrainStart, worldVars, kernelVars, processVars, fileVars, helperVars, mountVars,
     Spawn, NoDaemon, BeginCleanup, HelperSucceeded, RemoveFixture, Types, WorldType, KernelType,
     ProcessType, Device, FsHold, HelperHeld
<1>4. OwnDevices' = OwnDevices
  BY <1>3 DEF OwnDevices
<1>5. FsHeld' /\ FsReap'
  BY <1>1, <1>2, <1>3 DEF FsHold, FsHeld, FsReap, FsPlaced, FsBare, FsRuns
<1>6. FsKnown'
  BY <1>1, <1>2, <1>3, NoneNotId
     DEF FsHold, FsKnown, FsPlaced, FsWorking, FsBare, Unrecorded, FsSteps
<1>7. Alive => daemon # NoDaemon
  BY DEF Alive, NoDaemon
<1>8. FsPlaced'
  BY <1>1, <1>2, <1>3, <1>7
     DEF FsHold, FsHeld, FsReap, FsPlaced, FsWorking, FsBare, FsRuns, FsSteps, Alive
<1>9. FsOwns'
  BY <1>1, <1>2, <1>3, <1>4, NoneNotId
     DEF FsHold, FsOwns, OwnDevices, FsPlaced, FsWorking, FsSteps, FsBare, FsRuns, Unrecorded
<1>10. HelperHeld'
  BY <1>1, <1>2, <1>3 DEF FsHold, HelperHeld
<1>11. InUse' => image'
  BY <1>1, <1>2, <1>3 DEF FsHold, InUse, FsPlaced, FsWorking, FsSteps, FsRuns, FsBare, Alive
<1> QED BY <1>5, <1>6, <1>8, <1>9, <1>10, <1>11, <1>3 DEF FsHold

\* SqliteDrainEnd keeps what the lab holds of the world.
LEMMA SqliteDrainEndHolds ==
  ASSUME Types, FsHold, SqliteDrainEnd
  PROVE  FsHold' /\ deletion' = deletion
<1>1. fs.at = "drain" /\ ~fs.recovering /\ fs.step = 6
  BY DEF SqliteDrainEnd, HelperSucceeded, Step, FsHold, FsPlaced, FsWorking, FsSteps
<1>2. /\ fs'.at = "drained"
      /\ fs'.step = fs.step /\ fs'.device = fs.device /\ fs'.daemon = fs.daemon
      /\ fs'.command = fs.command /\ fs'.recovering = fs.recovering
  BY <1>1 DEF SqliteDrainEnd, Proceed, Fails, AfterCleanup, RunHelper, HelperSucceeded, Types,
     FsType, FsOK
<1>3. /\ devices' = devices
      /\ daemon' = daemon
      /\ reap' = reap
      /\ deletion' = deletion
      /\ image' = image
      /\ mount' = mount
      /\ helper' = helper
  BY <1>1 DEF SqliteDrainEnd, worldVars, kernelVars, processVars, fileVars, helperVars, mountVars,
     Spawn, NoDaemon, BeginCleanup, HelperSucceeded, RemoveFixture, Types, WorldType, KernelType,
     ProcessType, Device, FsHold, HelperHeld
<1>4. OwnDevices' = OwnDevices
  BY <1>3 DEF OwnDevices
<1>5. FsHeld' /\ FsReap'
  BY <1>1, <1>2, <1>3 DEF FsHold, FsHeld, FsReap, FsPlaced, FsBare, FsRuns
<1>6. FsKnown'
  BY <1>1, <1>2, <1>3, NoneNotId
     DEF FsHold, FsKnown, FsPlaced, FsWorking, FsBare, Unrecorded, FsSteps
<1>7. Alive => daemon # NoDaemon
  BY DEF Alive, NoDaemon
<1>8. FsPlaced'
  BY <1>1, <1>2, <1>3, <1>7
     DEF FsHold, FsHeld, FsReap, FsPlaced, FsWorking, FsBare, FsRuns, FsSteps, Alive
<1>9. FsOwns'
  BY <1>1, <1>2, <1>3, <1>4, NoneNotId
     DEF FsHold, FsOwns, OwnDevices, FsPlaced, FsWorking, FsSteps, FsBare, FsRuns, Unrecorded
<1>10. HelperHeld'
  BY <1>1, <1>2, <1>3 DEF FsHold, HelperHeld
<1>11. InUse' => image'
  BY <1>1, <1>2, <1>3 DEF FsHold, InUse, FsPlaced, FsWorking, FsSteps, FsRuns, FsBare, Alive
<1> QED BY <1>5, <1>6, <1>8, <1>9, <1>10, <1>11, <1>3 DEF FsHold

\* SqliteWorkload keeps what the lab holds of the world.
LEMMA SqliteWorkloadHolds ==
  ASSUME Types, FsHold, SqliteWorkload
  PROVE  FsHold' /\ deletion' = deletion
<1>1. fs.at = "drained" /\ ~fs.recovering /\ fs.step = 6
  BY DEF SqliteWorkload, HelperSucceeded, Step, FsHold, FsPlaced, FsWorking, FsSteps
<1>2. /\ fs'.at = "script"
      /\ fs'.step = fs.step + 1 /\ fs'.device = fs.device /\ fs'.daemon = fs.daemon
      /\ fs'.command = fs.command /\ fs'.recovering = fs.recovering
  BY <1>1 DEF SqliteWorkload, Proceed, Fails, AfterCleanup, RunHelper, HelperSucceeded, Types,
     FsType, FsOK
<1>3. /\ devices' = devices
      /\ daemon' = daemon
      /\ reap' = reap
      /\ deletion' = deletion
      /\ image' = image
      /\ mount' = mount
      /\ helper' = helper
  BY <1>1 DEF SqliteWorkload, worldVars, kernelVars, processVars, fileVars, helperVars, mountVars,
     Spawn, NoDaemon, BeginCleanup, HelperSucceeded, RemoveFixture, Types, WorldType, KernelType,
     ProcessType, Device, FsHold, HelperHeld
<1>4. OwnDevices' = OwnDevices
  BY <1>3 DEF OwnDevices
<1>5. FsHeld' /\ FsReap'
  BY <1>1, <1>2, <1>3 DEF FsHold, FsHeld, FsReap, FsPlaced, FsBare, FsRuns
<1>6. FsKnown'
  BY <1>1, <1>2, <1>3, NoneNotId
     DEF FsHold, FsKnown, FsPlaced, FsWorking, FsBare, Unrecorded, FsSteps
<1>7. Alive => daemon # NoDaemon
  BY DEF Alive, NoDaemon
<1>8. FsPlaced'
  BY <1>1, <1>2, <1>3, <1>7
     DEF FsHold, FsHeld, FsReap, FsPlaced, FsWorking, FsBare, FsRuns, FsSteps, Alive
<1>9. FsOwns'
  BY <1>1, <1>2, <1>3, <1>4, NoneNotId
     DEF FsHold, FsOwns, OwnDevices, FsPlaced, FsWorking, FsSteps, FsBare, FsRuns, Unrecorded
<1>10. HelperHeld'
  BY <1>1, <1>2, <1>3 DEF FsHold, HelperHeld
<1>11. InUse' => image'
  BY <1>1, <1>2, <1>3 DEF FsHold, InUse, FsPlaced, FsWorking, FsSteps, FsRuns, FsBare, Alive
<1> QED BY <1>5, <1>6, <1>8, <1>9, <1>10, <1>11, <1>3 DEF FsHold

\* SqliteVerify keeps what the lab holds of the world.
LEMMA SqliteVerifyHolds ==
  ASSUME Types, FsHold, SqliteVerify
  PROVE  FsHold' /\ deletion' = deletion
<1>1. fs.at = "script" /\ fs.step \in 1..18 /\ ScriptStep
  BY InScript DEF SqliteVerify, Step, FsHold, ScriptStep, RemoveFixture
<1>2. fs.at = "script" /\ ScriptStep /\ (fs.step \in {7, 14})
  BY <1>1, StepNumbers DEF SqliteVerify, Step, RemoveFixture
<1>3. /\ fs'.at = "verify"
      /\ fs'.step = fs.step /\ fs'.device = fs.device /\ fs'.daemon = fs.daemon
      /\ fs'.command = fs.command /\ fs'.recovering = fs.recovering
  BY <1>2 DEF SqliteVerify, Proceed, Fails, AfterCleanup, RunHelper, HelperSucceeded, Types, FsType,
     FsOK, ScriptStep
<1>4. /\ devices' = devices
      /\ daemon' = daemon
      /\ reap' = reap
      /\ deletion' = deletion
      /\ image' = image
      /\ mount' = mount
      /\ helper' = helper
  BY <1>2 DEF SqliteVerify, worldVars, kernelVars, processVars, fileVars, helperVars, mountVars,
     Spawn, NoDaemon, BeginCleanup, HelperSucceeded, RemoveFixture, Types, WorldType, KernelType,
     ProcessType, Device, FsHold, HelperHeld
<1>5. OwnDevices' = OwnDevices
  BY <1>4 DEF OwnDevices
<1>6. FsHeld' /\ FsReap'
  BY <1>2, <1>3, <1>4 DEF FsHold, FsHeld, FsReap, FsPlaced, FsBare, FsRuns, ScriptStep
<1>7. FsKnown'
  BY <1>2, <1>3, <1>4, NoneNotId
     DEF FsHold, FsKnown, FsPlaced, FsWorking, FsBare, Unrecorded, ScriptStep, FsSteps
<1>8. Alive => daemon # NoDaemon
  BY DEF Alive, NoDaemon
<1>9. FsPlaced'
  BY <1>2, <1>3, <1>4, <1>8
     DEF FsHold, FsHeld, FsReap, FsPlaced, FsWorking, FsBare, FsRuns, FsSteps, Alive, ScriptStep
<1>10. FsOwns'
  BY <1>2, <1>3, <1>4, <1>5, NoneNotId
     DEF FsHold, FsOwns, OwnDevices, FsPlaced, FsWorking, FsSteps, FsBare, FsRuns, Unrecorded,
     ScriptStep
<1>11. HelperHeld'
  BY <1>2, <1>3, <1>4 DEF FsHold, HelperHeld
<1>12. InUse' => image'
  BY <1>2, <1>3, <1>4 DEF FsHold, InUse, FsPlaced, FsWorking, FsSteps, FsRuns, FsBare, Alive,
     ScriptStep
<1> QED BY <1>6, <1>7, <1>9, <1>10, <1>11, <1>12, <1>4 DEF FsHold

\* SqliteVerified keeps what the lab holds of the world.
LEMMA SqliteVerifiedHolds ==
  ASSUME Types, FsHold, SqliteVerified
  PROVE  FsHold' /\ deletion' = deletion
<1>1. fs.at = "verify" /\ ~fs.recovering /\ fs.step \in {7, 14}
  BY DEF SqliteVerified, HelperSucceeded, Step, FsHold, FsPlaced, FsWorking, FsSteps
<1>2. /\ fs'.at = "script"
      /\ fs'.step = fs.step + 1 /\ fs'.device = fs.device /\ fs'.daemon = fs.daemon
      /\ fs'.command = fs.command /\ fs'.recovering = fs.recovering
  BY <1>1 DEF SqliteVerified, Proceed, Fails, AfterCleanup, RunHelper, HelperSucceeded, Types,
     FsType, FsOK
<1>3. /\ devices' = devices
      /\ daemon' = daemon
      /\ reap' = reap
      /\ deletion' = deletion
      /\ image' = image
      /\ mount' = mount
      /\ helper' = helper
  BY <1>1 DEF SqliteVerified, worldVars, kernelVars, processVars, fileVars, helperVars, mountVars,
     Spawn, NoDaemon, BeginCleanup, HelperSucceeded, RemoveFixture, Types, WorldType, KernelType,
     ProcessType, Device, FsHold, HelperHeld
<1>4. OwnDevices' = OwnDevices
  BY <1>3 DEF OwnDevices
<1>5. FsHeld' /\ FsReap'
  BY <1>1, <1>2, <1>3 DEF FsHold, FsHeld, FsReap, FsPlaced, FsBare, FsRuns
<1>6. FsKnown'
  BY <1>1, <1>2, <1>3, NoneNotId
     DEF FsHold, FsKnown, FsPlaced, FsWorking, FsBare, Unrecorded, FsSteps
<1>7. Alive => daemon # NoDaemon
  BY DEF Alive, NoDaemon
<1>8. FsPlaced'
  BY <1>1, <1>2, <1>3, <1>7
     DEF FsHold, FsHeld, FsReap, FsPlaced, FsWorking, FsBare, FsRuns, FsSteps, Alive
<1>9. FsOwns'
  BY <1>1, <1>2, <1>3, <1>4, NoneNotId
     DEF FsHold, FsOwns, OwnDevices, FsPlaced, FsWorking, FsSteps, FsBare, FsRuns, Unrecorded
<1>10. HelperHeld'
  BY <1>1, <1>2, <1>3 DEF FsHold, HelperHeld
<1>11. InUse' => image'
  BY <1>1, <1>2, <1>3 DEF FsHold, InUse, FsPlaced, FsWorking, FsSteps, FsRuns, FsBare, Alive
<1> QED BY <1>5, <1>6, <1>8, <1>9, <1>10, <1>11, <1>3 DEF FsHold

\* SqliteFilesFail keeps what the lab holds of the world.
LEMMA SqliteFilesFailHolds ==
  ASSUME Types, FsHold, NEW reaped \in BOOLEAN, SqliteFilesFail(reaped)
  PROVE  FsHold' /\ deletion' = deletion
<1>1. fs.at \in {"initialize", "workload", "drain", "drained", "verify"}
  BY DEF SqliteFilesFail, HelperSucceeded, Step, FsHold, FsPlaced, FsWorking, FsSteps
<1>2. /\ (fs.recovering => fs'.at = "drop") /\ (~fs.recovering => fs'.at = "failed")
      /\ fs'.step = fs.step /\ fs'.device = fs.device /\ fs'.daemon = fs.daemon
      /\ fs'.command = ~reaped /\ fs'.recovering = fs.recovering
  BY <1>1 DEF SqliteFilesFail, Proceed, Fails, AfterCleanup, RunHelper, HelperSucceeded, Types,
     FsType, FsOK
<1>3. /\ devices' = devices
      /\ daemon' = daemon
      /\ reap' = reap
      /\ deletion' = deletion
      /\ image' = image
      /\ mount' = mount
      /\ helper' = helper
  BY <1>1 DEF SqliteFilesFail, worldVars, kernelVars, processVars, fileVars, helperVars, mountVars,
     Spawn, NoDaemon, BeginCleanup, HelperSucceeded, RemoveFixture, Types, WorldType, KernelType,
     ProcessType, Device, FsHold, HelperHeld
<1>4. OwnDevices' = OwnDevices
  BY <1>3 DEF OwnDevices
<1>5. FsHeld' /\ FsReap'
  BY <1>1, <1>2, <1>3 DEF FsHold, FsHeld, FsReap, FsPlaced, FsBare, FsRuns
<1>6. FsKnown'
  BY <1>1, <1>2, <1>3, NoneNotId
     DEF FsHold, FsKnown, FsPlaced, FsWorking, FsBare, Unrecorded, FsSteps
<1>7. Alive => daemon # NoDaemon
  BY DEF Alive, NoDaemon
<1>8. FsPlaced'
  BY <1>1, <1>2, <1>3, <1>7
     DEF FsHold, FsHeld, FsReap, FsPlaced, FsWorking, FsBare, FsRuns, FsSteps, Alive
<1>9. FsOwns'
  BY <1>1, <1>2, <1>3, <1>4, NoneNotId
     DEF FsHold, FsOwns, OwnDevices, FsPlaced, FsWorking, FsSteps, FsBare, FsRuns, Unrecorded
<1>10. HelperHeld'
  BY <1>1, <1>2, <1>3 DEF FsHold, HelperHeld
<1>11. InUse' => image'
  BY <1>1, <1>2, <1>3 DEF FsHold, InUse, FsPlaced, FsWorking, FsSteps, FsRuns, FsBare, Alive
<1> QED BY <1>5, <1>6, <1>8, <1>9, <1>10, <1>11, <1>3 DEF FsHold

\* SqliteFinish keeps what the lab holds of the world.
LEMMA SqliteFinishHolds ==
  ASSUME Types, FsHold, SqliteFinish
  PROVE  FsHold' /\ deletion' = deletion
<1>1. fs.at = "script" /\ fs.step \in 1..18 /\ ScriptStep
  BY InScript DEF SqliteFinish, Step, FsHold, ScriptStep, RemoveFixture
<1>2. fs.at = "script" /\ ScriptStep /\ (fs.step = 18)
  BY <1>1, StepNumbers DEF SqliteFinish, Step, RemoveFixture, RemoveFixture
<1>3. /\ fs'.at = "result"
      /\ fs'.step = fs.step /\ fs'.device = fs.device /\ fs'.daemon = fs.daemon
      /\ fs'.command = fs.command /\ fs'.recovering = fs.recovering
  BY <1>2 DEF SqliteFinish, Proceed, Fails, AfterCleanup, RunHelper, HelperSucceeded, Types, FsType,
     FsOK, ScriptStep
<1>4. /\ devices' = devices
      /\ daemon' = daemon
      /\ reap' = reap
      /\ deletion' = deletion
      /\ mount' = mount
      /\ helper' = helper
  BY <1>2 DEF SqliteFinish, worldVars, kernelVars, processVars, fileVars, helperVars, mountVars,
     Spawn, NoDaemon, BeginCleanup, HelperSucceeded, RemoveFixture, Types, WorldType, KernelType,
     ProcessType, Device, FsHold, HelperHeld
<1>5. ~InUse
  BY <1>2, FsBareIdle DEF FsHold, ScriptStep
<1>6. OwnDevices' = OwnDevices
  BY <1>4 DEF OwnDevices
<1>7. FsHeld' /\ FsReap'
  BY <1>2, <1>3, <1>4, <1>5 DEF FsHold, FsHeld, FsReap, FsPlaced, FsBare, FsRuns, ScriptStep
<1>8. FsKnown'
  BY <1>2, <1>3, <1>4, <1>5, NoneNotId
     DEF FsHold, FsKnown, FsPlaced, FsWorking, FsBare, Unrecorded, ScriptStep, FsSteps
<1>9. Alive => daemon # NoDaemon
  BY DEF Alive, NoDaemon
<1>10. FsPlaced'
  BY <1>2, <1>3, <1>4, <1>5, <1>9
     DEF FsHold, FsHeld, FsReap, FsPlaced, FsWorking, FsBare, FsRuns, FsSteps, Alive, ScriptStep
<1>11. FsOwns'
  BY <1>2, <1>3, <1>4, <1>5, <1>6, NoneNotId
     DEF FsHold, FsOwns, OwnDevices, FsPlaced, FsWorking, FsSteps, FsBare, FsRuns, Unrecorded,
     ScriptStep
<1>12. HelperHeld'
  BY <1>2, <1>3, <1>4, <1>5 DEF FsHold, HelperHeld
<1>13. InUse' => image'
  BY <1>2, <1>3, <1>4, <1>5
     DEF FsHold, InUse, FsPlaced, FsWorking, FsSteps, FsRuns, FsBare, Alive, ScriptStep
<1> QED BY <1>7, <1>8, <1>10, <1>11, <1>12, <1>13, <1>4 DEF FsHold

\* SqliteFinishFails keeps what the lab holds of the world.
LEMMA SqliteFinishFailsHolds ==
  ASSUME Types, FsHold, NEW stage \in FinishStages, NEW imageLeft \in BOOLEAN,
         SqliteFinishFails(stage, imageLeft)
  PROVE  FsHold' /\ deletion' = deletion
<1>1. fs.at = "script" /\ fs.step \in 1..18 /\ ScriptStep
  BY InScript DEF SqliteFinishFails, Step, FsHold, ScriptStep, RemoveFixture
<1>2. fs.at = "script" /\ ScriptStep /\ (fs.step = 18)
  BY <1>1, StepNumbers DEF SqliteFinishFails, Step, RemoveFixture
<1>3. /\ fs'.at = "fail"
      /\ fs'.step = fs.step /\ fs'.device = fs.device /\ fs'.daemon = fs.daemon
      /\ fs'.command = fs.command /\ fs'.recovering = fs.recovering
  BY <1>2 DEF SqliteFinishFails, Proceed, Fails, AfterCleanup, RunHelper, HelperSucceeded, Types,
     FsType, FsOK, ScriptStep
<1>4. /\ devices' = devices
      /\ daemon' = daemon
      /\ reap' = reap
      /\ deletion' = deletion
      /\ mount' = mount
      /\ helper' = helper
  BY <1>2 DEF SqliteFinishFails, worldVars, kernelVars, processVars, fileVars, helperVars,
     mountVars, Spawn, NoDaemon, BeginCleanup, HelperSucceeded, RemoveFixture, Types, WorldType,
     KernelType, ProcessType, Device, FsHold, HelperHeld
<1>5. ~InUse
  BY <1>2, FsBareIdle DEF FsHold, ScriptStep
<1>6. OwnDevices' = OwnDevices
  BY <1>4 DEF OwnDevices
<1>7. FsHeld' /\ FsReap'
  BY <1>2, <1>3, <1>4, <1>5 DEF FsHold, FsHeld, FsReap, FsPlaced, FsBare, FsRuns, ScriptStep
<1>8. FsKnown'
  BY <1>2, <1>3, <1>4, <1>5, NoneNotId
     DEF FsHold, FsKnown, FsPlaced, FsWorking, FsBare, Unrecorded, ScriptStep, FsSteps
<1>9. Alive => daemon # NoDaemon
  BY DEF Alive, NoDaemon
<1>10. FsPlaced'
  BY <1>2, <1>3, <1>4, <1>5, <1>9
     DEF FsHold, FsHeld, FsReap, FsPlaced, FsWorking, FsBare, FsRuns, FsSteps, Alive, ScriptStep
<1>11. FsOwns'
  BY <1>2, <1>3, <1>4, <1>5, <1>6, NoneNotId
     DEF FsHold, FsOwns, OwnDevices, FsPlaced, FsWorking, FsSteps, FsBare, FsRuns, Unrecorded,
     ScriptStep
<1>12. HelperHeld'
  BY <1>2, <1>3, <1>4, <1>5 DEF FsHold, HelperHeld
<1>13. InUse' => image'
  BY <1>2, <1>3, <1>4, <1>5
     DEF FsHold, InUse, FsPlaced, FsWorking, FsSteps, FsRuns, FsBare, Alive, ScriptStep
<1> QED BY <1>7, <1>8, <1>10, <1>11, <1>12, <1>13, <1>4 DEF FsHold

\* SqliteResult keeps what the lab holds of the world.
LEMMA SqliteResultHolds ==
  ASSUME Types, FsHold, NEW written \in BOOLEAN, SqliteResult(written)
  PROVE  FsHold' /\ deletion' = deletion
<1>1. CASE ~written
  <2>1. fs.at = "result"
    BY <1>1 DEF SqliteResult, HelperSucceeded, Step, FsHold, FsPlaced, FsWorking, FsSteps
  <2>2. /\ fs'.at = "fail"
        /\ fs'.step = fs.step /\ fs'.device = fs.device /\ fs'.daemon = fs.daemon
        /\ fs'.command = fs.command /\ fs'.recovering = fs.recovering
    BY <2>1, <1>1 DEF SqliteResult, Proceed, Fails, AfterCleanup, RunHelper, HelperSucceeded, Types,
       FsType, FsOK
  <2>3. /\ devices' = devices
        /\ daemon' = daemon
        /\ reap' = reap
        /\ deletion' = deletion
        /\ image' = image
        /\ mount' = mount
        /\ helper' = helper
    BY <2>1, <1>1 DEF SqliteResult, worldVars, kernelVars, processVars, fileVars, helperVars,
       mountVars, Spawn, NoDaemon, BeginCleanup, HelperSucceeded, RemoveFixture, Types, WorldType,
       KernelType, ProcessType, Device, FsHold, HelperHeld
  <2>4. OwnDevices' = OwnDevices
    BY <2>3 DEF OwnDevices
  <2>5. FsHeld' /\ FsReap'
    BY <2>1, <2>2, <2>3 DEF FsHold, FsHeld, FsReap, FsPlaced, FsBare, FsRuns
  <2>6. FsKnown'
    BY <2>1, <2>2, <2>3, NoneNotId
       DEF FsHold, FsKnown, FsPlaced, FsWorking, FsBare, Unrecorded, FsSteps
  <2>7. Alive => daemon # NoDaemon
    BY DEF Alive, NoDaemon
  <2>8. FsPlaced'
    BY <2>1, <2>2, <2>3, <2>7
       DEF FsHold, FsHeld, FsReap, FsPlaced, FsWorking, FsBare, FsRuns, FsSteps, Alive
  <2>9. FsOwns'
    BY <2>1, <2>2, <2>3, <2>4, NoneNotId
       DEF FsHold, FsOwns, OwnDevices, FsPlaced, FsWorking, FsSteps, FsBare, FsRuns, Unrecorded
  <2>10. HelperHeld'
    BY <2>1, <2>2, <2>3 DEF FsHold, HelperHeld
  <2>11. InUse' => image'
    BY <2>1, <2>2, <2>3 DEF FsHold, InUse, FsPlaced, FsWorking, FsSteps, FsRuns, FsBare, Alive
  <2> QED BY <2>5, <2>6, <2>8, <2>9, <2>10, <2>11, <2>3 DEF FsHold
<1>2. CASE written /\ fs.round = FsRounds
  <2>1. fs.at = "result" /\ ~fs.recovering /\ fs.step = 18
    BY <1>2 DEF SqliteResult, HelperSucceeded, Step, FsHold, FsPlaced, FsWorking, FsSteps
  <2>2. /\ fs'.at = "summary"
        /\ fs'.step = fs.step /\ fs'.device = fs.device /\ fs'.daemon = fs.daemon
        /\ fs'.command = fs.command /\ fs'.recovering = fs.recovering
    BY <2>1, <1>2 DEF SqliteResult, Proceed, Fails, AfterCleanup, RunHelper, HelperSucceeded, Types,
       FsType, FsOK
  <2>3. /\ devices' = devices
        /\ daemon' = daemon
        /\ reap' = reap
        /\ deletion' = deletion
        /\ image' = image
        /\ mount' = mount
        /\ helper' = helper
    BY <2>1, <1>2 DEF SqliteResult, worldVars, kernelVars, processVars, fileVars, helperVars,
       mountVars, Spawn, NoDaemon, BeginCleanup, HelperSucceeded, RemoveFixture, Types, WorldType,
       KernelType, ProcessType, Device, FsHold, HelperHeld
  <2>4. OwnDevices' = OwnDevices
    BY <2>3 DEF OwnDevices
  <2>5. FsHeld' /\ FsReap'
    BY <2>1, <2>2, <2>3 DEF FsHold, FsHeld, FsReap, FsPlaced, FsBare, FsRuns
  <2>6. FsKnown'
    BY <2>1, <2>2, <2>3, NoneNotId
       DEF FsHold, FsKnown, FsPlaced, FsWorking, FsBare, Unrecorded, FsSteps
  <2>7. Alive => daemon # NoDaemon
    BY DEF Alive, NoDaemon
  <2>8. FsPlaced'
    BY <2>1, <2>2, <2>3, <2>7
       DEF FsHold, FsHeld, FsReap, FsPlaced, FsWorking, FsBare, FsRuns, FsSteps, Alive
  <2>9. FsOwns'
    BY <2>1, <2>2, <2>3, <2>4, NoneNotId
       DEF FsHold, FsOwns, OwnDevices, FsPlaced, FsWorking, FsSteps, FsBare, FsRuns, Unrecorded
  <2>10. HelperHeld'
    BY <2>1, <2>2, <2>3 DEF FsHold, HelperHeld
  <2>11. InUse' => image'
    BY <2>1, <2>2, <2>3 DEF FsHold, InUse, FsPlaced, FsWorking, FsSteps, FsRuns, FsBare, Alive
  <2> QED BY <2>5, <2>6, <2>8, <2>9, <2>10, <2>11, <2>3 DEF FsHold
<1>3. CASE written /\ fs.round # FsRounds
  <2>1. fs.at = "result" /\ ~fs.recovering /\ fs.step = 18
    BY <1>3 DEF SqliteResult, HelperSucceeded, Step, FsHold, FsPlaced, FsWorking, FsSteps
  <2>2. /\ fs'.at = "select"
        /\ fs'.step = 1 /\ fs'.device = fs.device /\ fs'.daemon = fs.daemon
        /\ fs'.command = fs.command /\ fs'.recovering = fs.recovering
    BY <2>1, <1>3 DEF SqliteResult, Proceed, Fails, AfterCleanup, RunHelper, HelperSucceeded, Types,
       FsType, FsOK
  <2>3. /\ devices' = devices
        /\ daemon' = daemon
        /\ reap' = reap
        /\ deletion' = deletion
        /\ image' = image
        /\ mount' = mount
        /\ helper' = helper
    BY <2>1, <1>3 DEF SqliteResult, worldVars, kernelVars, processVars, fileVars, helperVars,
       mountVars, Spawn, NoDaemon, BeginCleanup, HelperSucceeded, RemoveFixture, Types, WorldType,
       KernelType, ProcessType, Device, FsHold, HelperHeld
  <2>4. OwnDevices' = OwnDevices
    BY <2>3 DEF OwnDevices
  <2>5. FsHeld' /\ FsReap'
    BY <2>1, <2>2, <2>3 DEF FsHold, FsHeld, FsReap, FsPlaced, FsBare, FsRuns
  <2>6. FsKnown'
    BY <2>1, <2>2, <2>3, NoneNotId
       DEF FsHold, FsKnown, FsPlaced, FsWorking, FsBare, Unrecorded, FsSteps
  <2>7. Alive => daemon # NoDaemon
    BY DEF Alive, NoDaemon
  <2>8. FsPlaced'
    BY <2>1, <2>2, <2>3, <2>7
       DEF FsHold, FsHeld, FsReap, FsPlaced, FsWorking, FsBare, FsRuns, FsSteps, Alive
  <2>9. FsOwns'
    BY <2>1, <2>2, <2>3, <2>4, NoneNotId
       DEF FsHold, FsOwns, OwnDevices, FsPlaced, FsWorking, FsSteps, FsBare, FsRuns, Unrecorded
  <2>10. HelperHeld'
    BY <2>1, <2>2, <2>3 DEF FsHold, HelperHeld
  <2>11. InUse' => image'
    BY <2>1, <2>2, <2>3 DEF FsHold, InUse, FsPlaced, FsWorking, FsSteps, FsRuns, FsBare, Alive
  <2> QED BY <2>5, <2>6, <2>8, <2>9, <2>10, <2>11, <2>3 DEF FsHold
<1> QED BY <1>1, <1>2, <1>3

\* SqliteSummary keeps what the lab holds of the world.
LEMMA SqliteSummaryHolds ==
  ASSUME Types, FsHold, NEW written \in BOOLEAN, SqliteSummary(written)
  PROVE  FsHold' /\ deletion' = deletion
<1>1. CASE written
  <2>1. fs.at = "summary" /\ ~fs.recovering /\ fs.step = 18
    BY <1>1 DEF SqliteSummary, HelperSucceeded, Step, FsHold, FsPlaced, FsWorking, FsSteps
  <2>2. /\ fs'.at = "pass"
        /\ fs'.step = fs.step /\ fs'.device = fs.device /\ fs'.daemon = fs.daemon
        /\ fs'.command = fs.command /\ fs'.recovering = fs.recovering
    BY <2>1, <1>1 DEF SqliteSummary, Proceed, Fails, AfterCleanup, RunHelper, HelperSucceeded,
       Types, FsType, FsOK
  <2>3. /\ devices' = devices
        /\ daemon' = daemon
        /\ reap' = reap
        /\ deletion' = deletion
        /\ image' = image
        /\ mount' = mount
        /\ helper' = helper
    BY <2>1, <1>1 DEF SqliteSummary, worldVars, kernelVars, processVars, fileVars, helperVars,
       mountVars, Spawn, NoDaemon, BeginCleanup, HelperSucceeded, RemoveFixture, Types, WorldType,
       KernelType, ProcessType, Device, FsHold, HelperHeld
  <2>4. OwnDevices' = OwnDevices
    BY <2>3 DEF OwnDevices
  <2>5. FsHeld' /\ FsReap'
    BY <2>1, <2>2, <2>3 DEF FsHold, FsHeld, FsReap, FsPlaced, FsBare, FsRuns
  <2>6. FsKnown'
    BY <2>1, <2>2, <2>3, NoneNotId
       DEF FsHold, FsKnown, FsPlaced, FsWorking, FsBare, Unrecorded, FsSteps
  <2>7. Alive => daemon # NoDaemon
    BY DEF Alive, NoDaemon
  <2>8. FsPlaced'
    BY <2>1, <2>2, <2>3, <2>7
       DEF FsHold, FsHeld, FsReap, FsPlaced, FsWorking, FsBare, FsRuns, FsSteps, Alive
  <2>9. FsOwns'
    BY <2>1, <2>2, <2>3, <2>4, NoneNotId
       DEF FsHold, FsOwns, OwnDevices, FsPlaced, FsWorking, FsSteps, FsBare, FsRuns, Unrecorded
  <2>10. HelperHeld'
    BY <2>1, <2>2, <2>3 DEF FsHold, HelperHeld
  <2>11. InUse' => image'
    BY <2>1, <2>2, <2>3 DEF FsHold, InUse, FsPlaced, FsWorking, FsSteps, FsRuns, FsBare, Alive
  <2> QED BY <2>5, <2>6, <2>8, <2>9, <2>10, <2>11, <2>3 DEF FsHold
<1>2. CASE ~written
  <2>1. fs.at = "summary"
    BY <1>2 DEF SqliteSummary, HelperSucceeded, Step, FsHold, FsPlaced, FsWorking, FsSteps
  <2>2. /\ fs'.at = "fail"
        /\ fs'.step = fs.step /\ fs'.device = fs.device /\ fs'.daemon = fs.daemon
        /\ fs'.command = fs.command /\ fs'.recovering = fs.recovering
    BY <2>1, <1>2 DEF SqliteSummary, Proceed, Fails, AfterCleanup, RunHelper, HelperSucceeded,
       Types, FsType, FsOK
  <2>3. /\ devices' = devices
        /\ daemon' = daemon
        /\ reap' = reap
        /\ deletion' = deletion
        /\ image' = image
        /\ mount' = mount
        /\ helper' = helper
    BY <2>1, <1>2 DEF SqliteSummary, worldVars, kernelVars, processVars, fileVars, helperVars,
       mountVars, Spawn, NoDaemon, BeginCleanup, HelperSucceeded, RemoveFixture, Types, WorldType,
       KernelType, ProcessType, Device, FsHold, HelperHeld
  <2>4. OwnDevices' = OwnDevices
    BY <2>3 DEF OwnDevices
  <2>5. FsHeld' /\ FsReap'
    BY <2>1, <2>2, <2>3 DEF FsHold, FsHeld, FsReap, FsPlaced, FsBare, FsRuns
  <2>6. FsKnown'
    BY <2>1, <2>2, <2>3, NoneNotId
       DEF FsHold, FsKnown, FsPlaced, FsWorking, FsBare, Unrecorded, FsSteps
  <2>7. Alive => daemon # NoDaemon
    BY DEF Alive, NoDaemon
  <2>8. FsPlaced'
    BY <2>1, <2>2, <2>3, <2>7
       DEF FsHold, FsHeld, FsReap, FsPlaced, FsWorking, FsBare, FsRuns, FsSteps, Alive
  <2>9. FsOwns'
    BY <2>1, <2>2, <2>3, <2>4, NoneNotId
       DEF FsHold, FsOwns, OwnDevices, FsPlaced, FsWorking, FsSteps, FsBare, FsRuns, Unrecorded
  <2>10. HelperHeld'
    BY <2>1, <2>2, <2>3 DEF FsHold, HelperHeld
  <2>11. InUse' => image'
    BY <2>1, <2>2, <2>3 DEF FsHold, InUse, FsPlaced, FsWorking, FsSteps, FsRuns, FsBare, Alive
  <2> QED BY <2>5, <2>6, <2>8, <2>9, <2>10, <2>11, <2>3 DEF FsHold
<1> QED BY <1>1, <1>2

\* SqliteFailed keeps what the lab holds of the world.
LEMMA SqliteFailedHolds ==
  ASSUME Types, FsHold, NEW written \in BOOLEAN, SqliteFailed(written)
  PROVE  FsHold' /\ deletion' = deletion
<1>1. fs.at = "drop"
  BY DEF SqliteFailed, HelperSucceeded, Step, FsHold, FsPlaced, FsWorking, FsSteps
<1>2. /\ fs'.at = "fail"
      /\ fs'.step = fs.step /\ fs'.device = fs.device /\ fs'.daemon = fs.daemon
      /\ fs'.command = fs.command /\ fs'.recovering = fs.recovering
  BY <1>1 DEF SqliteFailed, Proceed, Fails, AfterCleanup, RunHelper, HelperSucceeded, Types, FsType,
     FsOK
<1>3. /\ devices' = devices
      /\ daemon' = daemon
      /\ reap' = reap
      /\ deletion' = deletion
      /\ image' = image
      /\ mount' = mount
      /\ helper' = helper
  BY <1>1 DEF SqliteFailed, worldVars, kernelVars, processVars, fileVars, helperVars, mountVars,
     Spawn, NoDaemon, BeginCleanup, HelperSucceeded, RemoveFixture, Types, WorldType, KernelType,
     ProcessType, Device, FsHold, HelperHeld
<1>4. OwnDevices' = OwnDevices
  BY <1>3 DEF OwnDevices
<1>5. FsHeld' /\ FsReap'
  BY <1>1, <1>2, <1>3 DEF FsHold, FsHeld, FsReap, FsPlaced, FsBare, FsRuns
<1>6. FsKnown'
  BY <1>1, <1>2, <1>3, NoneNotId
     DEF FsHold, FsKnown, FsPlaced, FsWorking, FsBare, Unrecorded, FsSteps
<1>7. Alive => daemon # NoDaemon
  BY DEF Alive, NoDaemon
<1>8. FsPlaced'
  BY <1>1, <1>2, <1>3, <1>7
     DEF FsHold, FsHeld, FsReap, FsPlaced, FsWorking, FsBare, FsRuns, FsSteps, Alive
<1>9. FsOwns'
  BY <1>1, <1>2, <1>3, <1>4, NoneNotId
     DEF FsHold, FsOwns, OwnDevices, FsPlaced, FsWorking, FsSteps, FsBare, FsRuns, Unrecorded
<1>10. HelperHeld'
  BY <1>1, <1>2, <1>3 DEF FsHold, HelperHeld
<1>11. InUse' => image'
  BY <1>1, <1>2, <1>3 DEF FsHold, InUse, FsPlaced, FsWorking, FsSteps, FsRuns, FsBare, Alive
<1> QED BY <1>5, <1>6, <1>8, <1>9, <1>10, <1>11, <1>3 DEF FsHold

\* The filesystem suites keep what the lab holds of the world.
LEMMA FsNextHolds ==
  ASSUME Types, FsHold, FsNext
  PROVE  FsHold' /\ deletion' = deletion
<1>1. CASE FsCommonNext
  BY <1>1, FsHelperFailsHolds, FsCommandFailsHolds, FsFormatFailsHolds, FsReadyHolds, FsCheckHolds, FsFormatXfsHolds,
     FsFormattedXfsHolds, FsMountHolds, FsUnmountHolds, FsUnmountedHolds, FsTerminateHolds,
     FsExitedHolds, FsReapedHolds, FsRecoverHolds, FsRecoverReapedHolds, FsRecoverDeviceHolds,
     FsUnrecoverableHolds DEF FsCommonNext
<1>2. CASE ~FsCommonNext
  BY <1>2, FsFormatHolds, FsStartHolds, FsMountedHolds, FsFilesHolds, FsStopHolds, FsGoneHolds,
     FsFinishHolds, FsFinishFailsHolds, FsErrorHolds, FsRecoverDaemonHolds, FsDropHolds DEF FsNext
<1> QED BY <1>1, <1>2

\* So does what only the SQLite suite does.
LEMMA SqliteOnlyHolds ==
  ASSUME Types, FsHold, SqliteOnly
  PROVE  FsHold' /\ deletion' = deletion
BY SqliteTimeoutHolds, SqliteNewHolds, SqliteNewFailsHolds, SqlitePreflightHolds, SqliteSetupHolds,
   SqliteInitializedHolds, SqliteDrainStartHolds, SqliteDrainEndHolds, SqliteWorkloadHolds,
   SqliteVerifyHolds, SqliteVerifiedHolds, SqliteFilesFailHolds, SqliteFinishHolds,
   SqliteFinishFailsHolds, SqliteResultHolds, SqliteSummaryHolds, SqliteFailedHolds DEF SqliteOnly

\* Every step keeps what the lab holds of the world.
LEMMA HoldingStep ==
  ASSUME Types, Holding, [Next]_vars
  PROVE  Holding'
<1>1. CASE WorldNext /\ UNCHANGED <<helperVars, fio, fs, sqliteVars>>
  <2>1. Settles
    BY <1>1, WorldSettles DEF Types
  <2> QED BY <1>1, <2>1, SettlesHold
<1>2. CASE OtherNext /\ ~fs.sqlite /\ UNCHANGED <<helperVars, fio, fs, sqliteVars>>
  <2>1. Settles
    BY <1>2, OtherSettles DEF Types
  <2> QED BY <1>2, <2>1, SettlesHold
<1>10. CASE SecondNext /\ UNCHANGED <<helperVars, fio, fs, sqliteVars>>
  <2>1. Settles
    BY <1>10, SecondSettles DEF Types
  <2> QED BY <1>10, <2>1, SettlesHold
<1>3. CASE HelperNext /\ fio.at = "off" /\ UNCHANGED <<worldVars, fio, fs, sqliteVars>>
  BY <1>3, HelperHold
<1>4. CASE FioNext /\ UNCHANGED <<helperVars, fs, sqliteVars>>
  <2>1. fio.at # "off"
    BY <1>4, FioSuiteTypes DEF Types, WorldType, Holding
  <2>2. FioHold'
    BY <1>4, <2>1, FioHoldsBefore, FioNextHolds
  <2> QED BY <1>4, <2>1, <2>2, FioHoldsAfter
<1>5. ASSUME FsNext, UNCHANGED fio
      PROVE  Holding'
  <2>1. fs.at # "off"
    BY <1>5, FsSuiteTypes DEF Types, WorldType
  <2>2. FsHold' /\ deletion' = deletion
    BY <1>5, <2>1, FsHoldsBefore, FsNextHolds
  <2> QED BY <1>5, <2>1, <2>2, FsHoldsAfter
<1>6. ASSUME SqliteOnly, UNCHANGED fio
      PROVE  Holding'
  <2>1. fs.at # "off"
    BY <1>6, SqliteSuiteTypes DEF Types, WorldType
  <2>2. FsHold' /\ deletion' = deletion
    BY <1>6, <2>1, FsHoldsBefore, SqliteOnlyHolds
  <2> QED BY <1>6, <2>1, <2>2, FsHoldsAfter
<1>7. ASSUME UNCHANGED <<worldVars, helperVars, fio, fs>>
      PROVE  Holding'
  <2>1. Alive' = Alive /\ OwnDevices' = OwnDevices /\ FioOp' = FioOp /\ FioInScript' = FioInScript
    BY <1>7 DEF Alive, OwnDevices, FioOp, FioInScript, worldVars, processVars, kernelVars
  <2>2. /\ OneSuite' /\ DaemonHeld' /\ KnownRecorded' /\ ReapPlaced' /\ DeletionPlaced'
        /\ HelperPlaced'
    BY <1>7 DEF Holding, OneSuite, DaemonHeld, KnownRecorded, ReapPlaced, DeletionPlaced,
       HelperPlaced, worldVars, processVars, kernelVars, helperVars, mountVars
  <2>3. FioPlaced' /\ FioOwns'
    BY <1>7, <2>1 DEF Holding, FioPlaced, FioOwns, FioBare, FioRuns, FioLeft, worldVars,
       processVars, kernelVars, fileVars
  <2>4. FsPlaced' /\ FsOwns'
    BY <1>7, <2>1 DEF Holding, FsPlaced, FsOwns, FsWorking, FsBare, FsRuns, worldVars, processVars,
       kernelVars, fileVars
  <2>5. ImageOutlivesUse'
    BY <1>7, <2>1 DEF Holding, ImageOutlivesUse, worldVars, kernelVars, fileVars
  <2> QED BY <2>2, <2>3, <2>4, <2>5 DEF Holding
<1>8. CASE SqliteNext /\ fs.sqlite /\ UNCHANGED fio
  <2>1. CASE CountersNext
    BY <2>1, <1>7, <1>8 DEF CountersNext
  <2> QED BY <1>8, <1>5, <1>6, <2>1, SqliteSplit
<1>9. CASE UNCHANGED vars
  BY <1>9, <1>7 DEF vars
<1> QED
  BY <1>1, <1>2, <1>3, <1>4, <1>5, <1>8, <1>9, <1>10 DEF Next

-----------------------------------------------------------------------------
(* Signals.                                                                *)

\* A filesystem suite signals its daemon when nothing is mounted nor being mounted.
LEMMA FsKeepsSignal ==
  ASSUME Types, Holding, fs.at # "off", FsNext \/ SqliteOnly, Signalled
  PROVE  ~mount /\ helper.action # "mount"
<1>1. FsHold
  BY FsHoldsBefore
<1>2. CASE UNCHANGED daemon
  BY <1>2 DEF Signalled
<1>3. CASE FsTerminate
  BY <1>1, <1>3 DEF FsTerminate, FsHold, HelperHeld, NoHelper
<1>4. CASE FsStart
  <2>1. fs.at = "script" /\ ScriptStep /\ fs.step \in 1..18
    BY <1>1, <1>4, InScript DEF FsStart, Step, FsHold, ScriptStep
  <2>2. ~fs.daemon
    BY <1>4 DEF FsStart
  <2>3. daemon = NoDaemon
    BY <1>1, <2>2 DEF FsHold, FsHeld
  <2> QED BY <2>3 DEF Signalled, Alive, NoDaemon
<1>5. CASE FsExited
  BY <1>5 DEF FsExited, Signalled, Alive
<1>6. CASE FsRecoverDaemon
  <2>1. ~Alive \/ daemon' = daemon
    BY <1>6 DEF FsRecoverDaemon
  <2> QED BY <2>1 DEF Signalled
<1>7. ASSUME SqliteOnly PROVE UNCHANGED daemon
  BY <1>7 DEF SqliteOnly, SqliteTimeout, SqliteNew, SqliteNewFails, SqlitePreflight, SqliteSetup,
     SqliteInitialized, SqliteDrainStart, SqliteDrainEnd, SqliteWorkload, SqliteVerify,
     SqliteVerified, SqliteFilesFail, SqliteFinish, SqliteFinishFails, SqliteResult, SqliteSummary,
     SqliteFailed, RemoveFixture, worldVars, processVars
<1>8. ASSUME FsCommonNext, ~FsTerminate, ~FsExited PROVE UNCHANGED daemon
  BY <1>8 DEF FsCommonNext, FsHelperFails, FsCommandFails, FsFormatFails, FsReady, FsCheck,
     FsFormatXfs, FsFormattedXfs, FsMount, FsUnmount, FsUnmounted, FsReaped, FsRecover, FsRecoverReaped,
     FsRecoverDevice, FsUnrecoverable, worldVars, processVars
<1>9. ASSUME FsNext, ~FsCommonNext, ~FsStart, ~FsRecoverDaemon PROVE UNCHANGED daemon
  BY <1>9 DEF FsNext, FsFormat, FsMounted, FsFiles, FsStop, FsGone, FsFinish, FsFinishFails,
     FsError, FsDrop, RemoveFixture, worldVars, processVars
<1> QED BY <1>2, <1>3, <1>4, <1>5, <1>6, <1>7, <1>8, <1>9

\* The reaping of a filesystem suite has no daemon left to kill.
LEMMA WorldKeepsSignal ==
  ASSUME Types, Holding, fs.at # "off", WorldNext, Signalled
  PROVE  FALSE
<1>1. FsHold
  BY FsHoldsBefore
<1>2. reap # "idle" => ~Alive
  BY <1>1 DEF FsHold, FsReap, FsPlaced
<1>3. reap = "idle"
  BY <1>2 DEF Signalled
<1>4. daemon'.signal = daemon.signal
  BY <1>3, WorldSettles DEF Types, Settles
<1> QED BY <1>4 DEF Signalled

\* No step signals the daemon under a mounted filesystem.
LEMMA MountKeepsDaemonStep ==
  ASSUME Types, Holding, [Next]_vars
  PROVE  fs.at # "off" /\ Signalled => ~mount /\ helper.action # "mount"
<1> SUFFICES ASSUME fs.at # "off", Signalled
             PROVE  ~mount /\ helper.action # "mount"
  OBVIOUS
<1>1. ASSUME UNCHANGED daemon PROVE FALSE
  BY <1>1 DEF Signalled
<1>2. CASE WorldNext
  BY <1>2, WorldKeepsSignal
<1>3. CASE FioNext
  BY <1>3, FioSuiteTypes DEF Types, WorldType, Holding, OneSuite
<1>4. CASE FsNext \/ SqliteOnly
  BY <1>4, FsKeepsSignal
<1>5. ASSUME OtherNext PROVE UNCHANGED daemon
  BY <1>5 DEF OtherNext, OtherAdds, OtherDeletes, processVars
<1>6. ASSUME CountersNext \/ UNCHANGED worldVars \/ UNCHANGED vars PROVE UNCHANGED daemon
  BY <1>6 DEF CountersNext, vars, worldVars, processVars
<1>7. ASSUME SecondNext PROVE UNCHANGED daemon
  BY <1>7 DEF SecondNext, SecondRefused, SecondAdds, SecondServes, SecondStops, SecondEnds
<1> QED
  BY <1>1, <1>2, <1>3, <1>4, <1>5, <1>6, <1>7, SqliteSplit DEF Next

-----------------------------------------------------------------------------
(* Somebody else's devices.                                                *)

\* A step that takes no device from the lab and starts no deletion.
KeepsOwn ==
  /\ UNCHANGED <<foreignLost, stray, strayed>>
  /\ \A id \in Ids : devices[id].owner = "lab" => devices'[id].owner = "lab"
  /\ daemon'.id \in Ids /\ daemon'.signal = "none" =>
       daemon'.id = daemon.id /\ daemon.signal = "none"
  /\ deletion' = deletion \/ deletion' = NoDeletion
  /\ fio'.device = fio.device \/ fio'.device = Unrecorded

\* Such a step keeps somebody else's devices.
LEMMA KeepsForeign ==
  ASSUME Types, ForeignInv, KeepsOwn
  PROVE  ForeignInv'
<1>1. deletion.state = "running" => deletion.id \in Ids
  BY DEF Types, WorldType, ProcessType, DeletionOK
<1>2. NoDeletion.state # "running"
  BY DEF NoDeletion
<1> QED BY <1>1, <1>2 DEF ForeignInv, KeepsOwn

\* A delete command runs when the daemon is gone.
LEMMA DeletionAlone ==
  ASSUME Types, Holding, deletion # NoDeletion
  PROVE  daemon = NoDaemon
<1>1. fio.at \in {"deleting", "clean_deleting"}
  BY DEF Holding, DeletionPlaced
<1>2. ~fio.child
  BY <1>1 DEF Holding, FioPlaced, FioLeft
<1>3. FioHold
  BY <1>1, FioHoldsBefore
<1> QED BY <1>2, <1>3 DEF FioHold, FioHeld

\* The machine's own steps keep somebody else's devices.
LEMMA WorldForeign ==
  ASSUME Types, Holding, ForeignInv, WorldNext, UNCHANGED fio
  PROVE  ForeignInv'
<1>1. ASSUME NEW id \in Ids, DaemonAdds(id)
      PROVE  ForeignInv'
  <2>1. devices[id] = NoDevice /\ daemon'.id = id /\ devices'[id].owner = "lab"
    BY <1>1 DEF DaemonAdds, LeastFree, Types, WorldType, KernelType, ProcessType, DaemonOK, Daemons
  <2>2. \A k \in Ids : devices[k].owner = "lab" => devices'[k].owner = "lab"
    BY <1>1 DEF DaemonAdds, Types, WorldType, KernelType
  <2>3. deletion.state = "running" => deletion.id \in Ids
    BY DEF Types, WorldType, ProcessType, DeletionOK
  <2> QED BY <1>1, <2>1, <2>2, <2>3 DEF DaemonAdds, ForeignInv
<1>2. CASE DaemonServes
  <2>1. \A k \in Ids : devices[k].owner = "lab" => devices'[k].owner = "lab"
    BY <1>2 DEF DaemonServes, Types, WorldType, KernelType, ProcessType, DaemonOK, IdsOrNone,
       Daemons, Device, NoDevice, LeastFree
  <2>2. KeepsOwn
    BY <1>2, <2>1 DEF DaemonServes, KeepsOwn, Types, WorldType, ProcessType, DaemonOK, Daemons,
       Advance, Failed, FioType, FioOK, worldVars, kernelVars, processVars, fileVars
  <2> QED BY <2>2, KeepsForeign
<1>3. CASE DaemonStops
  <2>1. deletion = NoDeletion
    BY <1>3, DeletionAlone DEF DaemonStops, NoDaemon
  <2>2. daemon'.signal = "TERM" /\ NoDeletion.state # "running"
    BY <1>3 DEF DaemonStops, Types, WorldType, ProcessType, DaemonOK, Daemons, NoDeletion
  <2> QED BY <1>3, <2>1, <2>2 DEF DaemonStops, ForeignInv
<1>4. CASE DaemonParks
  <2>1. KeepsOwn
    BY <1>4 DEF DaemonParks, KeepsOwn, Types, WorldType, ProcessType, DaemonOK, Daemons, worldVars,
       kernelVars, processVars, fileVars
  <2> QED BY <2>1, KeepsForeign
<1>5. CASE DaemonDies
  <2>1. daemon'.id = daemon.id /\ daemon'.signal = daemon.signal
    BY <1>5 DEF DaemonDies, Types, WorldType, ProcessType, DaemonOK, Daemons
  <2>2. KeepsOwn
    BY <1>5, <2>1 DEF DaemonDies, KeepsOwn, worldVars, kernelVars, processVars, fileVars
  <2> QED BY <2>2, KeepsForeign
<1>6. ASSUME NEW id \in Ids, KernelStops(id)
      PROVE  ForeignInv'
  <2>1. \A k \in Ids : devices[k].owner = "lab" => devices'[k].owner = "lab"
    BY <1>6 DEF KernelStops, Types, WorldType, KernelType, ProcessType, DaemonOK, IdsOrNone,
       Daemons, Device, NoDevice, LeastFree
  <2>2. KeepsOwn
    BY <1>6, <2>1 DEF KernelStops, KeepsOwn, Types, WorldType, ProcessType, DaemonOK, Daemons,
       Advance, Failed, FioType, FioOK, worldVars, kernelVars, processVars, fileVars
  <2> QED BY <2>2, KeepsForeign
<1>7. CASE CleanupKill
  <2>1. daemon' = daemon \/ daemon' = [daemon EXCEPT !.signal = "KILL"] \/
          daemon' = [daemon EXCEPT !.signal = "TERM"]
    BY <1>7 DEF CleanupKill, Signal, BeginCleanup
  <2>2. daemon'.id = daemon.id /\ (daemon'.signal = "none" => daemon.signal = "none")
    BY <2>1 DEF Types, WorldType, ProcessType, DaemonOK, Daemons
  <2>3. KeepsOwn
    BY <1>7, <2>2 DEF CleanupKill, KeepsOwn, Advance, Types, FioType, FioOK, worldVars, kernelVars,
       processVars, fileVars
  <2> QED BY <2>3, KeepsForeign
<1>8. CASE CleanupReaps
  <2>1. NoDaemon.id \notin Ids
    BY NoneNotId DEF NoDaemon
  <2>2. KeepsOwn
    BY <1>8, <2>1 DEF CleanupReaps, KeepsOwn, worldVars, kernelVars, processVars, fileVars
  <2> QED BY <2>2, KeepsForeign
<1>9. CASE CleanupFails
  <2>1. KeepsOwn
    BY <1>9 DEF CleanupFails, KeepsOwn, worldVars, kernelVars, processVars, fileVars
  <2> QED BY <2>1, KeepsForeign
<1>10. CASE DeleteRuns
  <2>1. daemon = NoDaemon
    BY <1>10, DeletionAlone DEF DeleteRuns, NoDeletion
  <2>2. deletion'.state # "running" /\ NoDaemon.id \notin Ids
    BY <1>10, NoneNotId DEF DeleteRuns, NoDaemon, Types, WorldType, ProcessType, DeletionOK,
       Deletions
  <2> QED BY <1>10, <2>1, <2>2 DEF DeleteRuns, Remove, ForeignInv
<1>11. ASSUME NEW id \in Ids, StrayDeleteRuns(id)
      PROVE  ForeignInv'
  BY <1>11 DEF StrayDeleteRuns, ForeignInv
<1> QED
  BY <1>1, <1>2, <1>3, <1>4, <1>5, <1>6, <1>7, <1>8, <1>9, <1>10, <1>11 DEF WorldNext

\* So does somebody else.
LEMMA OtherForeign ==
  ASSUME Types, Holding, ForeignInv, OtherNext, UNCHANGED fio
  PROVE  ForeignInv'
<1>1. ASSUME NEW id \in Ids, OtherAdds(id)
      PROVE  ForeignInv'
  <2>1. \A k \in Ids : devices[k].owner = "lab" => devices'[k].owner = "lab"
    BY <1>1 DEF OtherAdds, Types, WorldType, KernelType, ProcessType, DaemonOK, IdsOrNone, Daemons,
       Device, NoDevice, LeastFree
  <2>2. KeepsOwn
    BY <1>1, <2>1 DEF OtherAdds, KeepsOwn, Types, WorldType, ProcessType, DaemonOK, Daemons,
       Advance, Failed, FioType, FioOK, worldVars, kernelVars, processVars, fileVars
  <2> QED BY <2>2, KeepsForeign
<1>2. ASSUME NEW id \in Ids, OtherDeletes(id)
      PROVE  ForeignInv'
  <2>1. \A k \in Ids : devices[k].owner = "lab" => devices'[k].owner = "lab"
    BY <1>2 DEF OtherDeletes, Types, WorldType, KernelType, ProcessType, DaemonOK, IdsOrNone,
       Daemons, Device, NoDevice, LeastFree
  <2>2. KeepsOwn
    BY <1>2, <2>1 DEF OtherDeletes, KeepsOwn, Types, WorldType, ProcessType, DaemonOK, Daemons,
       Advance, Failed, FioType, FioOK, worldVars, kernelVars, processVars, fileVars
  <2> QED BY <2>2, KeepsForeign
<1> QED
  BY <1>1, <1>2 DEF OtherNext

\* So does the second daemon.
LEMMA SecondForeign ==
  ASSUME Types, ForeignInv, SecondNext, UNCHANGED fio
  PROVE  ForeignInv'
<1>1. \A k \in Ids : devices[k].owner = "lab" => devices'[k].owner = "lab"
  <2>1. CASE SecondRefused \/ SecondEnds
    BY <2>1 DEF SecondRefused, SecondEnds, kernelVars
  <2>2. ASSUME NEW id \in Ids, SecondAdds(id) \/ SecondServes(id) \/ SecondStops(id)
        PROVE  \A k \in Ids : devices[k].owner = "lab" => devices'[k].owner = "lab"
    BY <2>2 DEF SecondAdds, SecondServes, SecondStops, LeastFree, Types, WorldType, KernelType,
       Device, NoDevice
  <2> QED BY <2>1, <2>2 DEF SecondNext
<1>2. UNCHANGED <<foreignLost, stray, strayed, daemon, deletion>>
  BY DEF SecondNext, SecondRefused, SecondAdds, SecondServes, SecondStops, SecondEnds, kernelVars
<1>3. KeepsOwn
  BY <1>1, <1>2 DEF KeepsOwn
<1> QED BY <1>3, KeepsForeign

\* The fio suite deletes only what it found to be its own.
LEMMA FioForeign ==
  ASSUME Types, Holding, ForeignInv, FioNext
  PROVE  ForeignInv'
<1>1. CASE FioSetup
  <2>1. fio'.device = fio.device \/ fio'.device = Unrecorded
    BY <1>1 DEF FioSetup, Advance, Failed, Refuse, Preserve, Types, FioType, FioOK
  <2>2. KeepsOwn
    BY <1>1, <2>1 DEF FioSetup, KeepsOwn, worldVars, kernelVars, processVars, fileVars
  <2> QED BY <2>2, KeepsForeign
<1>2. ASSUME NEW created \in BOOLEAN, NEW valid \in BOOLEAN, FioFormat(created, valid)
      PROVE  ForeignInv'
  <2>1. fio'.device = fio.device \/ fio'.device = Unrecorded
    BY <1>2 DEF FioFormat, Advance, Failed, Refuse, Preserve, Types, FioType, FioOK
  <2>2. KeepsOwn
    BY <1>2, <2>1 DEF FioFormat, KeepsOwn, worldVars, kernelVars, processVars, fileVars
  <2> QED BY <2>2, KeepsForeign
<1>3. CASE FioStart
  <2>1. daemon'.id \notin Ids /\ fio'.device = fio.device
    BY <1>3, NoneNotId DEF FioStart, Spawn, NoDaemon, Types, FioType, FioOK
  <2>2. KeepsOwn
    BY <1>3, <2>1 DEF FioStart, KeepsOwn, worldVars, kernelVars, processVars, fileVars
  <2> QED BY <2>2, KeepsForeign
<1>4. CASE FioReady
  <2>1. daemon.id \in Ids /\ daemon.signal = "none"
    BY <1>4 DEF FioReady, Types, WorldType, ProcessType, DaemonOK, Holding, FioPlaced
  <2>2. \A k \in Ids : devices'[k].owner = devices[k].owner
    BY <1>4, <2>1 DEF FioReady, Types, WorldType, KernelType, Device
  <2>3. fio'.device.owner = devices[daemon.id].owner
    BY <1>4 DEF FioReady, Record, Advance, Types, FioType, FioOK
  <2>4. deletion.state = "running" => deletion.id \in Ids
    BY DEF Types, WorldType, ProcessType, DeletionOK
  <2> QED BY <1>4, <2>1, <2>2, <2>3, <2>4 DEF FioReady, ForeignInv, processVars
<1>5. ASSUME NEW identity \in Identities, FioRun(identity)
      PROVE  ForeignInv'
  <2>1. fio'.device = fio.device \/ fio'.device = Unrecorded
    BY <1>5 DEF FioRun, Advance, Failed, Refuse, Preserve, Types, FioType, FioOK
  <2>2. KeepsOwn
    BY <1>5, <2>1 DEF FioRun, KeepsOwn, worldVars, kernelVars, processVars, fileVars
  <2> QED BY <2>2, KeepsForeign
<1>6. CASE FioLock \/ FioLockProven
  <2>1. fio'.device = fio.device
    BY <1>6 DEF FioLock, FioLockProven, Types, FioType, FioOK
  <2>2. KeepsOwn
    BY <1>6, <2>1 DEF FioLock, FioLockProven, KeepsOwn, kernelVars
  <2> QED BY <2>2, KeepsForeign
<1>7. ASSUME NEW reaped \in BOOLEAN, FioLockLost(reaped)
      PROVE  ForeignInv'
  <2>1. fio'.device = fio.device
    BY <1>7 DEF FioLockLost, Failed, Types, FioType, FioOK
  <2>2. KeepsOwn
    BY <1>7, <2>1 DEF FioLockLost, KeepsOwn, kernelVars
  <2> QED BY <2>2, KeepsForeign
<1>8. CASE FioSignal
  <2>1. daemon' = daemon \/ daemon' = [daemon EXCEPT !.signal = "KILL"] \/
          daemon' = [daemon EXCEPT !.signal = "TERM"]
    BY <1>8 DEF FioSignal, Signal, BeginCleanup
  <2>2. daemon'.id = daemon.id /\ (daemon'.signal = "none" => daemon.signal = "none")
    BY <2>1 DEF Types, WorldType, ProcessType, DaemonOK, Daemons
  <2>3. KeepsOwn
    BY <1>8, <2>2 DEF FioSignal, KeepsOwn, Advance, Types, FioType, FioOK, worldVars, kernelVars,
       processVars, fileVars
  <2> QED BY <2>3, KeepsForeign
<1>9. CASE FioExited
  <2>1. daemon' = daemon \/ daemon' = [daemon EXCEPT !.signal = "KILL"] \/
          daemon' = [daemon EXCEPT !.signal = "TERM"]
    BY <1>9 DEF FioExited, Signal, BeginCleanup
  <2>2. daemon'.id = daemon.id /\ (daemon'.signal = "none" => daemon.signal = "none")
    BY <2>1 DEF Types, WorldType, ProcessType, DaemonOK, Daemons
  <2>3. KeepsOwn
    BY <1>9, <2>2 DEF FioExited, KeepsOwn, Advance, Types, FioType, FioOK, worldVars, kernelVars,
       processVars, fileVars
  <2> QED BY <2>3, KeepsForeign
<1>10. CASE FioReaped
  <2>1. fio'.device = fio.device \/ fio'.device = Unrecorded
    BY <1>10 DEF FioReaped, Advance, Failed, Refuse, Preserve, Types, FioType, FioOK
  <2>2. KeepsOwn
    BY <1>10, <2>1 DEF FioReaped, KeepsOwn, worldVars, kernelVars, processVars, fileVars
  <2> QED BY <2>2, KeepsForeign
<1>11. CASE FioGone
  <2>1. fio'.device = fio.device \/ fio'.device = Unrecorded
    BY <1>11 DEF FioGone, Advance, Failed, Refuse, Preserve, Types, FioType, FioOK
  <2>2. KeepsOwn
    BY <1>11, <2>1 DEF FioGone, KeepsOwn, worldVars, kernelVars, processVars, fileVars
  <2> QED BY <2>2, KeepsForeign
<1>12. CASE FioHandshake
  <2>1. fio'.device = fio.device \/ fio'.device = Unrecorded
    BY <1>12 DEF FioHandshake, Advance, Failed, Refuse, Preserve, Types, FioType, FioOK
  <2>2. KeepsOwn
    BY <1>12, <2>1 DEF FioHandshake, KeepsOwn, worldVars, kernelVars, processVars, fileVars
  <2> QED BY <2>2, KeepsForeign
<1>13. ASSUME NEW identity \in Identities, FioIdentity(identity)
      PROVE  ForeignInv'
  <2>1. fio'.device = fio.device \/ fio'.device = Unrecorded
    BY <1>13 DEF FioIdentity, Advance, Failed, Refuse, Preserve, Types, FioType, FioOK
  <2>2. KeepsOwn
    BY <1>13, <2>1 DEF FioIdentity, KeepsOwn, worldVars, kernelVars, processVars, fileVars
  <2> QED BY <2>2, KeepsForeign
<1>14. ASSUME NEW identity \in Identities, FioDelete(identity)
      PROVE  ForeignInv'
  <2>1. CASE identity \in {"Matching", "StoppedMatching"}
    <3>1. fio'.device = fio.device /\ deletion'.id = fio.device.id /\ fio.device # Unrecorded
      BY <1>14, <2>1 DEF FioDelete, StartDelete, Types, FioType, FioOK, Holding, FioPlaced, FioLeft
    <3>2. Same(fio.device)
      BY <1>14, <2>1, ClassifyFacts DEF FioDelete
    <3>3. ~strayed => devices[fio.device.id].owner = "lab"
      BY <3>1, <3>2 DEF Same, ForeignInv
    <3> QED BY <1>14, <3>1, <3>3 DEF FioDelete, ForeignInv, worldVars, kernelVars, processVars,
          fileVars
  <2>2. CASE identity \notin {"Matching", "StoppedMatching"}
    <3>1. fio'.device = fio.device
      BY <1>14, <2>2 DEF FioDelete, Failed, Refuse, Preserve, Types, FioType, FioOK
    <3>2. KeepsOwn
      BY <1>14, <2>2, <3>1 DEF FioDelete, KeepsOwn, worldVars, kernelVars, processVars, fileVars
    <3> QED BY <3>2, KeepsForeign
  <2> QED BY <2>1, <2>2
<1>15. CASE FioDeleted
  <2>1. fio'.device = fio.device \/ fio'.device = Unrecorded
    BY <1>15 DEF FioDeleted, Advance, Failed, Refuse, Preserve, Types, FioType, FioOK
  <2>2. KeepsOwn
    BY <1>15, <2>1 DEF FioDeleted, KeepsOwn, worldVars, kernelVars, processVars, fileVars
  <2> QED BY <2>2, KeepsForeign
<1>16. ASSUME NEW reaped \in BOOLEAN, FioDeleteFails(reaped)
      PROVE  ForeignInv'
  <2>1. fio'.device = fio.device
    BY <1>16 DEF FioDeleteFails, Failed, Preserve, Types, FioType, FioOK
  <2>2. CASE reaped \/ deletion.state # "running"
    <3>1. KeepsOwn
      BY <1>16, <2>1, <2>2 DEF FioDeleteFails, AbandonDelete, KeepsOwn, worldVars, kernelVars,
         processVars, fileVars
    <3> QED BY <3>1, KeepsForeign
  <2>3. CASE ~(reaped \/ deletion.state # "running")
    BY <1>16, <2>3 DEF FioDeleteFails, AbandonDelete, ForeignInv
  <2> QED BY <2>2, <2>3
<1>17. CASE FioClear
  <2>1. fio'.device = fio.device \/ fio'.device = Unrecorded
    BY <1>17, Zenon DEF FioClear, Advance, Failed, Refuse, Preserve, Types, FioType, FioOK
  <2>2. KeepsOwn
    BY <1>17, <2>1, Zenon DEF FioClear, KeepsOwn, worldVars, kernelVars, processVars, fileVars
  <2> QED BY <2>2, KeepsForeign
<1>18. ASSUME NEW imageLeft \in BOOLEAN, FioClearFails(imageLeft)
      PROVE  ForeignInv'
  <2>1. fio'.device = fio.device \/ fio'.device = Unrecorded
    BY <1>18 DEF FioClearFails, Advance, Failed, Refuse, Preserve, Types, FioType, FioOK
  <2>2. KeepsOwn
    BY <1>18, <2>1 DEF FioClearFails, KeepsOwn, worldVars, kernelVars, processVars, fileVars
  <2> QED BY <2>2, KeepsForeign
<1>19. CASE FioError
  <2>1. fio'.device = fio.device \/ fio'.device = Unrecorded
    BY <1>19 DEF FioError, Advance, Failed, Refuse, Preserve, Types, FioType, FioOK
  <2>2. KeepsOwn
    BY <1>19, <2>1 DEF FioError, KeepsOwn, worldVars, kernelVars, processVars, fileVars
  <2> QED BY <2>2, KeepsForeign
<1>20. CASE CleanChild
  <2>1. daemon' = daemon \/ daemon' = [daemon EXCEPT !.signal = "KILL"] \/
          daemon' = [daemon EXCEPT !.signal = "TERM"]
    BY <1>20 DEF CleanChild, Signal, BeginCleanup
  <2>2. daemon'.id = daemon.id /\ (daemon'.signal = "none" => daemon.signal = "none")
    BY <2>1 DEF Types, WorldType, ProcessType, DaemonOK, Daemons
  <2>3. KeepsOwn
    BY <1>20, <2>2 DEF CleanChild, KeepsOwn, Advance, Types, FioType, FioOK, worldVars, kernelVars,
       processVars, fileVars
  <2> QED BY <2>3, KeepsForeign
<1>21. CASE CleanChildDone
  <2>1. fio'.device = fio.device \/ fio'.device = Unrecorded
    BY <1>21 DEF CleanChildDone, Advance, Failed, Refuse, Preserve, Types, FioType, FioOK
  <2>2. KeepsOwn
    BY <1>21, <2>1 DEF CleanChildDone, KeepsOwn, worldVars, kernelVars, processVars, fileVars
  <2> QED BY <2>2, KeepsForeign
<1>22. CASE CleanUnrecorded
  <2>1. fio'.device = fio.device \/ fio'.device = Unrecorded
    BY <1>22 DEF CleanUnrecorded, Advance, Failed, Refuse, Preserve, Types, FioType, FioOK
  <2>2. KeepsOwn
    BY <1>22, <2>1 DEF CleanUnrecorded, KeepsOwn, worldVars, kernelVars, processVars, fileVars
  <2> QED BY <2>2, KeepsForeign
<1>23. ASSUME NEW identity \in Identities, CleanDevice(identity)
      PROVE  ForeignInv'
  <2>1. CASE identity \in {"Matching", "StoppedMatching"}
    <3>1. fio'.device = fio.device /\ deletion'.id = fio.device.id /\ fio.device # Unrecorded
      BY <1>23, <2>1 DEF CleanDevice, StartDelete, Types, FioType, FioOK, Holding, FioPlaced,
         FioLeft
    <3>2. Same(fio.device)
      BY <1>23, <2>1, ClassifyFacts DEF CleanDevice
    <3>3. ~strayed => devices[fio.device.id].owner = "lab"
      BY <3>1, <3>2 DEF Same, ForeignInv
    <3> QED BY <1>23, <3>1, <3>3 DEF CleanDevice, ForeignInv, worldVars, kernelVars, processVars,
          fileVars
  <2>2. CASE identity \notin {"Matching", "StoppedMatching"}
    <3>1. fio'.device = fio.device
      BY <1>23, <2>2 DEF CleanDevice, Failed, Refuse, Preserve, Types, FioType, FioOK
    <3>2. KeepsOwn
      BY <1>23, <2>2, <3>1 DEF CleanDevice, KeepsOwn, worldVars, kernelVars, processVars, fileVars
    <3> QED BY <3>2, KeepsForeign
  <2> QED BY <2>1, <2>2
<1>24. CASE CleanDeleted
  <2>1. fio'.device = fio.device \/ fio'.device = Unrecorded
    BY <1>24 DEF CleanDeleted, Advance, Failed, Refuse, Preserve, Types, FioType, FioOK
  <2>2. KeepsOwn
    BY <1>24, <2>1 DEF CleanDeleted, KeepsOwn, worldVars, kernelVars, processVars, fileVars
  <2> QED BY <2>2, KeepsForeign
<1>25. ASSUME NEW reaped \in BOOLEAN, CleanDeleteFails(reaped)
      PROVE  ForeignInv'
  <2>1. fio'.device = fio.device
    BY <1>25 DEF CleanDeleteFails, Failed, Preserve, Types, FioType, FioOK
  <2>2. CASE reaped \/ deletion.state # "running"
    <3>1. KeepsOwn
      BY <1>25, <2>1, <2>2 DEF CleanDeleteFails, AbandonDelete, KeepsOwn, worldVars, kernelVars,
         processVars, fileVars
    <3> QED BY <3>1, KeepsForeign
  <2>3. CASE ~(reaped \/ deletion.state # "running")
    BY <1>25, <2>3 DEF CleanDeleteFails, AbandonDelete, ForeignInv
  <2> QED BY <2>2, <2>3
<1>26. ASSUME NEW disappeared \in BOOLEAN, CleanGone(disappeared)
      PROVE  ForeignInv'
  <2>1. fio'.device = fio.device \/ fio'.device = Unrecorded
    BY <1>26 DEF CleanGone, Advance, Failed, Refuse, Preserve, Types, FioType, FioOK
  <2>2. KeepsOwn
    BY <1>26, <2>1 DEF CleanGone, KeepsOwn, worldVars, kernelVars, processVars, fileVars
  <2> QED BY <2>2, KeepsForeign
<1>27. ASSUME NEW valid \in BOOLEAN, NEW removed \in BOOLEAN, NEW imageLeft \in BOOLEAN,
              CleanFiles(valid, removed, imageLeft)
      PROVE  ForeignInv'
  <2>1. fio'.device = fio.device \/ fio'.device = Unrecorded
    BY <1>27 DEF CleanFiles, Advance, Failed, Refuse, Preserve, Types, FioType, FioOK
  <2>2. KeepsOwn
    BY <1>27, <2>1 DEF CleanFiles, KeepsOwn, worldVars, kernelVars, processVars, fileVars
  <2> QED BY <2>2, KeepsForeign
<1> QED
  BY <1>1, <1>2, <1>3, <1>4, <1>5, <1>6, <1>7, <1>8, <1>9, <1>10, <1>11, <1>12, <1>13, <1>14, <1>15,
     <1>16, <1>17, <1>18, <1>19, <1>20, <1>21, <1>22, <1>23, <1>24, <1>25, <1>26, <1>27 DEF FioNext

\* The filesystem suites delete no device.
LEMMA FsForeign ==
  ASSUME Types, Holding, ForeignInv, FsNext, UNCHANGED fio
  PROVE  ForeignInv'
<1>1. ASSUME NEW reaped \in BOOLEAN, FsHelperFails(reaped)
      PROVE  ForeignInv'
  <2>1. KeepsOwn
    BY <1>1 DEF FsHelperFails, KeepsOwn, RemoveFixture, worldVars, kernelVars, processVars, fileVars
  <2> QED BY <2>1, KeepsForeign
<1>2. ASSUME NEW reaped \in BOOLEAN, FsCommandFails(reaped)
      PROVE  ForeignInv'
  <2>1. KeepsOwn
    BY <1>2 DEF FsCommandFails, KeepsOwn, RemoveFixture, worldVars, kernelVars, processVars,
       fileVars
  <2> QED BY <2>1, KeepsForeign
<1>3. ASSUME NEW accepted \in BOOLEAN, FsReady(accepted)
      PROVE  ForeignInv'
  <2>1. \A k \in Ids : devices[k].owner = "lab" => devices'[k].owner = "lab"
    BY <1>3 DEF FsReady, Types, WorldType, KernelType, ProcessType, DaemonOK, IdsOrNone, Daemons,
       Device, NoDevice, LeastFree
  <2>2. KeepsOwn
    BY <1>3, <2>1 DEF FsReady, KeepsOwn, Types, WorldType, ProcessType, DaemonOK, Daemons, Advance,
       Failed, FioType, FioOK, worldVars, kernelVars, processVars, fileVars
  <2> QED BY <2>2, KeepsForeign
<1>4. CASE FsCheck
  <2>1. KeepsOwn
    BY <1>4 DEF FsCheck, KeepsOwn, RemoveFixture, worldVars, kernelVars, processVars, fileVars
  <2> QED BY <2>1, KeepsForeign
<1>5. CASE FsFormatXfs
  <2>1. KeepsOwn
    BY <1>5 DEF FsFormatXfs, KeepsOwn, RemoveFixture, worldVars, kernelVars, processVars, fileVars
  <2> QED BY <2>1, KeepsForeign
<1>6. CASE FsFormattedXfs
  <2>1. KeepsOwn
    BY <1>6 DEF FsFormattedXfs, KeepsOwn, RemoveFixture, worldVars, kernelVars, processVars,
       fileVars
  <2> QED BY <2>1, KeepsForeign
<1>7. CASE FsMount
  <2>1. KeepsOwn
    BY <1>7 DEF FsMount, KeepsOwn, RemoveFixture, worldVars, kernelVars, processVars, fileVars
  <2> QED BY <2>1, KeepsForeign
<1>8. CASE FsUnmount
  <2>1. KeepsOwn
    BY <1>8 DEF FsUnmount, KeepsOwn, RemoveFixture, worldVars, kernelVars, processVars, fileVars
  <2> QED BY <2>1, KeepsForeign
<1>9. ASSUME NEW verified \in BOOLEAN, FsUnmounted(verified)
      PROVE  ForeignInv'
  <2>1. KeepsOwn
    BY <1>9 DEF FsUnmounted, KeepsOwn, RemoveFixture, worldVars, kernelVars, processVars, fileVars
  <2> QED BY <2>1, KeepsForeign
<1>10. CASE FsTerminate
  <2>1. daemon' = daemon \/ daemon' = [daemon EXCEPT !.signal = "KILL"] \/
          daemon' = [daemon EXCEPT !.signal = "TERM"]
    BY <1>10 DEF FsTerminate, Signal, BeginCleanup
  <2>2. daemon'.id = daemon.id /\ (daemon'.signal = "none" => daemon.signal = "none")
    BY <2>1 DEF Types, WorldType, ProcessType, DaemonOK, Daemons
  <2>3. KeepsOwn
    BY <1>10, <2>2 DEF FsTerminate, KeepsOwn, Advance, Types, FioType, FioOK, worldVars, kernelVars,
       processVars, fileVars
  <2> QED BY <2>3, KeepsForeign
<1>11. CASE FsExited
  <2>1. daemon' = daemon \/ daemon' = [daemon EXCEPT !.signal = "KILL"] \/
          daemon' = [daemon EXCEPT !.signal = "TERM"]
    BY <1>11 DEF FsExited, Signal, BeginCleanup
  <2>2. daemon'.id = daemon.id /\ (daemon'.signal = "none" => daemon.signal = "none")
    BY <2>1 DEF Types, WorldType, ProcessType, DaemonOK, Daemons
  <2>3. KeepsOwn
    BY <1>11, <2>2 DEF FsExited, KeepsOwn, Advance, Types, FioType, FioOK, worldVars, kernelVars,
       processVars, fileVars
  <2> QED BY <2>3, KeepsForeign
<1>12. CASE FsReaped
  <2>1. KeepsOwn
    BY <1>12 DEF FsReaped, KeepsOwn, RemoveFixture, worldVars, kernelVars, processVars, fileVars
  <2> QED BY <2>1, KeepsForeign
<1>13. ASSUME NEW reaped \in BOOLEAN, FsRecover(reaped)
      PROVE  ForeignInv'
  <2>1. KeepsOwn
    BY <1>13 DEF FsRecover, KeepsOwn, RemoveFixture, worldVars, kernelVars, processVars, fileVars
  <2> QED BY <2>1, KeepsForeign
<1>14. CASE FsRecoverReaped
  <2>1. KeepsOwn
    BY <1>14 DEF FsRecoverReaped, KeepsOwn, RemoveFixture, worldVars, kernelVars, processVars,
       fileVars
  <2> QED BY <2>1, KeepsForeign
<1>15. CASE FsRecoverDevice
  <2>1. KeepsOwn
    BY <1>15 DEF FsRecoverDevice, KeepsOwn, RemoveFixture, worldVars, kernelVars, processVars,
       fileVars
  <2> QED BY <2>1, KeepsForeign
<1>16. CASE FsUnrecoverable
  <2>1. KeepsOwn
    BY <1>16 DEF FsUnrecoverable, KeepsOwn, RemoveFixture, worldVars, kernelVars, processVars,
       fileVars
  <2> QED BY <2>1, KeepsForeign
<1>17. ASSUME NEW done \in BOOLEAN, FsFormat(done)
      PROVE  ForeignInv'
  <2>1. KeepsOwn
    BY <1>17 DEF FsFormat, KeepsOwn, RemoveFixture, worldVars, kernelVars, processVars, fileVars
  <2> QED BY <2>1, KeepsForeign
<1>18. CASE FsStart
  <2>1. daemon'.id \notin Ids
    BY <1>18, NoneNotId DEF FsStart, Spawn, NoDaemon
  <2>2. KeepsOwn
    BY <1>18, <2>1 DEF FsStart, KeepsOwn, worldVars, kernelVars, processVars, fileVars
  <2> QED BY <2>2, KeepsForeign
<1>19. ASSUME NEW verified \in BOOLEAN, FsMounted(verified)
      PROVE  ForeignInv'
  <2>1. KeepsOwn
    BY <1>19 DEF FsMounted, KeepsOwn, RemoveFixture, worldVars, kernelVars, processVars, fileVars
  <2> QED BY <2>1, KeepsForeign
<1>20. CASE FsFiles
  <2>1. KeepsOwn
    BY <1>20 DEF FsFiles, KeepsOwn, RemoveFixture, worldVars, kernelVars, processVars, fileVars
  <2> QED BY <2>1, KeepsForeign
<1>21. CASE FsStop
  <2>1. KeepsOwn
    BY <1>21 DEF FsStop, KeepsOwn, RemoveFixture, worldVars, kernelVars, processVars, fileVars
  <2> QED BY <2>1, KeepsForeign
<1>22. ASSUME NEW logged \in BOOLEAN, FsGone(logged)
      PROVE  ForeignInv'
  <2>1. KeepsOwn
    BY <1>22 DEF FsGone, KeepsOwn, RemoveFixture, worldVars, kernelVars, processVars, fileVars
  <2> QED BY <2>1, KeepsForeign
<1>23. CASE FsFinish
  <2>1. KeepsOwn
    BY <1>23 DEF FsFinish, KeepsOwn, RemoveFixture, worldVars, kernelVars, processVars, fileVars
  <2> QED BY <2>1, KeepsForeign
<1>24. ASSUME NEW imageLeft \in BOOLEAN, FsFinishFails(imageLeft)
      PROVE  ForeignInv'
  <2>1. KeepsOwn
    BY <1>24 DEF FsFinishFails, KeepsOwn, RemoveFixture, worldVars, kernelVars, processVars,
       fileVars
  <2> QED BY <2>1, KeepsForeign
<1>25. CASE FsError
  <2>1. KeepsOwn
    BY <1>25 DEF FsError, KeepsOwn, RemoveFixture, worldVars, kernelVars, processVars, fileVars
  <2> QED BY <2>1, KeepsForeign
<1>26. CASE FsRecoverDaemon
  <2>1. daemon' = daemon \/ daemon' = [daemon EXCEPT !.signal = "KILL"] \/
          daemon' = [daemon EXCEPT !.signal = "TERM"]
    BY <1>26 DEF FsRecoverDaemon, Signal, BeginCleanup
  <2>2. daemon'.id = daemon.id /\ (daemon'.signal = "none" => daemon.signal = "none")
    BY <2>1 DEF Types, WorldType, ProcessType, DaemonOK, Daemons
  <2>3. KeepsOwn
    BY <1>26, <2>2 DEF FsRecoverDaemon, KeepsOwn, Advance, Types, FioType, FioOK, worldVars,
       kernelVars, processVars, fileVars
  <2> QED BY <2>3, KeepsForeign
<1>27. CASE FsDrop
  <2>1. KeepsOwn
    BY <1>27 DEF FsDrop, KeepsOwn, RemoveFixture, worldVars, kernelVars, processVars, fileVars
  <2> QED BY <2>1, KeepsForeign
<1>28. ASSUME NEW created \in BOOLEAN, NEW reaped \in BOOLEAN, FsFormatFails(created, reaped)
      PROVE  ForeignInv'
  <2>1. KeepsOwn
    BY <1>28 DEF FsFormatFails, KeepsOwn, kernelVars, processVars
  <2> QED BY <2>1, KeepsForeign
<1> QED
  BY <1>1, <1>2, <1>3, <1>4, <1>5, <1>6, <1>7, <1>8, <1>9, <1>10, <1>11, <1>12, <1>13, <1>14, <1>15,
     <1>16, <1>17, <1>18, <1>19, <1>20, <1>21, <1>22, <1>23, <1>24, <1>25, <1>26, <1>27, <1>28
     DEF FsNext, FsCommonNext

\* Nor does the SQLite suite.
LEMMA SqliteForeign ==
  ASSUME Types, Holding, ForeignInv, SqliteOnly, UNCHANGED fio
  PROVE  ForeignInv'
<1>1. CASE SqliteTimeout
  <2>1. KeepsOwn
    BY <1>1 DEF SqliteTimeout, KeepsOwn, RemoveFixture, worldVars, kernelVars, processVars, fileVars
  <2> QED BY <2>1, KeepsForeign
<1>2. CASE SqliteNew
  <2>1. KeepsOwn
    BY <1>2 DEF SqliteNew, KeepsOwn, RemoveFixture, worldVars, kernelVars, processVars, fileVars
  <2> QED BY <2>1, KeepsForeign
<1>3. ASSUME NEW left \in BOOLEAN, SqliteNewFails(left)
      PROVE  ForeignInv'
  <2>1. KeepsOwn
    BY <1>3 DEF SqliteNewFails, KeepsOwn, RemoveFixture, worldVars, kernelVars, processVars,
       fileVars
  <2> QED BY <2>1, KeepsForeign
<1>4. ASSUME NEW done \in BOOLEAN, NEW reaped \in BOOLEAN, SqlitePreflight(done, reaped)
      PROVE  ForeignInv'
  <2>1. KeepsOwn
    BY <1>4 DEF SqlitePreflight, KeepsOwn, RemoveFixture, worldVars, kernelVars, processVars,
       fileVars
  <2> QED BY <2>1, KeepsForeign
<1>5. ASSUME NEW speedtest \in BOOLEAN, SqliteSetup(speedtest)
      PROVE  ForeignInv'
  <2>1. KeepsOwn
    BY <1>5 DEF SqliteSetup, KeepsOwn, RemoveFixture, worldVars, kernelVars, processVars, fileVars
  <2> QED BY <2>1, KeepsForeign
<1>6. CASE SqliteInitialized
  <2>1. KeepsOwn
    BY <1>6 DEF SqliteInitialized, KeepsOwn, RemoveFixture, worldVars, kernelVars, processVars,
       fileVars
  <2> QED BY <2>1, KeepsForeign
<1>7. CASE SqliteDrainStart
  <2>1. KeepsOwn
    BY <1>7 DEF SqliteDrainStart, KeepsOwn, RemoveFixture, worldVars, kernelVars, processVars,
       fileVars
  <2> QED BY <2>1, KeepsForeign
<1>8. CASE SqliteDrainEnd
  <2>1. KeepsOwn
    BY <1>8 DEF SqliteDrainEnd, KeepsOwn, RemoveFixture, worldVars, kernelVars, processVars,
       fileVars
  <2> QED BY <2>1, KeepsForeign
<1>9. CASE SqliteWorkload
  <2>1. KeepsOwn
    BY <1>9 DEF SqliteWorkload, KeepsOwn, RemoveFixture, worldVars, kernelVars, processVars,
       fileVars
  <2> QED BY <2>1, KeepsForeign
<1>10. CASE SqliteVerify
  <2>1. KeepsOwn
    BY <1>10 DEF SqliteVerify, KeepsOwn, RemoveFixture, worldVars, kernelVars, processVars, fileVars
  <2> QED BY <2>1, KeepsForeign
<1>11. CASE SqliteVerified
  <2>1. KeepsOwn
    BY <1>11 DEF SqliteVerified, KeepsOwn, RemoveFixture, worldVars, kernelVars, processVars,
       fileVars
  <2> QED BY <2>1, KeepsForeign
<1>12. ASSUME NEW reaped \in BOOLEAN, SqliteFilesFail(reaped)
      PROVE  ForeignInv'
  <2>1. KeepsOwn
    BY <1>12 DEF SqliteFilesFail, KeepsOwn, RemoveFixture, worldVars, kernelVars, processVars,
       fileVars
  <2> QED BY <2>1, KeepsForeign
<1>13. CASE SqliteFinish
  <2>1. KeepsOwn
    BY <1>13 DEF SqliteFinish, KeepsOwn, RemoveFixture, worldVars, kernelVars, processVars, fileVars
  <2> QED BY <2>1, KeepsForeign
<1>14. ASSUME NEW stage \in FinishStages, NEW imageLeft \in BOOLEAN, SqliteFinishFails(stage,
              imageLeft)
      PROVE  ForeignInv'
  <2>1. KeepsOwn
    BY <1>14 DEF SqliteFinishFails, KeepsOwn, RemoveFixture, worldVars, kernelVars, processVars,
       fileVars
  <2> QED BY <2>1, KeepsForeign
<1>15. ASSUME NEW written \in BOOLEAN, SqliteResult(written)
      PROVE  ForeignInv'
  <2>1. KeepsOwn
    BY <1>15 DEF SqliteResult, KeepsOwn, RemoveFixture, worldVars, kernelVars, processVars, fileVars
  <2> QED BY <2>1, KeepsForeign
<1>16. ASSUME NEW written \in BOOLEAN, SqliteSummary(written)
      PROVE  ForeignInv'
  <2>1. KeepsOwn
    BY <1>16 DEF SqliteSummary, KeepsOwn, RemoveFixture, worldVars, kernelVars, processVars,
       fileVars
  <2> QED BY <2>1, KeepsForeign
<1>17. ASSUME NEW written \in BOOLEAN, SqliteFailed(written)
      PROVE  ForeignInv'
  <2>1. KeepsOwn
    BY <1>17 DEF SqliteFailed, KeepsOwn, RemoveFixture, worldVars, kernelVars, processVars, fileVars
  <2> QED BY <2>1, KeepsForeign
<1> QED
  BY <1>1, <1>2, <1>3, <1>4, <1>5, <1>6, <1>7, <1>8, <1>9, <1>10, <1>11, <1>12, <1>13, <1>14, <1>15,
     <1>16, <1>17 DEF SqliteOnly

\* Every step keeps somebody else's devices, or lets a delete command get away.
LEMMA ForeignStep ==
  ASSUME Types, Holding, ForeignInv, [Next]_vars
  PROVE  ForeignInv'
<1>1. CASE UNCHANGED <<worldVars, fio>>
  <2>1. KeepsOwn
    BY <1>1 DEF KeepsOwn, worldVars, kernelVars, processVars
  <2> QED BY <2>1, KeepsForeign
<1>2. CASE UNCHANGED vars
  BY <1>2, <1>1 DEF vars
<1>3. CASE SqliteNext /\ UNCHANGED fio
  <2>1. CASE CountersNext
    BY <2>1, <1>1, <1>3 DEF CountersNext
  <2> QED BY <1>3, <2>1, SqliteSplit, FsForeign, SqliteForeign
<1> QED
  BY <1>1, <1>2, <1>3, WorldForeign, SecondForeign, OtherForeign, FioForeign, FsForeign DEF Next

-----------------------------------------------------------------------------
(* The second daemon.                                                      *)

\* A step that neither touches the second daemon nor gives it a device.
KeepsSecond ==
  /\ second' = second
  /\ \A id \in Ids : devices'[id].owner = "second" => devices[id].owner = "second"

\* The machine's own steps and somebody else's are such steps.
LEMMA WorldKeepsSecond ==
  ASSUME WorldType, WorldNext \/ OtherNext
  PROVE  KeepsSecond
<1> USE DEF WorldType
<1>1. CASE DaemonParks \/ DaemonDies \/ CleanupKill \/ CleanupReaps \/ CleanupFails
  BY <1>1 DEF DaemonParks, DaemonDies, CleanupKill, CleanupReaps, CleanupFails, KeepsSecond,
     kernelVars
<1>2. CASE DaemonServes \/ DaemonStops
  <2>1. daemon.id \in Ids
    BY <1>2 DEF DaemonServes, DaemonStops, ProcessType, DaemonOK, Daemons, IdsOrNone
  <2> QED BY <1>2, <2>1 DEF DaemonServes, DaemonStops, KeepsSecond, KernelType, Device, NoDevice
<1>3. CASE DeleteRuns
  <2>1. deletion.id \in Ids
    BY <1>3 DEF DeleteRuns, ProcessType, DeletionOK
  <2> QED BY <1>3, <2>1 DEF DeleteRuns, Remove, KeepsSecond, KernelType, NoDevice
<1>4. ASSUME NEW id \in Ids, DaemonAdds(id) \/ KernelStops(id) \/ StrayDeleteRuns(id)
      PROVE  KeepsSecond
  BY <1>4 DEF DaemonAdds, KernelStops, StrayDeleteRuns, Remove, KeepsSecond, KernelType, Device,
     NoDevice, processVars
<1>5. ASSUME NEW id \in Ids, OtherAdds(id) \/ OtherDeletes(id)
      PROVE  KeepsSecond
  BY <1>5 DEF OtherAdds, OtherDeletes, KeepsSecond, KernelType, NoDevice, processVars
<1> QED BY <1>1, <1>2, <1>3, <1>4, <1>5 DEF WorldNext, OtherNext

\* So are those of the filesystem suites.
LEMMA FsKeepsSecond ==
  ASSUME Types, FsNext \/ SqliteOnly
  PROVE  KeepsSecond
<1>1. ASSUME NEW accepted \in BOOLEAN, FsReady(accepted)
      PROVE  KeepsSecond
  <2>1. daemon.id \in Ids
    BY <1>1 DEF FsReady, Types, WorldType, ProcessType, DaemonOK
  <2> QED BY <1>1, <2>1 DEF FsReady, KeepsSecond, Types, WorldType, KernelType, Device, processVars
<1>2. ASSUME SqliteOnly PROVE UNCHANGED <<second, devices>>
  BY <1>2 DEF SqliteOnly, SqliteTimeout, SqliteNew, SqliteNewFails, SqlitePreflight, SqliteSetup,
     SqliteInitialized, SqliteDrainStart, SqliteDrainEnd, SqliteWorkload, SqliteVerify,
     SqliteVerified, SqliteFilesFail, SqliteFinish, SqliteFinishFails, SqliteResult, SqliteSummary,
     SqliteFailed, RemoveFixture, worldVars, processVars, kernelVars
<1>3. ASSUME FsCommonNext, \A accepted \in BOOLEAN : ~FsReady(accepted)
      PROVE  UNCHANGED <<second, devices>>
  BY <1>3 DEF FsCommonNext, FsHelperFails, FsCommandFails, FsFormatFails, FsCheck, FsFormatXfs,
     FsFormattedXfs, FsMount, FsUnmount, FsUnmounted, FsTerminate, FsExited, FsReaped, FsRecover,
     FsRecoverReaped, FsRecoverDevice, FsUnrecoverable, worldVars, processVars, kernelVars
<1>4. ASSUME FsNext, ~FsCommonNext PROVE UNCHANGED <<second, devices>>
  BY <1>4 DEF FsNext, FsFormat, FsStart, FsMounted, FsFiles, FsStop, FsGone, FsFinish,
     FsFinishFails, FsError, FsRecoverDaemon, FsDrop, RemoveFixture, worldVars, processVars,
     kernelVars
<1>5. UNCHANGED <<second, devices>> => KeepsSecond
  BY DEF KeepsSecond
<1> QED BY <1>1, <1>2, <1>3, <1>4, <1>5

\* What is not the lock proof does not touch the second daemon, and a cleanup stays one.
LEMMA FioKeepsSecond ==
  ASSUME Types, FioNext, ~FioLock, ~FioLockProven, \A reaped \in BOOLEAN : ~FioLockLost(reaped)
  PROVE  KeepsSecond /\ (fio.at \in SecondPlaces => fio'.at \in SecondPlaces)
<1>1. CASE FioReady
  <2>1. daemon.id \in Ids
    BY <1>1 DEF FioReady, Types, WorldType, ProcessType, DaemonOK
  <2> QED BY <1>1, <2>1 DEF FioReady, KeepsSecond, SecondPlaces, Types, WorldType, KernelType,
        Device, processVars
<1>2. ASSUME ~FioReady PROVE UNCHANGED <<second, devices>>
  BY <1>2, Zenon DEF FioNext, FioSetup, FioFormat, FioStart, FioRun, FioSignal, FioExited,
     FioReaped, FioGone, FioHandshake, FioIdentity, FioDelete, FioDeleted, FioDeleteFails, FioClear,
     FioClearFails, FioError, CleanChild, CleanChildDone, CleanUnrecorded, CleanDevice,
     CleanDeleted, CleanDeleteFails, CleanGone, CleanFiles, worldVars, processVars, kernelVars
<1>3. ASSUME fio.at \in SecondPlaces PROVE fio'.at \in SecondPlaces
  <2>1. fio.at \in {"failed", "clean_child", "clean_device", "clean_deleting", "clean_gone",
                    "clean_files"}
    BY <1>3 DEF SecondPlaces, FioNext, FioSetup, FioFormat, FioStart, FioReady, FioRun, FioSignal,
       FioExited, FioReaped, FioGone, FioHandshake, FioIdentity, FioDelete, FioDeleted,
       FioDeleteFails, FioClear, FioClearFails, FioError, CleanChild, CleanChildDone,
       CleanUnrecorded, CleanDevice, CleanDeleted, CleanDeleteFails, CleanGone, CleanFiles, Op
  <2>2. \/ CleanChild \/ CleanChildDone \/ CleanUnrecorded \/ CleanDeleted
        \/ \E identity \in Identities : CleanDevice(identity)
        \/ \E reaped \in BOOLEAN : CleanDeleteFails(reaped)
        \/ \E disappeared \in BOOLEAN : CleanGone(disappeared)
        \/ \E valid, removed, imageLeft \in BOOLEAN : CleanFiles(valid, removed, imageLeft)
    BY <2>1 DEF FioNext, FioSetup, FioFormat, FioStart, FioReady, FioRun, FioSignal, FioExited,
       FioReaped, FioGone, FioHandshake, FioIdentity, FioDelete, FioDeleted, FioDeleteFails,
       FioClear, FioClearFails, FioError, Op
  <2> QED BY <2>2 DEF CleanChild, CleanChildDone, CleanUnrecorded, CleanDevice, CleanDeleted,
        CleanDeleteFails, CleanGone, CleanFiles, Preserve, SecondPlaces, Types, FioType, FioOK
<1>4. UNCHANGED <<second, devices>> => KeepsSecond
  BY DEF KeepsSecond
<1> QED BY <1>1, <1>2, <1>3, <1>4

\* Every step keeps where the second daemon and its device can be.
LEMMA SecondStep ==
  ASSUME Types, SecondInv, [Next]_vars
  PROVE  SecondInv'
<1>1. ASSUME KeepsSecond, fio.at \in SecondPlaces => fio'.at \in SecondPlaces
      PROVE  SecondInv'
  BY <1>1 DEF SecondInv, KeepsSecond
<1>2. CASE (WorldNext \/ OtherNext) /\ UNCHANGED fio
  BY <1>1, <1>2, WorldKeepsSecond DEF Types
<1>3. CASE SecondNext /\ UNCHANGED fio
  <2>1. CASE SecondRefused \/ SecondEnds
    BY <1>3, <2>1 DEF SecondRefused, SecondEnds, SecondInv, kernelVars
  <2>2. ASSUME NEW id \in Ids, SecondAdds(id) \/ SecondServes(id) \/ SecondStops(id)
        PROVE  SecondInv'
    BY <1>3, <2>2 DEF SecondAdds, SecondServes, SecondStops, SecondInv
  <2> QED BY <1>3, <2>1, <2>2 DEF SecondNext
<1>4. CASE FioLock
  BY <1>4 DEF FioLock, Op, SecondInv, SecondPlaces, Types, FioType, FioOK, kernelVars
<1>5. CASE FioLockProven
  BY <1>5 DEF FioLockProven, SecondInv, kernelVars
<1>6. ASSUME NEW reaped \in BOOLEAN, FioLockLost(reaped)
      PROVE  SecondInv'
  BY <1>6 DEF FioLockLost, Failed, SecondInv, SecondPlaces, Types, FioType, FioOK, kernelVars
<1>7. CASE FioNext
  BY <1>1, <1>4, <1>5, <1>6, <1>7, FioKeepsSecond
<1>8. CASE UNCHANGED <<worldVars, fio>>
  <2>1. KeepsSecond
    BY <1>8 DEF KeepsSecond, worldVars, processVars, kernelVars
  <2> QED BY <1>1, <1>8, <2>1
<1>9. CASE (FsNext \/ SqliteOnly) /\ UNCHANGED fio
  BY <1>1, <1>9, FsKeepsSecond
<1>10. CASE SqliteNext /\ UNCHANGED fio
  <2>1. CASE CountersNext
    BY <1>8, <1>10, <2>1 DEF CountersNext
  <2> QED BY <1>9, <1>10, <2>1, SqliteSplit
<1>11. CASE UNCHANGED vars
  BY <1>8, <1>11 DEF vars
<1> QED BY <1>2, <1>3, <1>7, <1>8, <1>9, <1>10, <1>11 DEF Next

=============================================================================
